----------------------------- MODULE Coordinators -----------------------------
(***************************************************************************)
(* WorkflowCoordinators (src/elcapitan/workflow.py) of several processes   *)
(* on one CaseStore.  advance reads the case, computes the next projection *)
(* and appends it on condition that the version is still the one it read;  *)
(* the other processes' steps fall between the read and the append, and a  *)
(* process may die there.                                                  *)
(***************************************************************************)
EXTENDS CaseStore

CONSTANTS
  Writers,      \* processes that advance cases
  Issued,       \* the transitions they ask for
  MaxVersion    \* bound on the version of a case (model bound)

ASSUME IssuedAssumption == Issued \subseteq Transitions

VARIABLES
  reading,  \* the case an advance of the writer is about, NoCase when there is none
  read      \* current: the projection that advance has read

writers == <<reading, read>>
vars == <<store, writers>>

Init ==
  /\ StoreInit
  /\ reading = [w \in Writers |-> NoCase]
  /\ read = [w \in Writers |-> Unopened]

Idle(w) ==
  /\ reading' = [reading EXCEPT ![w] = NoCase]
  /\ read' = [read EXCEPT ![w] = Unopened]

\* open
Open(c, findings, assets) ==
  /\ CreateCase(c, findings, assets)
  /\ UNCHANGED writers

\* advance: current = self.store.get(case_id)
Get(w, c) ==
  /\ reading[w] = NoCase
  /\ Exists(c)
  /\ reading' = [reading EXCEPT ![w] = c]
  /\ read' = [read EXCEPT ![w] = rows[c]]
  /\ UNCHANGED store

\* advance: transition_case, then self.store.append
AppendOf(w, t) ==
  LET c == reading[w] IN
    /\ c # NoCase
    /\ read[w].version < MaxVersion
    /\ \E names \in Attached(t), additions \in Additions(t) :
         LET r == RequestOf(read[w], t, names, additions) IN
           /\ Permits(read[w], r)
           /\ AppendEvent(c, read[w], r)
    /\ Idle(w)

\* advance: transition_case or append raises, or the process dies; the transaction is
\* rolled back and the store keeps nothing of the attempt.
GiveUp(w) ==
  /\ reading[w] # NoCase
  /\ Idle(w)
  /\ UNCHANGED store

Next ==
  \/ \E c \in CaseIds, findings \in SUBSET Findings, assets \in SUBSET Assets :
       findings # {} /\ Open(c, findings, assets)
  \/ \E w \in Writers, c \in CaseIds : Get(w, c)
  \/ \E w \in Writers, t \in Issued : AppendOf(w, t)
  \/ \E w \in Writers : GiveUp(w)

Spec == Init /\ [][Next]_vars
------------------------------------------------------------------------------
(***************************************************************************)
(* Refinement: however the processes interleave, each row of the store is  *)
(* a case of CaseLifecycle.                                                *)
(***************************************************************************)
Lifecycle(c) == INSTANCE CaseLifecycle WITH case <- rows[c]

\* Every row of the store behaves as CaseLifecycle says, for all the interleavings of
\* advance: an append that is not serialised with the one before is never kept.
RowsAreLifecycles ==
  /\ \A c \in CaseIds : Lifecycle(c)!Init
  /\ [][\A c \in CaseIds : [Lifecycle(c)!Next]_(rows[c])]_vars

TypeOK ==
  /\ StoreTypeOK
  /\ reading \in [Writers -> CaseIds \cup {NoCase}]
  /\ read \in [Writers -> Case \cup {Unopened}]
  /\ \A w \in Writers : reading[w] = NoCase <=> read[w] = Unopened
==============================================================================
