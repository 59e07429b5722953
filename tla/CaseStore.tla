------------------------------ MODULE CaseStore ------------------------------
(***************************************************************************)
(* SqliteCaseStore (src/elcapitan/case_store.py), and PostgresCaseStore,   *)
(* which keeps the same tables.  Each operation that writes is one         *)
(* transaction, so it is one step; what a caller read before may be stale  *)
(* by then.  The modules that EXTEND this one say who calls it.            *)
(***************************************************************************)
EXTENDS Cases, Sequences

CONSTANTS
  CaseIds, Assets,    \* ids that one tenant's cases and assets can have
  NoCase              \* no case

ASSUME NoCaseAssumption == NoCase \notin CaseIds

VARIABLES
  rows,     \* remediation_cases: the projection of each case
  linked,   \* case_assets, by case
  active,   \* active_case_assets, by asset, its primary key
  log       \* case_events, by case and in sequence

store == <<rows, linked, active, log>>

StoreInit ==
  /\ rows = [c \in CaseIds |-> Unopened]
  /\ linked = [c \in CaseIds |-> {}]
  /\ active = [a \in Assets |-> NoCase]
  /\ log = [c \in CaseIds |-> <<>>]

Exists(c) == rows[c] # Unopened

\* Mutants: the active rows of a closed case are left behind, the update does not ask
\* for the version, the active rows are unique by case and asset.
ActiveLeftBehind(c, row) == active
AnyVersion(c, version) == Exists(c)
NotHeldTwice(c, a) == active[a] # c

\* DELETE FROM active_case_assets when the case that was appended to is terminal.
ActiveAfter(c, row) ==
  [a \in Assets |-> IF IsTerminal(row) /\ active[a] = c THEN NoCase ELSE active[a]]

\* UPDATE ... WHERE case_id = c AND version = expected touches one row.  The primary
\* key (case_id, sequence) of case_events repeats the condition.
VersionIs(c, version) == Exists(c) /\ rows[c].version = version

\* The insert into active_case_assets finds no row with the same key.
AssetFree(c, a) == active[a] = NoCase

\* create.  When the case or one of its assets is taken it raises
\* ConcurrentCaseUpdate and its transaction leaves nothing behind.
CanCreate(c, assets) == ~Exists(c) /\ \A a \in assets : AssetFree(c, a)

CreateCase(c, findings, assets) ==
  /\ CanCreate(c, assets)
  /\ rows' = [rows EXCEPT ![c] = OpenCase(findings)]
  /\ linked' = [linked EXCEPT ![c] = assets]
  /\ active' = [a \in Assets |-> IF a \in assets THEN c ELSE active[a]]
  /\ UNCHANGED log

\* append of the projection and the event that request r makes of row, which the
\* caller read before; a version that moved on raises ConcurrentCaseUpdate.
AppendEvent(c, row, r) ==
  /\ VersionIs(c, row.version)
  /\ rows' = [rows EXCEPT ![c] = Apply(row, r)]
  /\ log' = [log EXCEPT ![c] = Append(@, EventOf(row, r))]
  /\ active' = ActiveAfter(c, Apply(row, r))
  /\ UNCHANGED linked

\* Mutant: the query does not ask for the asset.
AnyActive(a) ==
  IF \E b \in Assets : active[b] # NoCase
  THEN active[CHOOSE b \in Assets : active[b] # NoCase] ELSE NoCase

\* find_active_by_asset: the join of active_case_assets with remediation_cases.
FindActive(a) == active[a]
------------------------------------------------------------------------------
(***************************************************************************)
(* Properties of the tables                                                *)
(***************************************************************************)
\* The columns have their types (schema in _initialize, CaseEvent.__post_init__).
StoreTypeOK ==
  /\ rows \in [CaseIds -> Case \cup {Unopened}]
  /\ linked \in [CaseIds -> SUBSET Assets]
  /\ active \in [Assets -> CaseIds \cup {NoCase}]
  /\ \A c \in CaseIds : \A i \in DOMAIN log[c] :
       /\ log[c][i].transition \in Transitions
       /\ log[c][i].sequence >= 1

\* The events of a case replay to its projection: contiguous sequences, each event
\* starting in the state the one before led to, the first one in "open", the last one
\* leading to the state and version of the row, and the findings of the events all on
\* the row.
LogReplaysToRow ==
  \A c \in CaseIds :
    LET events == log[c] IN
      /\ Len(events) = rows[c].version
      /\ \A i \in 1..Len(events) :
           /\ events[i].sequence = i
           /\ events[i].from = IF i = 1 THEN "open" ELSE events[i - 1].to
           /\ events[i].additions \subseteq rows[c].findings
      /\ Len(events) > 0 => rows[c].state = events[Len(events)].to
      /\ Len(events) = 0 /\ Exists(c) => rows[c].state = "open"

\* active_case_assets lists exactly the assets of the cases that are not terminal, and
\* so no asset is in two cases that are being worked on.
ActiveIndexExact ==
  \A c \in CaseIds, a \in Assets :
    active[a] = c <=> Exists(c) /\ ~IsTerminal(rows[c]) /\ a \in linked[c]

\* A terminal case is never written again, by however slow a writer: its projection
\* and its events are final.
TerminalIsFinal ==
  [][\A c \in CaseIds : IsTerminal(rows[c]) =>
       UNCHANGED <<rows[c], linked[c], log[c]>>]_store
==============================================================================
