----------------------------- MODULE IntakeProofs -----------------------------
(***************************************************************************)
(* Theorems about Intake, for any number of workers, findings, assets and  *)
(* cases, any scores and any number of deaths.  A worker acts on a         *)
(* projection that may be stale; what keeps its steps right is that the    *)
(* findings and the links of a case only grow while it exists (Grows), so  *)
(* what the worker has seen of its case is still a part of it (WorkerOK).  *)
(* The tables of the case store are kept by what CoordinatorsProofs shows  *)
(* of create and append (last section).                                    *)
(***************************************************************************)
EXTENDS Intake, TLAPS

Labels == {"idle", "put", "lookup", "open", "lost", "join", "loop", "append",
           "append_join"}

\* The calls a worker makes while it has a case.
Holding == {"loop", "join", "append", "append_join"}

\* Priority p is none, or the score of one of the findings.
Among(p, findings) == p = NoId \/ \E f \in findings : p = Score[f]

StoreShape ==
  /\ DOMAIN rows = CaseIds
  /\ \A c \in CaseIds : rows[c].version \in Nat /\ rows[c].findings \in SUBSET Findings
  /\ linked \in [CaseIds -> SUBSET Assets]
  /\ active \in [Assets -> CaseIds \cup {NoCase}]
  /\ recorded \in SUBSET Findings
  /\ assigned \in [Findings -> CaseIds \cup {NoCase}]

WorkerShape ==
  /\ pc \in [Workers -> Labels]
  /\ finding \in [Workers -> Findings \cup {NoFinding}]
  /\ target \in [Workers -> CaseIds \cup {NoCase}]
  /\ DOMAIN current = Workers

\* The case the index names for an asset exists and is linked to it.
ActiveLinked ==
  \A a \in Assets : active[a] # NoCase =>
    Exists(active[a]) /\ a \in linked[active[a]]

\* The priorities of the cases that exist, as PriorityOfAFinding has them.
PriorityAmong ==
  \A c \in CaseIds : Exists(c) => Among(rows[c].priority, rows[c].findings)

\* A worker that has put its finding ingests a recorded one; the case it holds is a case
\* of the finding's asset, and what it has seen of it is still a part of it.
HoldsCase(w) ==
  LET c == target[w] IN
    /\ c \in CaseIds
    /\ Exists(c)
    /\ AssetOf[finding[w]] \in linked[c]
    /\ current[w].findings \subseteq rows[c].findings
    /\ Among(current[w].priority, rows[c].findings)

WorkerOK(w) ==
  /\ pc[w] # "idle" => finding[w] \in Findings
  /\ pc[w] \notin {"idle", "put"} => finding[w] \in recorded
  /\ pc[w] \in Holding => HoldsCase(w)

StoreInv ==
  StoreShape /\ ActiveLinked /\ PriorityAmong /\ AssignedIsMember /\ CorrelatedByAsset

IInv == StoreInv /\ WorkerShape /\ \A w \in Workers : WorkerOK(w)

\* A step leaves the cases there are, with their links and at least their findings.
Grows ==
  /\ \A c \in CaseIds : rows[c] # Unopened =>
       /\ rows'[c] # Unopened /\ linked'[c] = linked[c]
       /\ rows[c].findings \subseteq rows'[c].findings
  /\ recorded \subseteq recorded'

SameWorker(v) ==
  /\ pc'[v] = pc[v] /\ finding'[v] = finding[v] /\ target'[v] = target[v]
  /\ current'[v] = current[v]

USE NoCaseAssumption, FindingAssumption

\* A priority among some findings is among more of them.
LEMMA AmongMore ==
  ASSUME NEW p, NEW S, NEW T, S \subseteq T, Among(p, S)
  PROVE  Among(p, T)
BY DEF Among

\* The invariant implies the property the runs check.
LEMMA PriorityIs == PriorityAmong => PriorityOfAFinding
BY DEF PriorityAmong, PriorityOfAFinding, Among

\* A case that does not exist, and one that was just opened.
LEMMA NewCase ==
  /\ Unopened.version = 0 /\ Unopened.findings = {}
  /\ \A f \in Findings :
       /\ OpenCase({f}) # Unopened /\ OpenCase({f}).version = 0
       /\ OpenCase({f}).findings = {f} /\ OpenCase({f}).priority = NoId
       /\ OpenCase({f}).state = "open"
<1>1. Unopened.state = "unopened" /\ Unopened.version = 0 /\ Unopened.findings = {}
  BY DEF Unopened, OpenCase
<1>2. \A f \in Findings :
        /\ OpenCase({f}).version = 0 /\ OpenCase({f}).findings = {f}
        /\ OpenCase({f}).priority = NoId /\ OpenCase({f}).state = "open"
  BY DEF OpenCase
<1> QED
  BY <1>1, <1>2

\* The invariant holds of the empty stores.
LEMMA InitIInv == Init => IInv
<1> SUFFICES ASSUME Init PROVE IInv
  OBVIOUS
<1>1. /\ rows = [c \in CaseIds |-> Unopened] /\ linked = [c \in CaseIds |-> {}]
      /\ active = [a \in Assets |-> NoCase] /\ recorded = {}
      /\ assigned = [f \in Findings |-> NoCase]
      /\ pc = [w \in Workers |-> "idle"] /\ finding = [w \in Workers |-> NoFinding]
      /\ target = [w \in Workers |-> NoCase] /\ current = [w \in Workers |-> Unopened]
  BY DEF Init, StoreInit
<1>2. StoreShape /\ WorkerShape
  BY <1>1, NewCase DEF StoreShape, WorkerShape, Labels
<1>3. ActiveLinked /\ PriorityAmong /\ AssignedIsMember /\ CorrelatedByAsset
  BY <1>1 DEF ActiveLinked, PriorityAmong, AssignedIsMember, CorrelatedByAsset, Exists
<1>4. \A w \in Workers : WorkerOK(w)
  BY <1>1 DEF WorkerOK, Holding
<1> QED
  BY <1>2, <1>3, <1>4 DEF IInv, StoreInv

\* What a worker has seen stays a part of its case, whatever the others do.
LEMMA WorkerStays ==
  ASSUME IInv, NEW v \in Workers, SameWorker(v), Grows
  PROVE  WorkerOK(v)'
<1>1. WorkerOK(v) /\ recorded \subseteq recorded'
  BY DEF IInv, Grows
<1>2. pc[v] \in Holding => HoldsCase(v)'
  <2> SUFFICES ASSUME pc[v] \in Holding PROVE HoldsCase(v)'
    OBVIOUS
  <2> DEFINE c == target[v]
  <2>1. /\ c \in CaseIds /\ rows[c] # Unopened /\ AssetOf[finding[v]] \in linked[c]
        /\ current[v].findings \subseteq rows[c].findings
        /\ Among(current[v].priority, rows[c].findings)
    BY <1>1 DEF WorkerOK, HoldsCase, Exists
  <2>2. /\ rows'[c] # Unopened /\ linked'[c] = linked[c]
        /\ rows[c].findings \subseteq rows'[c].findings
    BY <2>1 DEF Grows
  <2>3. Among(current[v].priority, rows'[c].findings)
    BY <2>1, <2>2, AmongMore
  <2> QED
    BY <2>1, <2>2, <2>3 DEF HoldsCase, Exists, SameWorker, Among
<1> QED
  BY <1>1, <1>2 DEF WorkerOK, SameWorker

\* A step of one worker: the store, that worker and the shape of the others' locals.
LEMMA OneWorker ==
  ASSUME IInv, NEW w \in Workers, Grows, StoreInv', WorkerShape', WorkerOK(w)',
         \A v \in Workers : v # w => SameWorker(v)
  PROVE  IInv'
<1>1. \A v \in Workers : WorkerOK(v)'
  BY WorkerStays
<1> QED
  BY <1>1 DEF IInv

\* A step that writes neither store.
LEMMA StoreStays ==
  ASSUME IInv, UNCHANGED <<store, findings_vars>>
  PROVE  StoreInv' /\ Grows
<1>1. /\ rows' = rows /\ linked' = linked /\ active' = active
      /\ recorded' = recorded /\ assigned' = assigned
  BY DEF store, findings_vars
<1>2. StoreShape' /\ ActiveLinked' /\ AssignedIsMember' /\ CorrelatedByAsset'
  BY <1>1 DEF IInv, StoreInv, StoreShape, ActiveLinked, AssignedIsMember,
              CorrelatedByAsset, Exists
<1>3. PriorityAmong'
  BY <1>1 DEF IInv, StoreInv, PriorityAmong, Among, Exists
<1> QED
  BY <1>1, <1>2, <1>3 DEF StoreInv, Grows

\* ingest returns or raises: the worker is idle and the others are where they were.
LEMMA LeaveIs ==
  ASSUME IInv, NEW w \in Workers, Leave(w)
  PROVE  WorkerShape' /\ WorkerOK(w)' /\ \A v \in Workers : v # w => SameWorker(v)
<1>1. /\ pc' = [pc EXCEPT ![w] = "idle"] /\ finding' = [finding EXCEPT ![w] = NoFinding]
      /\ target' = [target EXCEPT ![w] = NoCase]
      /\ current' = [current EXCEPT ![w] = Unopened]
  BY DEF Leave, GoTo
<1>2. WorkerShape' /\ pc'[w] = "idle"
  BY <1>1 DEF IInv, WorkerShape, Labels
<1>3. \A v \in Workers : v # w => SameWorker(v)
  BY <1>1 DEF IInv, WorkerShape, SameWorker
<1> QED
  BY <1>2, <1>3 DEF WorkerOK, Holding

\* An ingest that ends without a write.
LEMMA LeaveIInv ==
  ASSUME IInv, NEW w \in Workers, Leave(w), UNCHANGED <<store, findings_vars>>
  PROVE  IInv'
BY StoreStays, LeaveIs, OneWorker

\* The append of advance, by a worker or by validation: when the findings it adds are
\* recorded ones of the case's asset, and the priority it sets is that of a finding of
\* the case, the stores keep their invariant.
LEMMA AppendStores ==
  ASSUME IInv, NEW c \in CaseIds, NEW r, AppendEvent(c, rows[c], r),
         UNCHANGED findings_vars,
         r.additions \subseteq {f \in recorded : AssetOf[f] \in linked[c]},
         Among(OrElse(r.priority, rows[c].priority), rows[c].findings \cup r.additions)
  PROVE  StoreInv' /\ Grows
<1> DEFINE new == Apply(rows[c], r)
<1>1. /\ rows[c] # Unopened /\ rows' = [rows EXCEPT ![c] = new] /\ linked' = linked
      /\ active' = ActiveAfter(c, new) /\ recorded' = recorded /\ assigned' = assigned
  BY DEF AppendEvent, VersionIs, Exists, findings_vars
<1>2. /\ new.version = rows[c].version + 1 /\ new.findings = rows[c].findings \cup r.additions
      /\ new.priority = OrElse(r.priority, rows[c].priority)
  BY DEF Apply
<1>3. /\ DOMAIN rows' = CaseIds /\ rows'[c] = new
      /\ \A d \in CaseIds : d # c => rows'[d] = rows[d]
  BY <1>1 DEF IInv, StoreInv, StoreShape
<1>4. /\ rows[c].version \in Nat /\ rows[c].findings \subseteq Findings
      /\ recorded \subseteq Findings
  BY DEF IInv, StoreInv, StoreShape
<1>5. new # Unopened /\ new.version \in Nat /\ new.findings \subseteq Findings
  BY <1>2, <1>4, NewCase
<1>6. Grows
  BY <1>1, <1>2, <1>3, <1>5 DEF Grows
<1>7. \A a \in Assets : active'[a] \in {active[a], NoCase}
  BY <1>1 DEF ActiveAfter
<1>8. StoreShape'
  <2>1. active' \in [Assets -> CaseIds \cup {NoCase}]
    BY <1>1 DEF ActiveAfter, IInv, StoreInv, StoreShape
  <2>2. \A d \in CaseIds : rows'[d].version \in Nat /\ rows'[d].findings \in SUBSET Findings
    BY <1>3, <1>5 DEF IInv, StoreInv, StoreShape
  <2> QED
    BY <2>1, <2>2, <1>1, <1>3 DEF IInv, StoreInv, StoreShape
<1>9. ActiveLinked'
  BY <1>1, <1>6, <1>7 DEF IInv, StoreInv, StoreShape, ActiveLinked, Grows, Exists
<1>10. PriorityAmong'
  <2> SUFFICES ASSUME NEW d \in CaseIds, rows'[d] # Unopened
               PROVE  Among(rows'[d].priority, rows'[d].findings)
    BY DEF PriorityAmong, Exists, Among
  <2>1. CASE d = c
    BY <2>1, <1>2, <1>3
  <2>2. CASE d # c
    BY <2>2, <1>3 DEF IInv, StoreInv, PriorityAmong, Exists
  <2> QED
    BY <2>1, <2>2
<1>11. AssignedIsMember'
  BY <1>1, <1>6 DEF IInv, StoreInv, StoreShape, AssignedIsMember, Grows, Exists
<1>12. CorrelatedByAsset'
  <2> SUFFICES ASSUME NEW d \in CaseIds, NEW f \in Findings, rows'[d] # Unopened,
                      f \in rows'[d].findings
               PROVE  f \in recorded /\ AssetOf[f] \in linked[d]
    BY <1>1 DEF CorrelatedByAsset, Exists
  <2>1. CASE d = c
    BY <2>1, <1>1, <1>2, <1>3 DEF IInv, StoreInv, CorrelatedByAsset, Exists
  <2>2. CASE d # c
    BY <2>2, <1>3 DEF IInv, StoreInv, CorrelatedByAsset, Exists
  <2> QED
    BY <2>1, <2>2
<1> QED
  BY <1>6, <1>8, <1>9, <1>10, <1>11, <1>12 DEF StoreInv

\* The start of an ingest.
LEMMA SubmitIInv ==
  ASSUME IInv, NEW w \in Workers, NEW f \in Findings, Submit(w, f)
  PROVE  IInv'
<1>1. /\ pc' = [pc EXCEPT ![w] = IF f \in recorded THEN "lookup" ELSE "put"]
      /\ finding' = [finding EXCEPT ![w] = f]
      /\ UNCHANGED <<store, findings_vars, target, current>>
  BY DEF Submit, GoTo
<1>2. recorded' = recorded
  BY <1>1 DEF findings_vars
<1>3. /\ pc'[w] = IF f \in recorded THEN "lookup" ELSE "put"
      /\ finding'[w] = f /\ \A v \in Workers : v # w => SameWorker(v)
  BY <1>1 DEF IInv, WorkerShape, SameWorker
<1>4. WorkerShape'
  BY <1>1 DEF IInv, WorkerShape, Labels
<1>5. WorkerOK(w)'
  BY <1>2, <1>3 DEF WorkerOK, Holding
<1> QED
  BY <1>1, <1>3, <1>4, <1>5, StoreStays, OneWorker

\* The finding is put.
LEMMA PutIInv ==
  ASSUME IInv, NEW w \in Workers, PutFinding(w)
  PROVE  IInv'
<1>1. /\ pc[w] = "put" /\ recorded' = recorded \cup {finding[w]}
      /\ pc' = [pc EXCEPT ![w] = "lookup"]
      /\ UNCHANGED <<store, assigned, finding, target, current>>
  BY DEF PutFinding, GoTo
<1>2. finding[w] \in Findings
  BY <1>1 DEF IInv, WorkerOK
<1>3. rows' = rows /\ linked' = linked /\ active' = active
  BY <1>1 DEF store
<1>4. pc'[w] = "lookup" /\ \A v \in Workers : v # w => SameWorker(v)
  BY <1>1 DEF IInv, WorkerShape, SameWorker
<1>5. Grows
  BY <1>1, <1>3 DEF Grows
<1>6. StoreShape' /\ ActiveLinked' /\ AssignedIsMember' /\ CorrelatedByAsset'
  BY <1>1, <1>2, <1>3
  DEF IInv, StoreInv, StoreShape, ActiveLinked, AssignedIsMember, CorrelatedByAsset, Exists
<1>7. PriorityAmong'
  BY <1>3 DEF IInv, StoreInv, PriorityAmong, Among, Exists
<1>8. WorkerShape'
  BY <1>1 DEF IInv, WorkerShape, Labels
<1>9. WorkerOK(w)'
  BY <1>1, <1>2, <1>4 DEF WorkerOK, Holding
<1> QED
  BY <1>4, <1>5, <1>6, <1>7, <1>8, <1>9, OneWorker DEF StoreInv

\* A worker that sees the row of a case of its asset holds it.
LEMMA SeesCase ==
  ASSUME IInv, NEW w \in Workers, NEW c \in CaseIds, NEW l \in Holding,
         UNCHANGED <<store, findings_vars, finding>>, GoTo(w, l), See(w, c, rows[c]),
         rows[c] # Unopened, AssetOf[finding[w]] \in linked[c],
         finding[w] \in recorded
  PROVE  IInv'
<1>1. /\ rows' = rows /\ linked' = linked /\ recorded' = recorded /\ finding' = finding
      /\ pc' = [pc EXCEPT ![w] = l] /\ target' = [target EXCEPT ![w] = c]
      /\ current' = [current EXCEPT ![w] = rows[c]]
  BY DEF store, findings_vars, GoTo, See
<1>2. /\ pc'[w] = l /\ target'[w] = c /\ current'[w] = rows[c]
      /\ \A v \in Workers : v # w => SameWorker(v)
  BY <1>1 DEF IInv, WorkerShape, SameWorker
<1>3. WorkerShape'
  BY <1>1 DEF IInv, WorkerShape, Labels, Holding
<1>4. Among(rows[c].priority, rows[c].findings)
  BY DEF IInv, StoreInv, PriorityAmong, Exists
<1>5. finding[w] \in Findings
  BY DEF IInv, StoreInv, StoreShape
<1>6. HoldsCase(w)'
  BY <1>1, <1>2, <1>4 DEF HoldsCase, Exists, Among
<1>7. WorkerOK(w)'
  BY <1>1, <1>2, <1>5, <1>6 DEF WorkerOK
<1> QED
  BY <1>2, <1>3, <1>7, StoreStays, OneWorker

\* The active case of an asset, as find_active_by_asset returns it.
LEMMA FoundCase ==
  ASSUME IInv, NEW f \in Findings, FindActive(AssetOf[f]) # NoCase
  PROVE  LET c == FindActive(AssetOf[f]) IN
         c \in CaseIds /\ rows[c] # Unopened /\ AssetOf[f] \in linked[c]
BY DEF FindActive, IInv, StoreInv, StoreShape, ActiveLinked, Exists

\* The first lookup by asset.
LEMMA LookupIInv ==
  ASSUME IInv, NEW w \in Workers, Lookup(w)
  PROVE  IInv'
<1> DEFINE c == FindActive(AssetOf[finding[w]])
<1>1. /\ pc[w] = "lookup" /\ UNCHANGED <<store, findings_vars, finding>>
      /\ IF c = NoCase THEN GoTo(w, "open") /\ UNCHANGED <<target, current>>
                       ELSE GoTo(w, "loop") /\ See(w, c, rows[c])
  BY DEF Lookup
<1>2. finding[w] \in Findings /\ finding[w] \in recorded
  BY <1>1 DEF IInv, WorkerOK
<1>3. CASE c = NoCase
  <2>1. pc' = [pc EXCEPT ![w] = "open"] /\ UNCHANGED <<finding, target, current>>
    BY <1>1, <1>3 DEF GoTo
  <2>2. pc'[w] = "open" /\ \A v \in Workers : v # w => SameWorker(v)
    BY <2>1 DEF IInv, WorkerShape, SameWorker
  <2>3. WorkerShape'
    BY <2>1 DEF IInv, WorkerShape, Labels
  <2>4. WorkerOK(w)'
    BY <1>1, <1>2, <2>1, <2>2 DEF WorkerOK, Holding, findings_vars
  <2> QED
    BY <1>1, <2>2, <2>3, <2>4, StoreStays, OneWorker
<1>4. CASE c # NoCase
  <2>1. c \in CaseIds /\ rows[c] # Unopened /\ AssetOf[finding[w]] \in linked[c]
    BY <1>2, <1>4, FoundCase
  <2>2. "loop" \in Holding
    BY DEF Holding
  <2> QED
    BY <1>1, <1>2, <1>4, <2>1, <2>2, SeesCase
<1> QED
  BY <1>3, <1>4

\* A new case for the finding: the case id is no case of any worker.
LEMMA OpenIInv ==
  ASSUME IInv, NEW w \in Workers, NEW c \in CaseIds, OpenNew(w, c)
  PROVE  IInv'
<1> DEFINE f == finding[w]
           a == AssetOf[f]
<1>1. /\ pc[w] = "open" /\ rows[c] = Unopened
      /\ rows' = [rows EXCEPT ![c] = OpenCase({f})]
      /\ linked' = [linked EXCEPT ![c] = {a}]
      /\ active' = [b \in Assets |-> IF b \in {a} THEN c ELSE active[b]]
      /\ pc' = [pc EXCEPT ![w] = "loop"] /\ target' = [target EXCEPT ![w] = c]
      /\ current' = [current EXCEPT ![w] = OpenCase({f})]
      /\ recorded' = recorded /\ assigned' = assigned /\ finding' = finding
  BY DEF OpenNew, CreateCase, CanCreate, Exists, See, GoTo, findings_vars
<1>2. f \in Findings /\ f \in recorded /\ a \in Assets
  BY <1>1 DEF IInv, WorkerOK
<1>3. /\ DOMAIN rows' = CaseIds /\ rows'[c] = OpenCase({f}) /\ linked'[c] = {a}
      /\ \A d \in CaseIds : d # c => rows'[d] = rows[d] /\ linked'[d] = linked[d]
      /\ \A b \in Assets : active'[b] = IF b = a THEN c ELSE active[b]
  BY <1>1 DEF IInv, StoreInv, StoreShape
<1>4. /\ OpenCase({f}) # Unopened /\ OpenCase({f}).version = 0
      /\ OpenCase({f}).findings = {f} /\ OpenCase({f}).priority = NoId
  BY <1>2, NewCase
<1>5. Grows
  BY <1>1, <1>3 DEF Grows
<1>6. StoreShape'
  <2>1. /\ linked' \in [CaseIds -> SUBSET Assets]
        /\ active' \in [Assets -> CaseIds \cup {NoCase}]
    BY <1>1, <1>2 DEF IInv, StoreInv, StoreShape
  <2>2. \A d \in CaseIds : rows'[d].version \in Nat /\ rows'[d].findings \in SUBSET Findings
    <3>1. OpenCase({f}).version \in Nat /\ OpenCase({f}).findings \in SUBSET Findings
      BY <1>2, <1>4
    <3>2. \A d \in CaseIds : rows[d].version \in Nat /\ rows[d].findings \in SUBSET Findings
      BY DEF IInv, StoreInv, StoreShape
    <3> QED
      BY <1>3, <3>1, <3>2
  <2> QED
    BY <2>1, <2>2, <1>1, <1>3 DEF IInv, StoreInv, StoreShape
<1>7. ActiveLinked'
  <2> SUFFICES ASSUME NEW b \in Assets, active'[b] # NoCase
               PROVE  rows'[active'[b]] # Unopened /\ b \in linked'[active'[b]]
    BY DEF ActiveLinked, Exists
  <2>1. CASE b = a
    BY <2>1, <1>3, <1>4
  <2>2. CASE b # a
    BY <2>2, <1>3, <1>5 DEF IInv, StoreInv, StoreShape, ActiveLinked, Grows, Exists
  <2> QED
    BY <2>1, <2>2
<1>8. PriorityAmong'
  <2> SUFFICES ASSUME NEW d \in CaseIds, rows'[d] # Unopened
               PROVE  Among(rows'[d].priority, rows'[d].findings)
    BY DEF PriorityAmong, Exists, Among
  <2>1. CASE d = c
    BY <2>1, <1>3, <1>4 DEF Among
  <2>2. CASE d # c
    BY <2>2, <1>3 DEF IInv, StoreInv, PriorityAmong, Exists
  <2> QED
    BY <2>1, <2>2
<1>9. AssignedIsMember'
  BY <1>1, <1>5 DEF IInv, StoreInv, StoreShape, AssignedIsMember, Grows, Exists
<1>10. CorrelatedByAsset'
  <2> SUFFICES ASSUME NEW d \in CaseIds, NEW g \in Findings, rows'[d] # Unopened,
                      g \in rows'[d].findings
               PROVE  g \in recorded /\ AssetOf[g] \in linked'[d]
    BY <1>1 DEF CorrelatedByAsset, Exists
  <2>1. CASE d = c
    BY <2>1, <1>2, <1>3, <1>4
  <2>2. CASE d # c
    BY <2>2, <1>3 DEF IInv, StoreInv, CorrelatedByAsset, Exists
  <2> QED
    BY <2>1, <2>2
<1>11. WorkerShape'
  BY <1>1 DEF IInv, WorkerShape, Labels
<1>12. /\ pc'[w] = "loop" /\ target'[w] = c /\ current'[w] = OpenCase({f})
       /\ \A v \in Workers : v # w => SameWorker(v)
  BY <1>1 DEF IInv, WorkerShape, SameWorker
<1>13. HoldsCase(w)'
  BY <1>1, <1>3, <1>4, <1>12 DEF HoldsCase, Exists, Among
<1>14. WorkerOK(w)'
  BY <1>1, <1>2, <1>12, <1>13 DEF WorkerOK
<1> QED
  BY <1>5, <1>6, <1>7, <1>8, <1>9, <1>10, <1>11, <1>12, <1>14, OneWorker DEF StoreInv

\* An open that lost its race, and the second lookup.
LEMMA OpenLostIInv ==
  ASSUME IInv, NEW w \in Workers, OpenLost(w)
  PROVE  IInv'
<1> DEFINE c == FindActive(AssetOf[finding[w]])
<1>1. pc[w] \in {"open", "lost"} /\ UNCHANGED <<store, findings_vars>>
  BY DEF OpenLost
<1>2. finding[w] \in Findings /\ finding[w] \in recorded
  BY <1>1 DEF IInv, WorkerOK
<1>3. CASE GoTo(w, "lost") /\ UNCHANGED <<finding, target, current>>
  <2>1. pc' = [pc EXCEPT ![w] = "lost"] /\ UNCHANGED <<finding, target, current>>
    BY <1>3 DEF GoTo
  <2>2. pc'[w] = "lost" /\ \A v \in Workers : v # w => SameWorker(v)
    BY <2>1 DEF IInv, WorkerShape, SameWorker
  <2>3. WorkerShape'
    BY <2>1 DEF IInv, WorkerShape, Labels
  <2>4. WorkerOK(w)'
    BY <1>1, <1>2, <2>1, <2>2 DEF WorkerOK, Holding, findings_vars
  <2> QED
    BY <1>1, <2>2, <2>3, <2>4, StoreStays, OneWorker
<1>4. CASE Leave(w)
  BY <1>1, <1>4, LeaveIInv
<1>5. CASE /\ c # NoCase /\ See(w, c, rows[c]) /\ UNCHANGED finding
           /\ GoTo(w, IF finding[w] \in rows[c].findings THEN "loop" ELSE "join")
  <2>1. c \in CaseIds /\ rows[c] # Unopened /\ AssetOf[finding[w]] \in linked[c]
    BY <1>2, <1>5, FoundCase
  <2>2. (IF finding[w] \in rows[c].findings THEN "loop" ELSE "join") \in Holding
    BY DEF Holding
  <2> QED
    BY <1>1, <1>2, <1>5, <2>1, <2>2, SeesCase
<1> QED
  BY <1>3, <1>4, <1>5 DEF OpenLost

\* The read of an advance.
LEMMA ReadIInv ==
  ASSUME IInv, NEW w \in Workers, Read(w)
  PROVE  IInv'
<1>1. pc[w] \in {"loop", "join"} /\ UNCHANGED <<store, findings_vars>>
  BY DEF Read
<1>2. CASE Leave(w)
  BY <1>1, <1>2, LeaveIInv
<1>3. CASE /\ GoTo(w, IF pc[w] = "loop" THEN "append" ELSE "append_join")
           /\ UNCHANGED <<finding, target, current>>
  <2>1. pc' = [pc EXCEPT ![w] = IF pc[w] = "loop" THEN "append" ELSE "append_join"]
    BY <1>3 DEF GoTo
  <2>2. /\ pc'[w] \in {"append", "append_join"}
        /\ \A v \in Workers : v # w => SameWorker(v)
    BY <1>3, <2>1 DEF IInv, WorkerShape, SameWorker
  <2>3. WorkerShape'
    BY <1>3, <2>1 DEF IInv, WorkerShape, Labels
  <2>4. rows' = rows /\ linked' = linked /\ recorded' = recorded
    BY <1>1 DEF store, findings_vars
  <2>5. finding[w] \in Findings /\ finding[w] \in recorded /\ HoldsCase(w)
    BY <1>1 DEF IInv, WorkerOK, Holding
  <2>6. HoldsCase(w)'
    BY <1>3, <2>4, <2>5 DEF HoldsCase, Exists, Among
  <2>7. WorkerOK(w)'
    BY <1>3, <2>2, <2>4, <2>5, <2>6 DEF WorkerOK
  <2> QED
    BY <1>1, <2>2, <2>3, <2>7, StoreStays, OneWorker
<1> QED
  BY <1>2, <1>3 DEF Read

\* What a worker asks for adds its finding, or sets a priority of a finding that it has
\* seen on the case, or both are as they were.
LEMMA RequestIs ==
  ASSUME IInv, NEW w \in Workers, pc[w] \in Holding
  PROVE  LET r == RequestNow(w)  row == rows[target[w]] IN
         /\ r.additions \subseteq {finding[w]}
         /\ Among(OrElse(r.priority, row.priority), row.findings \cup r.additions)
<1> DEFINE f == finding[w]
           c == target[w]
           row == rows[c]
           t == Wanted(current[w], f)
           r == RequestNow(w)
<1>1. /\ c \in CaseIds /\ row # Unopened
      /\ current[w].findings \subseteq row.findings
      /\ Among(current[w].priority, row.findings) /\ f \in Findings
  BY DEF IInv, WorkerOK, HoldsCase, Exists, Holding
<1>2. Among(row.priority, row.findings)
  BY <1>1 DEF IInv, StoreInv, PriorityAmong, Exists
<1>3. /\ r.additions = IF t = "add_finding" THEN {f} ELSE {}
      /\ r.priority = IF t \in {"prioritize", "reprioritize"}
                      THEN IF t = "prioritize" THEN Score[f]
                           ELSE MergedScore(current[w].priority, Score[f])
                      ELSE NoId
  BY DEF RequestNow, IngestRequest, Request
<1>4. t \in {"prioritize", "reprioritize"} => f \in current[w].findings
  BY DEF Wanted
<1>5. CASE t \in {"prioritize", "reprioritize"}
  <2>1. f \in row.findings
    BY <1>1, <1>4, <1>5
  <2>2. Among(Score[f], row.findings)
    BY <2>1 DEF Among
  <2>3. Among(r.priority, row.findings)
    BY <1>1, <1>3, <1>5, <2>2 DEF MergedScore
  <2>4. Among(OrElse(r.priority, row.priority), row.findings)
    BY <1>2, <2>3 DEF OrElse
  <2> QED
    BY <1>3, <2>4, AmongMore
<1>6. CASE t \notin {"prioritize", "reprioritize"}
  <2>1. OrElse(r.priority, row.priority) = row.priority
    BY <1>3, <1>6 DEF OrElse
  <2> QED
    BY <1>2, <1>3, <2>1, AmongMore
<1> QED
  BY <1>5, <1>6

\* The append of an advance.
LEMMA AppendIInv ==
  ASSUME IInv, NEW w \in Workers, AppendRead(w)
  PROVE  IInv'
<1> DEFINE f == finding[w]
           c == target[w]
           r == RequestNow(w)
           new == Apply(rows[c], r)
<1>1. /\ pc[w] \in Holding /\ AppendEvent(c, rows[c], r) /\ See(w, c, new)
      /\ GoTo(w, "loop") /\ UNCHANGED <<findings_vars, finding>>
  BY DEF AppendRead, Holding
<1>2. /\ c \in CaseIds /\ f \in recorded /\ f \in Findings
      /\ AssetOf[f] \in linked[c]
  BY <1>1 DEF IInv, WorkerOK, HoldsCase, Holding
<1>3. /\ r.additions \subseteq {f}
      /\ Among(OrElse(r.priority, rows[c].priority), rows[c].findings \cup r.additions)
  BY <1>1, RequestIs
<1>4. r.additions \subseteq {g \in recorded : AssetOf[g] \in linked[c]}
  BY <1>2, <1>3
<1>5. StoreInv' /\ Grows
  <2> HIDE DEF r
  <2> QED
    BY <1>1, <1>2, <1>3, <1>4, AppendStores
<1>6. /\ pc' = [pc EXCEPT ![w] = "loop"] /\ target' = [target EXCEPT ![w] = c]
      /\ current' = [current EXCEPT ![w] = new] /\ finding' = finding
      /\ recorded' = recorded /\ linked' = linked /\ rows' = [rows EXCEPT ![c] = new]
      /\ rows[c] # Unopened
  BY <1>1 DEF GoTo, See, AppendEvent, VersionIs, Exists, findings_vars
<1>7. WorkerShape'
  BY <1>2, <1>6 DEF IInv, WorkerShape, Labels
<1>8. /\ pc'[w] = "loop" /\ target'[w] = c /\ current'[w] = new
      /\ \A v \in Workers : v # w => SameWorker(v)
  BY <1>6 DEF IInv, WorkerShape, SameWorker
<1>9. rows'[c] = new /\ rows'[c] # Unopened
  BY <1>2, <1>5, <1>6 DEF IInv, StoreInv, StoreShape, Grows
<1>10. Among(rows'[c].priority, rows'[c].findings)
  BY <1>2, <1>5, <1>9 DEF StoreInv, PriorityAmong, Exists, Among
<1>11. HoldsCase(w)'
  BY <1>2, <1>6, <1>8, <1>9, <1>10 DEF HoldsCase, Exists, Among
<1>12. WorkerOK(w)'
  BY <1>2, <1>6, <1>8, <1>11 DEF WorkerOK
<1> QED
  BY <1>5, <1>7, <1>8, <1>12, OneWorker

\* A lost append: the case is read again, or ingest raises.
LEMMA AppendLostIInv ==
  ASSUME IInv, NEW w \in Workers, AppendLost(w)
  PROVE  IInv'
<1> DEFINE c == target[w]
<1>1. pc[w] \in {"append", "append_join"} /\ UNCHANGED <<store, findings_vars>>
  BY DEF AppendLost
<1>2. CASE Leave(w)
  BY <1>1, <1>2, LeaveIInv
<1>3. CASE See(w, c, rows[c]) /\ GoTo(w, "loop") /\ UNCHANGED finding
  <2>1. /\ c \in CaseIds /\ rows[c] # Unopened /\ AssetOf[finding[w]] \in linked[c]
        /\ finding[w] \in recorded
    BY <1>1 DEF IInv, WorkerOK, HoldsCase, Holding, Exists
  <2>2. "loop" \in Holding
    BY DEF Holding
  <2> QED
    BY <1>1, <1>3, <2>1, <2>2, SeesCase
<1> QED
  BY <1>2, <1>3 DEF AppendLost

\* The row of the finding is given its case.
LEMMA AssignIInv ==
  ASSUME IInv, NEW w \in Workers, Assign(w)
  PROVE  IInv'
<1> DEFINE f == finding[w]
           c == target[w]
<1>1. /\ pc[w] = "loop" /\ Wanted(current[w], f) = "none" /\ Leave(w)
      /\ assigned' = IF Assignable(f, c) THEN [assigned EXCEPT ![f] = c] ELSE assigned
      /\ rows' = rows /\ linked' = linked /\ active' = active /\ recorded' = recorded
  BY DEF Assign, store
<1>2. /\ f \in Findings /\ f \in recorded /\ c \in CaseIds /\ rows[c] # Unopened
      /\ current[w].findings \subseteq rows[c].findings
  BY <1>1 DEF IInv, WorkerOK, HoldsCase, Holding, Exists
<1>3. f \in rows[c].findings
  BY <1>1, <1>2 DEF Wanted
<1>4. /\ assigned' \in [Findings -> CaseIds \cup {NoCase}]
      /\ \A g \in Findings : assigned'[g] = assigned[g] \/ (g = f /\ assigned'[g] = c)
  BY <1>1, <1>2 DEF IInv, StoreInv, StoreShape
<1>5. StoreShape' /\ ActiveLinked' /\ CorrelatedByAsset'
  BY <1>1, <1>4 DEF IInv, StoreInv, StoreShape, ActiveLinked, CorrelatedByAsset, Exists
<1>6. PriorityAmong'
  BY <1>1 DEF IInv, StoreInv, PriorityAmong, Among, Exists
<1>7. AssignedIsMember'
  BY <1>1, <1>2, <1>3, <1>4 DEF IInv, StoreInv, AssignedIsMember, Exists
<1>8. Grows
  BY <1>1 DEF Grows
<1> QED
  BY <1>1, <1>5, <1>6, <1>7, <1>8, LeaveIs, OneWorker DEF StoreInv

\* A transition of case validation, which adds no finding and sets no priority.
LEMMA ValidationIInv ==
  ASSUME IInv, NEW c \in CaseIds, NEW t \in {"validate", "close_no_action"},
         Validation(c, t)
  PROVE  IInv'
<1> DEFINE r == RequestOf(rows[c], t, {"validation_result_id"}, {})
<1>1. /\ AppendEvent(c, rows[c], r) /\ UNCHANGED <<findings_vars, worker_vars>>
      /\ rows[c] # Unopened
  BY DEF Validation, Exists
<1>2. r.additions = {} /\ r.priority = NoId
  BY DEF RequestOf, Request
<1>3. Among(OrElse(r.priority, rows[c].priority), rows[c].findings \cup r.additions)
  <2>1. Among(rows[c].priority, rows[c].findings)
    BY <1>1 DEF IInv, StoreInv, PriorityAmong, Exists
  <2>2. OrElse(r.priority, rows[c].priority) = rows[c].priority
    BY <1>2 DEF OrElse
  <2> QED
    BY <1>2, <2>1, <2>2, AmongMore
<1>4. StoreInv' /\ Grows
  <2> HIDE DEF r
  <2> QED
    BY <1>1, <1>2, <1>3, AppendStores
<1>5. WorkerShape' /\ \A v \in Workers : SameWorker(v)
  BY <1>1 DEF worker_vars, IInv, WorkerShape, SameWorker
<1> QED
  BY <1>4, <1>5, WorkerStays DEF IInv

\* Every step preserves the invariant, action by action.
LEMMA NextIInv == IInv /\ [Next]_vars => IInv'
<1> SUFFICES ASSUME IInv, [Next]_vars PROVE IInv'
  OBVIOUS
<1>1. CASE Next
  <2>1. CASE \E w \in Workers, f \in Findings : Submit(w, f)
    BY <2>1, SubmitIInv
  <2>2. ASSUME NEW w \in Workers, Step(w) PROVE IInv'
    BY <2>2, PutIInv, LookupIInv, OpenIInv, OpenLostIInv, ReadIInv, AppendIInv,
       AppendLostIInv, AssignIInv DEF Step
  <2>3. ASSUME NEW w \in Workers, Crash(w) PROVE IInv'
    BY <2>3, LeaveIInv DEF Crash
  <2>4. ASSUME NEW c \in CaseIds, NEW t \in {"validate", "close_no_action"},
               Validation(c, t)
        PROVE  IInv'
    BY <2>4, ValidationIInv
  <2> QED
    BY <1>1, <2>1, <2>2, <2>3, <2>4 DEF Next
<1>2. CASE UNCHANGED vars
  <2>1. /\ UNCHANGED <<store, findings_vars>> /\ WorkerShape'
        /\ \A v \in Workers : SameWorker(v)
    BY <1>2 DEF vars, worker_vars, IInv, WorkerShape, SameWorker
  <2> QED
    BY <2>1, StoreStays, WorkerStays DEF IInv
<1> QED
  BY <1>1, <1>2

\* The invariant holds in every reachable state of the two stores and the workers.
THEOREM Invariance == Spec => []IInv
  BY InitIInv, NextIInv, PTL DEF Spec

\* The finding store and the case store agree (assign_case, workflow.advance): whoever
\* died or lost a race, a finding that has a case was recorded and is one of its findings.
THEOREM AssignedMembers == Spec => []AssignedIsMember
<1>1. IInv => AssignedIsMember
  BY DEF IInv, StoreInv
<1> QED
  BY <1>1, Invariance, PTL

\* Correlation (find_active_by_asset): every finding of a case is recorded and of an
\* asset of the case, however stale the case was when the finding was attached.
THEOREM Correlated == Spec => []CorrelatedByAsset
<1>1. IInv => CorrelatedByAsset
  BY DEF IInv, StoreInv
<1> QED
  BY <1>1, Invariance, PTL

\* _merge_priority: the priority of a case is the score of one of its findings, also when
\* it was merged from a projection that another worker had already replaced.
THEOREM Priorities == Spec => []PriorityOfAFinding
<1>1. IInv => PriorityOfAFinding
  BY PriorityIs DEF IInv, StoreInv
<1> QED
  BY <1>1, Invariance, PTL

\* assign_case never moves a finding from one case to another.
THEOREM AssignmentsStay == Spec => AssignmentIsFinal
<1> DEFINE A == \A f \in Findings : assigned[f] # NoCase => assigned'[f] = assigned[f]
<1>1. IInv /\ [Next]_vars => [A]_assigned
  <2> SUFFICES ASSUME IInv, [Next]_vars, assigned' # assigned PROVE A
    OBVIOUS
  <2>1. PICK w \in Workers : Assign(w)
    BY DEF vars, findings_vars, Next, Step, Submit, PutFinding, Lookup, OpenNew, OpenLost,
           Read, AppendRead, AppendLost, Crash, Validation
  <2>2. /\ Assignable(finding[w], target[w])
        /\ assigned' = [assigned EXCEPT ![finding[w]] = target[w]]
    BY <2>1 DEF Assign
  <2> QED
    BY <2>2 DEF Assignable, IInv, StoreInv, StoreShape
<1> QED
  BY <1>1, Invariance, PTL DEF Spec, AssignmentIsFinal
------------------------------------------------------------------------------
(***************************************************************************)
(* The tables of the case store under ingest.  What CoordinatorsProofs     *)
(* shows of create and append, whoever calls them, holds here once every   *)
(* append is of a permitted request: the request of a worker was permitted *)
(* on the version it has read (Reading), and its append asks for that      *)
(* version.                                                                *)
(***************************************************************************)
Kept == INSTANCE CoordinatorsProofs
        WITH Writers <- {}, Issued <- {}, MaxVersion <- 0,
             reading <- [w \in {} |-> NoCase], read <- [w \in {} |-> Unopened]

Tables == StoreTypeOK /\ Kept!LogsTyped /\ ActiveIndexExact /\ LogReplaysToRow

Appending == {"append", "append_join"}

\* What a worker has seen is a case; between its read and its append the version has
\* moved on, or what it asks for is permitted.
SeenOK(w) ==
  /\ pc[w] \in Holding => current[w] \in Case
  /\ pc[w] \in Appending =>
       /\ Wanted(current[w], finding[w]) # "none"
       /\ got[w] <= rows[target[w]].version
       /\ got[w] = rows[target[w]].version => Permits(rows[target[w]], RequestNow(w))

Counters == got \in [Workers -> Nat] /\ attempt \in [Workers -> 0..2]

TInv == IInv /\ Tables /\ Counters /\ \A w \in Workers : SeenOK(w)

\* A step leaves a case as it was, opens it or appends to it.
Moves ==
  \A c \in CaseIds : rows'[c] = rows[c] \/ rows[c] = Unopened
                       \/ rows'[c].version > rows[c].version

\* The instance repeats the definitions of Cases; each is the one the store uses.
LEMMA SameCases ==
  /\ Kept!Transitions = Transitions /\ Kept!Case = Case /\ Kept!Unopened = Unopened
  /\ \A c, r : (Kept!Permits(c, r) <=> Permits(c, r)) /\ Kept!Apply(c, r) = Apply(c, r)
  /\ \A c, r : Kept!EventOf(c, r) = EventOf(c, r)
  /\ \A fs : Kept!OpenCase(fs) = OpenCase(fs)
  /\ \A c : Kept!IsTerminal(c) <=> IsTerminal(c)
<1>1. Kept!Transitions = Transitions
  BY DEF Kept!Transitions, Transitions, Kept!Target, Target
<1>2. Kept!Case = Case
  BY DEF Kept!Case, Case, Kept!CaseStates, CaseStates, Kept!ActiveStates, ActiveStates,
         Kept!ReopenStates, ReopenStates, Kept!TerminalStates, TerminalStates, Kept!NoState,
         NoState, Kept!RecordNames, RecordNames
<1>3. \A c, r : Kept!Permits(c, r) <=> Permits(c, r)
  BY DEF Kept!Permits, Permits, Kept!Sources, Sources, Kept!ActiveStates, ActiveStates,
         Kept!ReopenStates, ReopenStates, Kept!RequiredRecord, RequiredRecord, Kept!NoId,
         NoId, Kept!NoState, NoState
<1>4. \A c, r : /\ Kept!StateAfter(c, r.transition) = StateAfter(c, r.transition)
                /\ Kept!Apply(c, r) = Apply(c, r)
  BY DEF Kept!Apply, Apply, Kept!StateAfter, StateAfter, Kept!BlockedFromAfter,
         BlockedFromAfter, Kept!Reopens, Reopens, Kept!ReopenStates, ReopenStates,
         Kept!Target, Target, Kept!PlanAfter, PlanAfter, Kept!WindowAfter, WindowAfter,
         Kept!OrElse, OrElse, Kept!RecordsAfter, RecordsAfter, Kept!RecordNames,
         RecordNames, Kept!Withdrawn, Withdrawn, Kept!NoId, NoId, Kept!NoState, NoState
<1>5. \A c, r : Kept!EventOf(c, r) = EventOf(c, r)
  BY <1>4 DEF Kept!EventOf, EventOf
<1>6. \A fs : Kept!OpenCase(fs) = OpenCase(fs)
  BY DEF Kept!OpenCase, OpenCase, Kept!NoId, NoId, Kept!NoState, NoState, Kept!NoRecords,
         NoRecords, Kept!RecordNames, RecordNames
<1>7. Kept!Unopened = Unopened
  BY <1>6 DEF Kept!Unopened, Unopened
<1>8. \A c : Kept!IsTerminal(c) <=> IsTerminal(c)
  BY DEF Kept!IsTerminal, IsTerminal, Kept!TerminalStates, TerminalStates
<1> QED
  BY <1>1, <1>2, <1>3, <1>4, <1>5, <1>6, <1>7, <1>8

\* So are its tables and the operations on them, and its assumptions hold.
LEMMA SameStore ==
  /\ Kept!NoCaseAssumption /\ Kept!IssuedAssumption
  /\ Kept!StoreInv <=> Tables
  /\ Kept!StoreInv' <=> Tables'
  /\ \A c, fs, as : Kept!CreateCase(c, fs, as) <=> CreateCase(c, fs, as)
  /\ \A c, row, r : Kept!AppendEvent(c, row, r) <=> AppendEvent(c, row, r)
<1>1. Kept!NoCaseAssumption /\ Kept!IssuedAssumption
  BY DEF Kept!NoCaseAssumption, Kept!IssuedAssumption
<1>2. \A c : Kept!Exists(c) <=> Exists(c)
  BY SameCases DEF Kept!Exists, Exists
<1>3. Kept!StoreTypeOK <=> StoreTypeOK
  BY SameCases DEF Kept!StoreTypeOK, StoreTypeOK
<1>4. Kept!ActiveIndexExact <=> ActiveIndexExact
  BY <1>2, SameCases DEF Kept!ActiveIndexExact, ActiveIndexExact
<1>5. Kept!LogReplaysToRow <=> LogReplaysToRow
  BY <1>2 DEF Kept!LogReplaysToRow, LogReplaysToRow
<1>6. Kept!StoreInv <=> Tables
  BY <1>3, <1>4, <1>5 DEF Kept!StoreInv, Tables
<1>7. \A c : Kept!Exists(c)' <=> Exists(c)'
  BY SameCases DEF Kept!Exists, Exists
<1>8. Kept!StoreTypeOK' <=> StoreTypeOK'
  BY SameCases DEF Kept!StoreTypeOK, StoreTypeOK
<1>9. Kept!ActiveIndexExact' <=> ActiveIndexExact'
  BY <1>7, SameCases DEF Kept!ActiveIndexExact, ActiveIndexExact, Kept!IsTerminal,
                         IsTerminal, Kept!TerminalStates, TerminalStates
<1>10. Kept!LogReplaysToRow' <=> LogReplaysToRow'
  BY <1>7 DEF Kept!LogReplaysToRow, LogReplaysToRow
<1>11. Kept!StoreInv' <=> Tables'
  BY <1>8, <1>9, <1>10 DEF Kept!StoreInv, Tables
<1>12. \A c, fs, as : Kept!CreateCase(c, fs, as) <=> CreateCase(c, fs, as)
  BY <1>2, SameCases DEF Kept!CreateCase, CreateCase, Kept!CanCreate, CanCreate,
                         Kept!AssetFree, AssetFree
<1>13. \A c, row : Kept!ActiveAfter(c, row) = ActiveAfter(c, row)
  BY SameCases DEF Kept!ActiveAfter, ActiveAfter
<1>14. \A c, v : Kept!VersionIs(c, v) <=> VersionIs(c, v)
  BY <1>2 DEF Kept!VersionIs, VersionIs
<1>15. \A c, row, r : Kept!AppendEvent(c, row, r) <=> AppendEvent(c, row, r)
  BY <1>13, <1>14, SameCases DEF Kept!AppendEvent, AppendEvent
<1> QED
  BY <1>1, <1>6, <1>11, <1>12, <1>15

\* What a permitted request makes of a row (ApplyIsCase), of this store.
LEMMA Applied ==
  ASSUME NEW c \in Case, NEW r, r.transition \in Transitions,
         r.additions \in SUBSET Findings,
         \A n \in DOMAIN r.records : r.records[n] \in Nat,
         r.priority \in Nat, r.change_plan \in Nat, r.change_window \in Nat, Permits(c, r)
  PROVE  /\ Kept!IsRequest(r) /\ ~IsTerminal(c) /\ Apply(c, r) \in Case
         /\ Apply(c, r).version = c.version + 1
<1>1. Kept!IsRequest(r)
  BY SameCases DEF Kept!IsRequest
<1>2. c \in Kept!Case /\ Kept!Permits(c, r)
  BY SameCases
<1>3. /\ ~Kept!IsTerminal(c) /\ Kept!Apply(c, r) \in Kept!Case
      /\ Kept!Apply(c, r).version = c.version + 1
  BY <1>1, <1>2, SameStore, Kept!ApplyIsCase
<1> QED
  BY <1>1, <1>3, SameCases

\* A row that is no case has version 0.
LEMMA UnopenedShape == Unopened.version = 0 /\ Unopened \notin Case
<1>1. Unopened.version = 0
  BY NewCase
<1>2. Unopened \notin Case
  BY SameStore, SameCases, Kept!UnopenedIsNoCase
<1> QED
  BY <1>1, <1>2

\* What a worker asks for is a request, whatever it has seen.
LEMMA AskedTyped ==
  ASSUME TInv, NEW w \in Workers, pc[w] \in Holding,
         Wanted(current[w], finding[w]) # "none"
  PROVE  LET r == RequestNow(w) IN
         /\ r.transition \in Transitions /\ r.additions \in SUBSET Findings
         /\ \A n \in DOMAIN r.records : r.records[n] \in Nat
         /\ r.priority \in Nat /\ r.change_plan \in Nat /\ r.change_window \in Nat
<1> DEFINE f == finding[w]
           t == Wanted(current[w], f)
           r == RequestNow(w)
           new == rows[target[w]].version + 1
<1>1. /\ f \in Findings /\ current[w] \in Case /\ target[w] \in CaseIds
      /\ t \in {"add_finding", "prioritize", "reprioritize"}
  BY DEF TInv, IInv, WorkerOK, HoldsCase, SeenOK, Holding, Wanted
<1>2. new \in Nat /\ current[w].priority \in Nat /\ Score[f] \in Nat
  BY <1>1 DEF TInv, IInv, StoreInv, StoreShape, Case
<1>3. MergedScore(current[w].priority, Score[f]) \in Nat
  BY <1>2 DEF MergedScore
<1>4. /\ r.transition = t /\ r.additions = IF t = "add_finding" THEN {f} ELSE {}
      /\ DOMAIN r.records = {RequiredRecord[t]} /\ \A n \in DOMAIN r.records : r.records[n] = new
      /\ r.priority \in {Score[f], MergedScore(current[w].priority, Score[f]), NoId}
      /\ r.change_plan = NoId /\ r.change_window = NoId
  BY <1>1 DEF RequestNow, IngestRequest, Request
<1>5. t \in Transitions
  BY <1>1 DEF Transitions, Target
<1> QED
  BY <1>1, <1>2, <1>3, <1>4, <1>5 DEF NoId

\* What a worker has read stays readable as it was, or the version has moved on.
LEMMA ReaderStays ==
  ASSUME TInv, NEW v \in Workers, SameWorker(v), got'[v] = got[v], Moves, Tables'
  PROVE  SeenOK(v)'
<1>1. pc[v] \in Holding => current[v] \in Case
  BY DEF TInv, SeenOK
<1>2. ASSUME pc[v] \in Appending
      PROVE  /\ Wanted(current[v], finding[v]) # "none"
             /\ got[v] <= rows'[target[v]].version
             /\ got[v] = rows'[target[v]].version =>
                  Permits(rows'[target[v]], RequestNow(v)')
  <2> DEFINE c == target[v]
  <2>1. /\ Wanted(current[v], finding[v]) # "none"
        /\ got[v] <= rows[c].version
        /\ got[v] = rows[c].version => Permits(rows[c], RequestNow(v))
    BY <1>2 DEF TInv, SeenOK
  <2>2. c \in CaseIds /\ rows[c] # Unopened
    BY <1>2 DEF TInv, IInv, WorkerOK, HoldsCase, Holding, Appending, Exists
  <2>3. got[v] \in Nat /\ rows[c].version \in Nat
    BY <2>2 DEF TInv, Counters, IInv, StoreInv, StoreShape
  <2>4. CASE rows'[c] = rows[c]
    <3>1. RequestNow(v)' = RequestNow(v)
      BY <2>4 DEF RequestNow, SameWorker
    <3> QED
      BY <2>1, <2>4, <3>1
  <2>5. CASE rows'[c].version > rows[c].version
    <3>1. rows'[c].version \in Nat
      BY <2>2, <2>5, UnopenedShape DEF Tables, StoreTypeOK, Case
    <3> QED
      BY <2>1, <2>3, <2>5, <3>1
  <2> QED
    BY <2>2, <2>4, <2>5 DEF Moves
<1> QED
  BY <1>1, <1>2 DEF SeenOK, SameWorker, Appending

\* A step of one worker.
LEMMA OneReader ==
  ASSUME TInv, IInv', NEW w \in Workers, Tables', Counters', Moves, SeenOK(w)',
         \A v \in Workers : v # w => SameWorker(v) /\ got'[v] = got[v]
  PROVE  TInv'
<1>1. \A v \in Workers : SeenOK(v)'
  BY ReaderStays
<1> QED
  BY <1>1 DEF TInv

\* A step that does not write the case store.
LEMMA TablesStay ==
  ASSUME TInv, UNCHANGED store
  PROVE  Tables' /\ Moves
<1>1. rows' = rows /\ linked' = linked /\ active' = active /\ log' = log
  BY DEF store
<1>2. StoreTypeOK' /\ ActiveIndexExact' /\ LogReplaysToRow'
  BY <1>1 DEF TInv, Tables, StoreTypeOK, ActiveIndexExact, LogReplaysToRow, Exists
<1>3. Kept!LogsTyped'
  BY <1>1 DEF TInv, Tables, Kept!LogsTyped
<1> QED
  BY <1>1, <1>2, <1>3 DEF Tables, Moves

\* A worker that leaves, or goes to a call that holds no case.
LEMMA HoldsNothing ==
  ASSUME TInv, IInv', NEW w \in Workers, UNCHANGED store, Counters', pc'[w] \notin Holding,
         \A v \in Workers : v # w => SameWorker(v) /\ got'[v] = got[v]
  PROVE  TInv'
<1>1. SeenOK(w)'
  BY DEF SeenOK, Holding, Appending
<1> QED
  BY <1>1, TablesStay, OneReader

\* ingest returns or raises.
LEMMA LeaveTInv ==
  ASSUME TInv, IInv', NEW w \in Workers, UNCHANGED store, Leave(w)
  PROVE  TInv'
<1>1. /\ pc' = [pc EXCEPT ![w] = "idle"] /\ got' = [got EXCEPT ![w] = 0]
      /\ attempt' = [attempt EXCEPT ![w] = 0]
  BY DEF Leave, GoTo
<1>2. Counters'
  BY <1>1 DEF TInv, Counters
<1>3. pc'[w] \notin Holding /\ \A v \in Workers : v # w => got'[v] = got[v]
  BY <1>1 DEF TInv, Counters, IInv, WorkerShape, Holding
<1>4. \A v \in Workers : v # w => SameWorker(v)
  BY LeaveIs DEF TInv
<1> QED
  BY <1>2, <1>3, <1>4, HoldsNothing

\* A worker that sees the row of an existing case, with its request still to be made.
LEMMA SeesRow ==
  ASSUME TInv, IInv', NEW w \in Workers, NEW c \in CaseIds, rows[c] # Unopened,
         NEW l \in {"loop", "join"}, UNCHANGED <<store, finding>>, GoTo(w, l),
         See(w, c, rows[c]), Counters',
         \A v \in Workers : v # w => got'[v] = got[v]
  PROVE  TInv'
<1>1. /\ pc' = [pc EXCEPT ![w] = l] /\ target' = [target EXCEPT ![w] = c]
      /\ current' = [current EXCEPT ![w] = rows[c]]
  BY DEF GoTo, See
<1>2. /\ pc'[w] = l /\ current'[w] = rows[c] /\ rows[c] \in Case
      /\ \A v \in Workers : v # w => SameWorker(v)
  BY <1>1 DEF TInv, Tables, StoreTypeOK, IInv, WorkerShape, SameWorker
<1>3. SeenOK(w)'
  BY <1>2 DEF SeenOK, Appending
<1> QED
  BY <1>2, <1>3, TablesStay, OneReader

\* The invariant holds of the empty stores.
LEMMA InitTInv == Init => TInv
<1> SUFFICES ASSUME Init PROVE TInv
  OBVIOUS
<1>1. /\ rows = [c \in CaseIds |-> Unopened] /\ linked = [c \in CaseIds |-> {}]
      /\ active = [a \in Assets |-> NoCase] /\ log = [c \in CaseIds |-> <<>>]
      /\ pc = [w \in Workers |-> "idle"] /\ got = [w \in Workers |-> 0]
      /\ attempt = [w \in Workers |-> 0]
  BY DEF Init, StoreInit
<1>2. StoreTypeOK /\ ActiveIndexExact
  BY <1>1 DEF StoreTypeOK, ActiveIndexExact, Exists
<1>3. LogReplaysToRow
  BY <1>1, UnopenedShape DEF LogReplaysToRow, Exists
<1>4. Kept!LogsTyped
  BY <1>1 DEF Kept!LogsTyped
<1>5. Counters /\ \A w \in Workers : SeenOK(w)
  BY <1>1 DEF Counters, SeenOK, Holding, Appending
<1> QED
  BY <1>2, <1>3, <1>4, <1>5, InitIInv DEF TInv, Tables

\* Submit, PutFinding and Lookup: the calls before a worker has a case, and the first look
\* at the case of the asset.
LEMMA StartTInv ==
  ASSUME TInv, IInv', NEW w \in Workers,
         PutFinding(w) \/ Lookup(w) \/ \E f \in Findings : Submit(w, f)
  PROVE  TInv'
<1>1. UNCHANGED store /\ got' = got /\ attempt' = attempt /\ Counters'
  BY DEF PutFinding, Lookup, Submit, TInv, Counters
<1>2. CASE PutFinding(w) \/ \E f \in Findings : Submit(w, f)
  <2>1. PICK l \in {"put", "lookup"} : pc' = [pc EXCEPT ![w] = l]
    BY <1>2 DEF PutFinding, Submit, GoTo
  <2>2. \/ finding' = finding
        \/ \E f \in Findings : finding' = [finding EXCEPT ![w] = f]
    BY <1>2 DEF PutFinding, Submit
  <2>3. target' = target /\ current' = current
    BY <1>2 DEF PutFinding, Submit
  <2>4. pc'[w] \notin Holding /\ \A v \in Workers : v # w => SameWorker(v)
    BY <2>1, <2>2, <2>3 DEF TInv, IInv, WorkerShape, SameWorker, Holding
  <2> QED
    BY <1>1, <2>4, HoldsNothing
<1>3. CASE Lookup(w)
  <2> DEFINE c == FindActive(AssetOf[finding[w]])
  <2>1. /\ pc[w] = "lookup" /\ UNCHANGED <<store, finding>>
        /\ IF c = NoCase THEN GoTo(w, "open") /\ UNCHANGED <<target, current>>
                         ELSE GoTo(w, "loop") /\ See(w, c, rows[c])
    BY <1>3 DEF Lookup
  <2>2. CASE c = NoCase
    <3>1. pc' = [pc EXCEPT ![w] = "open"] /\ UNCHANGED <<finding, target, current>>
      BY <2>1, <2>2 DEF GoTo
    <3>2. pc'[w] \notin Holding /\ \A v \in Workers : v # w => SameWorker(v)
      BY <3>1 DEF TInv, IInv, WorkerShape, SameWorker, Holding
    <3> QED
      BY <1>1, <3>2, HoldsNothing
  <2>3. CASE c # NoCase
    <3>1. finding[w] \in Findings
      BY <2>1 DEF TInv, IInv, WorkerOK
    <3>2. c \in CaseIds /\ rows[c] # Unopened
      BY <2>3, <3>1, FoundCase DEF TInv
    <3> HIDE DEF c
    <3> QED
      BY <1>1, <2>1, <2>3, <3>2, SeesRow
  <2> QED
    BY <2>2, <2>3
<1> QED
  BY <1>2, <1>3

\* A new case for the finding: CreateStoreInv of CoordinatorsProofs.
LEMMA OpenTInv ==
  ASSUME TInv, IInv', NEW w \in Workers, NEW c \in CaseIds, OpenNew(w, c)
  PROVE  TInv'
<1> DEFINE f == finding[w]
<1>1. /\ pc[w] = "open" /\ CreateCase(c, {f}, {AssetOf[f]})
      /\ See(w, c, OpenCase({f})) /\ GoTo(w, "loop")
      /\ finding' = finding /\ got' = got /\ attempt' = attempt
  BY DEF OpenNew
<1>2. f \in Findings /\ AssetOf[f] \in Assets
  BY <1>1 DEF TInv, IInv, WorkerOK
<1>3. Tables'
  <2>1. Kept!StoreInv /\ Kept!CreateCase(c, {f}, {AssetOf[f]})
    BY <1>1, SameStore DEF TInv
  <2>2. Kept!StoreInv'
    BY <1>2, <2>1, SameStore, Kept!CreateStoreInv
  <2> QED
    BY <2>2, SameStore
<1>4. /\ rows' = [rows EXCEPT ![c] = OpenCase({f})] /\ rows[c] = Unopened
      /\ pc' = [pc EXCEPT ![w] = "loop"] /\ target' = [target EXCEPT ![w] = c]
      /\ current' = [current EXCEPT ![w] = OpenCase({f})]
  BY <1>1 DEF CreateCase, CanCreate, Exists, See, GoTo
<1>5. Moves
  BY <1>4 DEF Moves, TInv, Tables, StoreTypeOK
<1>6. OpenCase({f}) \in Case
  <2>1. rows'[c] = OpenCase({f}) /\ OpenCase({f}) # Unopened
    BY <1>2, <1>4, NewCase DEF TInv, Tables, StoreTypeOK
  <2> QED
    BY <1>3, <2>1 DEF Tables, StoreTypeOK
<1>7. /\ pc'[w] = "loop" /\ current'[w] = OpenCase({f})
      /\ \A v \in Workers : v # w => SameWorker(v)
  BY <1>1, <1>4 DEF TInv, IInv, WorkerShape, SameWorker
<1>8. SeenOK(w)' /\ Counters'
  BY <1>1, <1>6, <1>7 DEF SeenOK, Appending, TInv, Counters
<1> QED
  BY <1>1, <1>3, <1>5, <1>7, <1>8, OneReader

\* An open that lost its race, and the second look at the case of the asset.
LEMMA OpenLostTInv ==
  ASSUME TInv, IInv', NEW w \in Workers, OpenLost(w)
  PROVE  TInv'
<1> DEFINE c == FindActive(AssetOf[finding[w]])
<1>1. pc[w] \in {"open", "lost"} /\ UNCHANGED store
  BY DEF OpenLost
<1>2. finding[w] \in Findings
  BY <1>1 DEF TInv, IInv, WorkerOK
<1>3. CASE GoTo(w, "lost") /\ UNCHANGED <<finding, target, current, got, attempt>>
  <2>1. pc' = [pc EXCEPT ![w] = "lost"] /\ UNCHANGED <<finding, target, current>>
    BY <1>3 DEF GoTo
  <2>2. pc'[w] \notin Holding /\ \A v \in Workers : v # w => SameWorker(v)
    BY <2>1 DEF TInv, IInv, WorkerShape, SameWorker, Holding
  <2> QED
    BY <1>1, <1>3, <2>2, HoldsNothing DEF TInv, Counters
<1>4. CASE Leave(w)
  BY <1>1, <1>4, LeaveTInv
<1>5. CASE /\ c # NoCase /\ See(w, c, rows[c]) /\ UNCHANGED <<finding, got, attempt>>
           /\ GoTo(w, IF finding[w] \in rows[c].findings THEN "loop" ELSE "join")
  <2>1. c \in CaseIds /\ rows[c] # Unopened
    BY <1>2, <1>5, FoundCase DEF TInv
  <2>2. PICK l \in {"loop", "join"} : GoTo(w, l)
    BY <1>5
  <2>3. Counters'
    BY <1>5 DEF TInv, Counters
  <2> HIDE DEF c
  <2> QED
    BY <1>1, <1>5, <2>1, <2>2, <2>3, SeesRow
<1> QED
  BY <1>3, <1>4, <1>5 DEF OpenLost

\* The read of an advance: the request was permitted on the version that is kept.
LEMMA ReadTInv ==
  ASSUME TInv, IInv', NEW w \in Workers, Read(w)
  PROVE  TInv'
<1> DEFINE row == rows[target[w]]
<1>1. /\ pc[w] \in {"loop", "join"} /\ UNCHANGED store
      /\ Wanted(current[w], finding[w]) # "none"
  BY DEF Read
<1>2. CASE Leave(w)
  BY <1>1, <1>2, LeaveTInv
<1>3. CASE /\ Permits(row, RequestNow(w)) /\ got' = [got EXCEPT ![w] = row.version]
           /\ GoTo(w, IF pc[w] = "loop" THEN "append" ELSE "append_join")
           /\ UNCHANGED <<finding, target, current, attempt>>
  <2>1. PICK l \in Appending : pc' = [pc EXCEPT ![w] = l]
    BY <1>3 DEF GoTo, Appending
  <2>2. /\ pc'[w] = l /\ \A v \in Workers : v # w => SameWorker(v)
    BY <1>3, <2>1 DEF TInv, IInv, WorkerShape, SameWorker
  <2>3. target[w] \in CaseIds /\ row.version \in Nat /\ current[w] \in Case
    BY <1>1 DEF TInv, IInv, WorkerOK, HoldsCase, StoreInv, StoreShape, Holding, SeenOK
  <2>4. /\ Counters' /\ got'[w] = row.version
        /\ \A v \in Workers : v # w => got'[v] = got[v]
    BY <1>3, <2>3 DEF TInv, Counters
  <2>5. rows' = rows /\ RequestNow(w)' = RequestNow(w)
    BY <1>1, <1>3 DEF store, RequestNow
  <2>6. SeenOK(w)'
    BY <1>1, <1>3, <2>2, <2>3, <2>4, <2>5 DEF SeenOK
  <2> QED
    BY <1>1, <2>2, <2>4, <2>6, TablesStay, OneReader
<1> QED
  BY <1>2, <1>3 DEF Read

\* The append of a permitted request, whoever makes it: AppendStoreInv of
\* CoordinatorsProofs.
LEMMA AppendedTables ==
  ASSUME TInv, NEW c \in CaseIds, rows[c] # Unopened, NEW r,
         r.transition \in Transitions, r.additions \in SUBSET Findings,
         \A n \in DOMAIN r.records : r.records[n] \in Nat,
         r.priority \in Nat, r.change_plan \in Nat, r.change_window \in Nat,
         Permits(rows[c], r), AppendEvent(c, rows[c], r)
  PROVE  /\ Tables' /\ Moves /\ ~IsTerminal(rows[c]) /\ Apply(rows[c], r) \in Case
         /\ \A d \in CaseIds : d # c => rows'[d] = rows[d] /\ log'[d] = log[d]
<1>1. rows[c] \in Case
  BY DEF TInv, Tables, StoreTypeOK
<1>2. /\ Kept!IsRequest(r) /\ ~IsTerminal(rows[c]) /\ Apply(rows[c], r) \in Case
      /\ Apply(rows[c], r).version = rows[c].version + 1
  BY <1>1, Applied
<1>3. Kept!StoreInv'
  <2>1. /\ Kept!StoreInv /\ rows[c] \in Kept!Case /\ Kept!Permits(rows[c], r)
        /\ Kept!AppendEvent(c, rows[c], r)
    BY <1>1, SameCases, SameStore DEF TInv
  <2> QED
    BY <1>2, <2>1, SameStore, Kept!AppendStoreInv
<1>4. Tables'
  BY <1>3, SameStore
<1>5. /\ rows' = [rows EXCEPT ![c] = Apply(rows[c], r)]
      /\ log' = [log EXCEPT ![c] = Append(@, EventOf(rows[c], r))]
  BY DEF AppendEvent
<1>6. \A d \in CaseIds : d # c => rows'[d] = rows[d] /\ log'[d] = log[d]
  BY <1>5 DEF TInv, Tables, StoreTypeOK, Kept!LogsTyped
<1>7. rows'[c].version = rows[c].version + 1 /\ rows[c].version \in Nat
  BY <1>1, <1>2, <1>5 DEF TInv, Tables, StoreTypeOK, Case
<1>8. Moves
  BY <1>6, <1>7 DEF Moves
<1> QED
  BY <1>2, <1>4, <1>6, <1>8

\* The append of an advance is of what was permitted on the row it is appended to.
LEMMA AppendReads ==
  ASSUME TInv, NEW w \in Workers, AppendRead(w)
  PROVE  LET c == target[w]  r == RequestNow(w) IN
         /\ c \in CaseIds /\ AppendEvent(c, rows[c], r)
         /\ Tables' /\ Moves /\ ~IsTerminal(rows[c]) /\ Apply(rows[c], r) \in Case
         /\ \A d \in CaseIds : d # c => rows'[d] = rows[d] /\ log'[d] = log[d]
<1> DEFINE c == target[w]
<1>1. /\ pc[w] \in Appending /\ pc[w] \in Holding /\ VersionIs(c, got[w])
      /\ AppendEvent(c, rows[c], RequestNow(w))
  BY DEF AppendRead, Appending, Holding
<1>2. c \in CaseIds /\ rows[c] # Unopened /\ Wanted(current[w], finding[w]) # "none"
  BY <1>1 DEF TInv, IInv, WorkerOK, HoldsCase, Exists, SeenOK
<1>3. Permits(rows[c], RequestNow(w))
  BY <1>1 DEF TInv, SeenOK, VersionIs
<1>4. PICK r : r = RequestNow(w)
  OBVIOUS
<1>5. /\ r.transition \in Transitions /\ r.additions \in SUBSET Findings
      /\ \A n \in DOMAIN r.records : r.records[n] \in Nat
      /\ r.priority \in Nat /\ r.change_plan \in Nat /\ r.change_window \in Nat
  BY <1>1, <1>2, <1>4, AskedTyped
<1>6. /\ Tables' /\ Moves /\ ~IsTerminal(rows[c]) /\ Apply(rows[c], r) \in Case
      /\ \A d \in CaseIds : d # c => rows'[d] = rows[d] /\ log'[d] = log[d]
  BY <1>1, <1>2, <1>3, <1>4, <1>5, AppendedTables
<1> QED
  BY <1>1, <1>2, <1>4, <1>6

\* The append of an advance.
LEMMA AppendTInv ==
  ASSUME TInv, IInv', NEW w \in Workers, AppendRead(w)
  PROVE  TInv'
<1> DEFINE new == Apply(rows[target[w]], RequestNow(w))
<1>1. /\ pc' = [pc EXCEPT ![w] = "loop"] /\ target' = [target EXCEPT ![w] = target[w]]
      /\ current' = [current EXCEPT ![w] = new] /\ finding' = finding
      /\ got' = [got EXCEPT ![w] = 0] /\ attempt' = attempt
  BY DEF AppendRead, GoTo, See
<1>2. Tables' /\ Moves /\ new \in Case
  BY AppendReads
<1> HIDE DEF new
<1>3. /\ pc'[w] = "loop" /\ current'[w] = new
      /\ \A v \in Workers : v # w => SameWorker(v) /\ got'[v] = got[v]
  BY <1>1 DEF TInv, Counters, IInv, WorkerShape, SameWorker
<1>4. Counters' /\ SeenOK(w)'
  BY <1>1, <1>2, <1>3 DEF TInv, Counters, SeenOK, Appending
<1> QED
  BY <1>2, <1>3, <1>4, OneReader

\* A lost append: the case is read again, or ingest raises.
LEMMA AppendLostTInv ==
  ASSUME TInv, IInv', NEW w \in Workers, AppendLost(w)
  PROVE  TInv'
<1>1. pc[w] \in {"append", "append_join"} /\ UNCHANGED store
  BY DEF AppendLost
<1>2. CASE Leave(w)
  BY <1>1, <1>2, LeaveTInv
<1>3. CASE /\ See(w, target[w], rows[target[w]]) /\ GoTo(w, "loop") /\ UNCHANGED finding
           /\ attempt[w] < 2 /\ attempt' = [attempt EXCEPT ![w] = @ + 1]
           /\ got' = [got EXCEPT ![w] = 0]
  <2>1. target[w] \in CaseIds /\ rows[target[w]] # Unopened
    BY <1>1 DEF TInv, IInv, WorkerOK, HoldsCase, Holding, Exists
  <2>2. Counters' /\ \A v \in Workers : v # w => got'[v] = got[v]
    BY <1>3 DEF TInv, Counters
  <2> QED
    BY <1>1, <1>3, <2>1, <2>2, SeesRow
<1> QED
  BY <1>2, <1>3 DEF AppendLost

\* A transition of case validation is permitted on the row it is appended to.
LEMMA ValidationAppends ==
  ASSUME TInv, NEW c \in CaseIds, NEW t \in {"validate", "close_no_action"},
         Validation(c, t)
  PROVE  /\ Tables' /\ Moves /\ ~IsTerminal(rows[c])
         /\ \A d \in CaseIds : d # c => rows'[d] = rows[d] /\ log'[d] = log[d]
<1>1. PICK r : r = RequestOf(rows[c], t, {"validation_result_id"}, {})
  OBVIOUS
<1>2. /\ AppendEvent(c, rows[c], r) /\ rows[c] # Unopened /\ Permits(rows[c], r)
  BY <1>1 DEF Validation, Exists
<1>3. rows[c].version + 1 \in Nat
  BY DEF TInv, IInv, StoreInv, StoreShape
<1>4. /\ r.transition = t /\ r.additions = {} /\ r.priority = NoId /\ r.change_plan = NoId
      /\ r.change_window = NoId
      /\ \A n \in DOMAIN r.records : r.records[n] = rows[c].version + 1
  BY <1>1 DEF RequestOf, Request, AttachedId
<1>5. /\ t \in Transitions /\ NoId \in Nat
  BY DEF Transitions, Target, NoId
<1> QED
  BY <1>2, <1>3, <1>4, <1>5, AppendedTables

\* Every step preserves the invariant.
LEMMA NextTInv == TInv /\ [Next]_vars => TInv'
<1> SUFFICES ASSUME TInv, [Next]_vars PROVE TInv'
  OBVIOUS
<1>1. IInv'
  BY NextIInv DEF TInv
<1>2. ASSUME NEW w \in Workers, Step(w) PROVE TInv'
  <2>1. CASE Assign(w)
    BY <1>1, <2>1, LeaveTInv DEF Assign
  <2> QED
    BY <1>1, <1>2, <2>1, StartTInv, OpenTInv, OpenLostTInv, ReadTInv, AppendTInv,
       AppendLostTInv DEF Step
<1>3. ASSUME NEW w \in Workers, Crash(w) PROVE TInv'
  BY <1>1, <1>3, LeaveTInv DEF Crash
<1>4. ASSUME NEW c \in CaseIds, NEW t \in {"validate", "close_no_action"},
             Validation(c, t)
      PROVE  TInv'
  <2>1. /\ Counters' /\ \A v \in Workers : SameWorker(v) /\ got'[v] = got[v]
    BY <1>4 DEF Validation, worker_vars, TInv, Counters, SameWorker
  <2> QED
    BY <1>1, <1>4, <2>1, ValidationAppends, ReaderStays DEF TInv
<1>5. CASE UNCHANGED vars
  <2>1. /\ UNCHANGED store /\ Counters'
        /\ \A v \in Workers : SameWorker(v) /\ got'[v] = got[v]
    BY <1>5 DEF vars, worker_vars, TInv, Counters, SameWorker
  <2> QED
    BY <1>1, <2>1, TablesStay, ReaderStays DEF TInv
<1> QED
  BY <1>1, <1>2, <1>3, <1>4, <1>5, StartTInv DEF Next

\* The invariant holds in every reachable state.
LEMMA TablesInvariance == Spec => []TInv
BY InitTInv, NextTInv, PTL DEF Spec

\* The tables of both stores and the locals of the workers keep their types
\* (RemediationIntake.ingest, schema of SqliteCaseStore).
THEOREM TypeCorrect == Spec => []TypeOK
<1>1. TInv => TypeOK
  BY DEF TInv, TypeOK, Tables, Counters, IInv, StoreInv, StoreShape, WorkerShape, Labels
<1> QED
  BY <1>1, TablesInvariance, PTL

\* The events of each case replay to its row, whichever workers and validations appended
\* them and whoever died (SqliteCaseStore.append).
THEOREM LogReplays == Spec => []LogReplaysToRow
<1>1. TInv => LogReplaysToRow
  BY DEF TInv, Tables
<1> QED
  BY <1>1, TablesInvariance, PTL

\* active_case_assets lists the assets of the cases that are not terminal and no other,
\* so the lookup of an ingest by asset finds the case that is being worked on.
THEOREM ActiveIndex == Spec => []ActiveIndexExact
<1>1. TInv => ActiveIndexExact
  BY DEF TInv, Tables
<1> QED
  BY <1>1, TablesInvariance, PTL

\* A case that validation closed is final: no ingest under way writes it, however stale
\* the projection that it decided on (workflow.advance).
THEOREM TerminalFinal == Spec => TerminalIsFinal
<1>1. ASSUME TInv, [Next]_vars, NEW d \in CaseIds, IsTerminal(rows[d])
      PROVE  UNCHANGED <<rows[d], linked[d], log[d]>>
  <2>1. ASSUME NEW w \in Workers, NEW c \in CaseIds, OpenNew(w, c)
        PROVE  UNCHANGED <<rows[d], linked[d], log[d]>>
    <3>1. /\ rows' = [rows EXCEPT ![c] = OpenCase({finding[w]})] /\ rows[c] = Unopened
          /\ linked' = [linked EXCEPT ![c] = {AssetOf[finding[w]]}] /\ log' = log
      BY <2>1 DEF OpenNew, CreateCase, CanCreate, Exists
    <3>2. ~IsTerminal(Unopened)
      BY SameStore, SameCases, Kept!UnopenedIsNoCase
    <3>3. c # d
      BY <1>1, <3>1, <3>2
    <3> QED
      BY <3>1, <3>3 DEF TInv, Tables, StoreTypeOK
  <2>2. ASSUME NEW w \in Workers, AppendRead(w)
        PROVE  UNCHANGED <<rows[d], linked[d], log[d]>>
    BY <1>1, <2>2, AppendReads DEF AppendEvent
  <2>3. ASSUME NEW c \in CaseIds, NEW t \in {"validate", "close_no_action"},
               Validation(c, t)
        PROVE  UNCHANGED <<rows[d], linked[d], log[d]>>
    BY <1>1, <2>3, ValidationAppends DEF Validation, AppendEvent
  <2>4. ASSUME UNCHANGED store PROVE UNCHANGED <<rows[d], linked[d], log[d]>>
    BY <2>4 DEF store
  <2> QED
    BY <1>1, <2>1, <2>2, <2>3, <2>4
    DEF Next, Step, Submit, PutFinding, Lookup, OpenLost, Read, AppendLost, Assign, Crash,
        vars
<1>2. TInv /\ [Next]_vars =>
        [\A c \in CaseIds : IsTerminal(rows[c]) =>
           UNCHANGED <<rows[c], linked[c], log[c]>>]_store
  BY <1>1
<1> QED
  BY <1>2, TablesInvariance, PTL DEF Spec, TerminalIsFinal
==============================================================================
