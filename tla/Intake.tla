-------------------------------- MODULE Intake --------------------------------
(***************************************************************************)
(* RemediationIntake.ingest (src/elcapitan/intake.py) run by several       *)
(* workers over one case store and one finding store, with the case store  *)
(* also advanced by validation.  Every call ingest makes to a store is a   *)
(* step of its own: other workers run between them and a worker may die    *)
(* there, after which the scan is replayed.                                *)
(*                                                                         *)
(* A finding stands for its source identity: put finds the winner of a     *)
(* race on it.  A risk assessment is identified by its score.              *)
(***************************************************************************)
EXTENDS CaseStore, FiniteSets

CONSTANTS
  Workers,
  Batch,        \* the findings of the exports each worker ingests
  AssetOf,      \* canonical_asset_id of each finding
  Score,        \* assess_priority of each finding
  MaxCrashes    \* bound on the deaths of workers (model bound)

ASSUME FindingAssumption ==
  /\ AssetOf \in [Findings -> Assets]
  /\ Score \in [Findings -> Nat \ {0}]
  /\ Batch \in [Workers -> SUBSET Findings]

VARIABLES
  recorded,   \* finding_records: the findings that were put
  assigned,   \* finding_records.case_id
  pc,         \* where in ingest a worker is
  finding,    \* the finding it ingests
  target,     \* current.case_id
  current,    \* current: the projection it last saw
  got,        \* the version the advance under way has read
  attempt,    \* attempts of the final loop that met a conflict
  refused,    \* history: cases on which transition_case refused an ingest
  crashes     \* deaths so far

findings_vars == <<recorded, assigned>>
worker_vars == <<pc, finding, target, current, got, attempt>>
vars == <<store, findings_vars, worker_vars, refused, crashes>>

NoFinding == "none"

Init ==
  /\ StoreInit
  /\ recorded = {}
  /\ assigned = [f \in Findings |-> NoCase]
  /\ pc = [w \in Workers |-> "idle"]
  /\ finding = [w \in Workers |-> NoFinding]
  /\ target = [w \in Workers |-> NoCase]
  /\ current = [w \in Workers |-> Unopened]
  /\ got = [w \in Workers |-> 0]
  /\ attempt = [w \in Workers |-> 0]
  /\ refused = {}
  /\ crashes = 0

GoTo(w, label) == pc' = [pc EXCEPT ![w] = label]

\* ingest returns or raises: its locals are gone.
Leave(w) ==
  /\ GoTo(w, "idle")
  /\ finding' = [finding EXCEPT ![w] = NoFinding]
  /\ target' = [target EXCEPT ![w] = NoCase]
  /\ current' = [current EXCEPT ![w] = Unopened]
  /\ got' = [got EXCEPT ![w] = 0]
  /\ attempt' = [attempt EXCEPT ![w] = 0]

\* current = row, a projection of case c.
See(w, c, row) ==
  /\ target' = [target EXCEPT ![w] = c]
  /\ current' = [current EXCEPT ![w] = row]

------------------------------------------------------------------------------
\* Mutant: a finding that was put counts as ingested.
NotRecorded(f) == f \notin recorded

\* existing is None or has no case_id.
NotIngested(f) == assigned[f] = NoCase

\* get_by_source.  A finding that has its case is a duplicate, and ingest returns;
\* one that was put and has none is taken up again.
Submit(w, f) ==
  /\ pc[w] = "idle"
  /\ f \in Batch[w]
  /\ NotIngested(f)
  /\ GoTo(w, IF f \in recorded THEN "lookup" ELSE "put")
  /\ finding' = [finding EXCEPT ![w] = f]
  /\ UNCHANGED <<store, findings_vars, target, current, got, attempt, refused, crashes>>

\* _store_finding.  When another worker put the same source first, its record is used,
\* and that it may have its case by now is not looked at again.
PutFinding(w) ==
  /\ pc[w] = "put"
  /\ recorded' = recorded \cup {finding[w]}
  /\ GoTo(w, "lookup")
  /\ UNCHANGED <<store, assigned, finding, target, current, got, attempt, refused, crashes>>

\* current = find_active_by_asset
Lookup(w) ==
  LET c == FindActive(AssetOf[finding[w]]) IN
    /\ pc[w] = "lookup"
    /\ IF c = NoCase THEN GoTo(w, "open") /\ UNCHANGED <<target, current>>
                     ELSE GoTo(w, "loop") /\ See(w, c, rows[c])
    /\ UNCHANGED <<store, findings_vars, finding, got, attempt, refused, crashes>>

\* workflow.open, with a case id that no case has.  Ids are drawn at random, so it makes
\* no difference which of them it is.
OpenNew(w, c) ==
  /\ pc[w] = "open"
  /\ ~Exists(c) /\ c = CHOOSE d \in CaseIds : ~Exists(d)
  /\ CreateCase(c, {finding[w]}, {AssetOf[finding[w]]})
  /\ See(w, c, OpenCase({finding[w]}))
  /\ GoTo(w, "loop")
  /\ UNCHANGED <<findings_vars, finding, got, attempt, refused, crashes>>

\* open raises ConcurrentCaseUpdate, and find_active_by_asset is asked again.  ingest
\* raises when the winner's case is already closed.
OpenLost(w) ==
  LET a == AssetOf[finding[w]]  c == FindActive(a) IN
    /\ \/ /\ pc[w] = "open" /\ c # NoCase
          /\ GoTo(w, "lost")
          /\ UNCHANGED <<finding, target, current, got, attempt>>
       \/ pc[w] = "lost" /\ c = NoCase /\ Leave(w)
       \/ /\ pc[w] = "lost" /\ c # NoCase
          /\ See(w, c, rows[c])
          /\ GoTo(w, IF finding[w] \in rows[c].findings THEN "loop" ELSE "join")
          /\ UNCHANGED <<finding, got, attempt>>
    /\ UNCHANGED <<store, findings_vars, refused, crashes>>

\* Mutant: scores are summed.
SumOfScores(old, score) == old + score

\* _merge_priority: the higher of the two assessments.
MergedScore(old, score) == IF score > old THEN score ELSE old

\* The condition under which ingest reprioritizes.
Outranks(row, f) == row.priority = NoId \/ Score[f] > row.priority

\* Mutant: a case found for the asset is taken to hold the finding.
WantedWithoutAdding(row, f) ==
  CASE row.state = "open" -> "prioritize"
    [] row.state # "open" /\ Outranks(row, f) -> "reprioritize"
    [] OTHER -> "none"

\* What ingest asks for next, having seen row: "none" when the case is as it wants it.
Wanted(row, f) ==
  CASE f \notin row.findings -> "add_finding"
    [] f \in row.findings /\ row.state = "open" -> "prioritize"
    [] f \in row.findings /\ row.state # "open" /\ Outranks(row, f) -> "reprioritize"
    [] OTHER -> "none"

\* The request, made from seen and applied to a case at the given version.
IngestRequest(t, seen, version, f) ==
  Request(t, [n \in {RequiredRecord[t]} |-> version + 1],
          IF t = "add_finding" THEN {f} ELSE {},
          IF t = "prioritize" THEN Score[f] ELSE MergedScore(seen.priority, Score[f]))

RequestNow(w) ==
  IngestRequest(Wanted(current[w], finding[w]), current[w], rows[target[w]].version,
                finding[w])

\* workflow.advance, first half: it reads the case anew, and transition_case raises
\* ValueError, which ingest does not catch, when that case no longer permits what was
\* decided on the one seen before.
Read(w) ==
  LET row == rows[target[w]] IN
    /\ pc[w] \in {"loop", "join"}
    /\ Wanted(current[w], finding[w]) # "none"
    /\ IF Permits(row, RequestNow(w))
       THEN /\ got' = [got EXCEPT ![w] = row.version]
            /\ GoTo(w, IF pc[w] = "loop" THEN "append" ELSE "append_join")
            /\ UNCHANGED <<finding, target, current, attempt, refused>>
       ELSE /\ Leave(w)
            /\ refused' = refused \cup {target[w]}
    /\ UNCHANGED <<store, findings_vars, crashes>>

\* workflow.advance, second half: the append.
AppendRead(w) ==
  LET c == target[w] IN
    /\ pc[w] \in {"append", "append_join"}
    /\ VersionIs(c, got[w])
    /\ AppendEvent(c, rows[c], RequestNow(w))
    /\ See(w, c, Apply(rows[c], RequestNow(w)))
    /\ GoTo(w, "loop")
    /\ got' = [got EXCEPT ![w] = 0]
    /\ UNCHANGED <<findings_vars, finding, attempt, refused, crashes>>

\* The append raises ConcurrentCaseUpdate.  In the loop the case is read again, three
\* attempts in all; the advance after a lost open is not in the loop.
AppendLost(w) ==
  LET c == target[w] IN
    /\ pc[w] \in {"append", "append_join"}
    /\ ~VersionIs(c, got[w])
    /\ IF pc[w] = "append" /\ attempt[w] < 2
       THEN /\ attempt' = [attempt EXCEPT ![w] = @ + 1]
            /\ See(w, c, rows[c])
            /\ GoTo(w, "loop")
            /\ got' = [got EXCEPT ![w] = 0]
            /\ UNCHANGED finding
       ELSE Leave(w)
    /\ UNCHANGED <<store, findings_vars, refused, crashes>>

\* Mutant: the row of the finding is updated whatever case it has.
AlwaysAssignable(f, c) == TRUE

\* UPDATE ... WHERE finding_id = f AND (case_id IS NULL OR case_id = c)
Assignable(f, c) == assigned[f] \in {NoCase, c}

\* assign_case, which raises DuplicateFinding when the finding has another case.
Assign(w) ==
  LET f == finding[w]  c == target[w] IN
    /\ pc[w] = "loop"
    /\ Wanted(current[w], f) = "none"
    /\ assigned' = IF Assignable(f, c) THEN [assigned EXCEPT ![f] = c] ELSE assigned
    /\ Leave(w)
    /\ UNCHANGED <<store, recorded, refused, crashes>>

\* The process dies between two calls.
Crash(w) ==
  /\ pc[w] # "idle"
  /\ crashes < MaxCrashes
  /\ crashes' = crashes + 1
  /\ Leave(w)
  /\ UNCHANGED <<store, findings_vars, refused>>

\* The case ids that are left suffice for the assets without a case and one more.
IdsLeft ==
  Cardinality({d \in CaseIds : ~Exists(d)}) >
    Cardinality({a \in Assets : active[a] = NoCase})

\* Case validation advances the case; here it goes on or closes it (while IdsLeft, a
\* bound of the model).
Validation(c, t) ==
  /\ t \in {"validate", "close_no_action"}
  /\ t = "close_no_action" => IdsLeft
  /\ LET r == RequestOf(rows[c], t, {"validation_result_id"}, {}) IN
       /\ Exists(c)
       /\ Permits(rows[c], r)
       /\ AppendEvent(c, rows[c], r)
  /\ UNCHANGED <<findings_vars, worker_vars, refused, crashes>>

\* A step of an ingest under way.
Step(w) ==
  \/ PutFinding(w) \/ Lookup(w) \/ (\E c \in CaseIds : OpenNew(w, c)) \/ OpenLost(w)
  \/ Read(w) \/ AppendRead(w) \/ AppendLost(w) \/ Assign(w)

Next ==
  \/ \E w \in Workers, f \in Findings : Submit(w, f)
  \/ \E w \in Workers : Step(w) \/ Crash(w)
  \/ \E c \in CaseIds, t \in {"validate", "close_no_action"} : Validation(c, t)

Spec == Init /\ [][Next]_vars

\* A call that was made goes on until it returns, raises or its process dies; the scan
\* is replayed while a finding that was put has no case.  Step(w) is enabled whenever w is
\* not idle, so the first conjunct is its weak fairness, written out.
Fairness ==
  /\ \A w \in Workers : []<>(pc[w] = "idle") \/ []<><<Step(w)>>_pc
  /\ \A f \in Findings :
       WF_<<pc, finding>>(\E w \in Workers : f \in recorded /\ Submit(w, f))

FairSpec == Spec /\ Fairness
------------------------------------------------------------------------------
(***************************************************************************)
(* Properties                                                              *)
(***************************************************************************)
TypeOK ==
  /\ StoreTypeOK
  /\ recorded \in SUBSET Findings
  /\ assigned \in [Findings -> CaseIds \cup {NoCase}]
  /\ pc \in [Workers -> {"idle", "put", "lookup", "open", "lost", "join", "loop",
                         "append", "append_join"}]
  /\ finding \in [Workers -> Findings \cup {NoFinding}]
  /\ target \in [Workers -> CaseIds \cup {NoCase}]
  /\ attempt \in [Workers -> 0..2]

\* The finding store and the case store agree, whoever died where: a finding assigned
\* to a case was put and is one of that case's findings (list_for_case and
\* case.finding_ids are both read as the findings of the case).
AssignedIsMember ==
  \A f \in Findings : assigned[f] # NoCase =>
    /\ f \in recorded
    /\ Exists(assigned[f]) /\ f \in rows[assigned[f]].findings

\* A finding never moves from one case to another (assign_case).
AssignmentIsFinal ==
  [][\A f \in Findings : assigned[f] # NoCase => assigned'[f] = assigned[f]]_assigned

\* A case holds only findings of its asset, each of them recorded: correlation never
\* attaches a finding to the case of another resource.
CorrelatedByAsset ==
  \A c \in CaseIds, f \in Findings :
    Exists(c) /\ f \in rows[c].findings => f \in recorded /\ AssetOf[f] \in linked[c]

\* The priority of a case is that of one of its findings, never a sum of several.
PriorityOfAFinding ==
  \A c \in CaseIds : Exists(c) =>
    rows[c].priority \in {NoId} \cup {Score[f] : f \in rows[c].findings}

\* intake.py:185: workers may attach different findings to the same case at once, and
\* the one that loses finishes what is missing rather than failing.  So only a case
\* that was closed meanwhile can refuse an ingest.
NoLosingWorkerFails == \A c \in refused : IsTerminal(rows[c])

\* Replaying the scan brings every finding that was put into a case, after any crash
\* and any lost race.
ReplayConverges == \A f \in Findings : f \in recorded ~> assigned[f] # NoCase
==============================================================================
