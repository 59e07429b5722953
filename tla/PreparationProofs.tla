-------------------------- MODULE PreparationProofs --------------------------
(***************************************************************************)
(* Theorems about Preparation, for any findings, bounds and times.         *)
(*                                                                         *)
(* Whatever the number of review workers, the types, the order of the      *)
(* evidence and the feedback of a validated case are kept (Shared): they   *)
(* rest on how a step stores, never on what a call has read.               *)
(*                                                                         *)
(* That fourteen turns are enough is about the loop of one worker          *)
(* (OneReviewer): a second one takes the case back under the first, whose  *)
(* turns it uses up.                                                       *)
(***************************************************************************)
EXTENDS Preparation, SequenceTheorems, TLAPS

OneReviewer == \A v, w \in Reviewers : v = w

\* The actors do what they can do, on records there are.
IsList(s) == \E S : s \in Seq(S)

RunRecord(n) == [scope : SUBSET Plannable, validation : 0..n, used : 0..Iterations,
                 reselected : Nat]

WorkerTyped(c, q, n) ==
  /\ c.stage \in {"none", "plan", "sre", "retry", "window", "rollback", "reselect", "gate"}
  /\ c.stage = "plan" => c.scope \subseteq Plannable
  /\ c.stage = "retry" => c.sre \in 1..n
  /\ c.stage = "gate" => c.package.type = "HumanReviewPackage.v1"
  /\ q.validation = NoId => q = NoRun /\ c = NoCall

CallsTyped ==
  /\ DOMAIN call = Actors
  /\ \A w \in Reviewers : WorkerTyped(call[w], run[w], Len(records))
  /\ call[Validator].stage \in {"none", "validate"}
  /\ call[Person].stage \in {"none", "approve", "reject"}

USE PlannableAssumption, ActorsAssumption, BoundsAssumption

------------------------------------------------------------------------------
(***************************************************************************)
(* Transitions and records                                                 *)
(***************************************************************************)
\* The transitions of these services: where they start, lead to and what they withdraw.
Used == {"add_finding", "validate", "block", "close_no_action", "prepare_plan",
         "approve_sre", "reject", "retry_sre", "select_window", "review_rollback",
         "request_rework", "reselect_window", "request_approval", "approve_change"}

\* Where each transition starts and leads to, and what it withdraws.
LEMMA Table ==
  ASSUME NEW c
  PROVE  /\ StateAfter(c, "validate") = "validated" /\ Withdrawn(c, "validate") = {}
         /\ Sources["validate"] = {"prioritized"}
         /\ StateAfter(c, "prepare_plan") = "plan_ready" /\ Withdrawn(c, "prepare_plan") = {}
         /\ Sources["prepare_plan"] = {"validated"}
         /\ StateAfter(c, "approve_sre") = "sre_approved" /\ Withdrawn(c, "approve_sre") = {}
         /\ Sources["approve_sre"] = {"plan_ready"}
         /\ StateAfter(c, "select_window") = "window_selected"
         /\ Withdrawn(c, "select_window") = {}
         /\ Sources["select_window"] = {"sre_approved"}
         /\ StateAfter(c, "review_rollback") = "rollback_ready"
         /\ Withdrawn(c, "review_rollback") = {}
         /\ Sources["review_rollback"] = {"window_selected"}
         /\ StateAfter(c, "request_approval") = "awaiting_approval"
         /\ Withdrawn(c, "request_approval") = {}
         /\ Sources["request_approval"] = {"rollback_ready"}
         /\ StateAfter(c, "approve_change") = "approved" /\ Withdrawn(c, "approve_change") = {}
         /\ Sources["approve_change"] = {"awaiting_approval"}
         /\ StateAfter(c, "retry_sre") = "plan_ready"
         /\ Sources["retry_sre"] = {"sre_approved", "window_selected"}
         /\ StateAfter(c, "request_rework") = "validated"
         /\ Sources["request_rework"] = {"window_selected"}
         /\ StateAfter(c, "reselect_window") = "sre_approved"
         /\ Sources["reselect_window"] = {"rollback_ready"}
         /\ StateAfter(c, "block") = "blocked"
         /\ StateAfter(c, "close_no_action") = "closed_no_action"
         /\ StateAfter(c, "reject") = "rejected"
BY DEF StateAfter, Withdrawn, Reopens, Target, Sources

\* What the transitions back to planning withdraw.
LEMMA Going ==
  ASSUME NEW c
  PROVE  /\ Withdrawn(c, "retry_sre") = {"sre_review_id", "change_window_id"}
         /\ Withdrawn(c, "request_rework") =
              {"iac_link_id", "change_plan_id", "sre_review_id", "change_window_id",
               "rollback_review_id", "policy_decision_id", "human_review_package_id"}
         /\ Withdrawn(c, "reselect_window") =
              {"change_window_id", "rollback_review_id", "policy_decision_id",
               "human_review_package_id"}
BY DEF Withdrawn, Reopens

\* An advance with a list of names that all get one id.
Moves(t, names, id) ==
  /\ case.state \in Sources[t]
  /\ case'.state = StateAfter(case, t)
  /\ case'.record_ids = [n \in RecordNames |-> IF n \in names THEN id
                                              ELSE IF n \in Withdrawn(case, t) THEN NoId
                                              ELSE case.record_ids[n]]
  /\ reworked' = CASE t = "request_rework" -> TRUE
                   [] t = "add_finding" /\ case'.state = "prioritized" -> FALSE
                   [] OTHER -> reworked

\* An advance moves the case as its transition says, and findings only grow.
LEMMA AdvanceMoves ==
  ASSUME NEW t \in Used, NEW names \in SUBSET RecordNames, NEW id \in Nat,
         NEW adds \in SUBSET Findings, NEW value \in Nat,
         Advance(Request(t, [n \in names |-> id], adds, value))
  PROVE  /\ Moves(t, names, id)
         /\ case.findings \subseteq case'.findings
         /\ adds = {} => case'.findings = case.findings
<1> DEFINE r == Request(t, [n \in names |-> id], adds, value)
<1>1. /\ r.transition = t /\ r.records = [n \in names |-> id] /\ r.additions = adds
  BY DEF Request
<1>2. Permits(case, r) /\ case' = Apply(case, r)
  BY DEF Advance
<1>3. case.state \in Sources[t]
  BY <1>1, <1>2 DEF Permits
<1>4. /\ case'.state = StateAfter(case, t) /\ case'.findings = case.findings \cup adds
      /\ case'.record_ids = RecordsAfter(case, r)
  BY <1>1, <1>2 DEF Apply
<1>5. reworked' = CASE t = "request_rework" -> TRUE
                    [] t = "add_finding" /\ case'.state = "prioritized" -> FALSE
                    [] OTHER -> reworked
  BY <1>1 DEF Advance
<1> QED
  BY <1>1, <1>3, <1>4, <1>5 DEF Moves, RecordsAfter

\* The next projection is a case, with ids of records there are.
LEMMA AdvanceTypes ==
  ASSUME TypeOK, NEW t \in Used, NEW names \in SUBSET RecordNames, NEW id \in Nat,
         NEW adds \in SUBSET Findings, NEW value \in Nat,
         Advance(Request(t, [n \in names |-> id], adds, value))
  PROVE  case' \in Case /\ reworked' \in BOOLEAN
<1> DEFINE r == Request(t, [n \in names |-> id], adds, value)
<1>1. /\ r.transition = t /\ r.records = [n \in names |-> id] /\ r.additions = adds
      /\ r.priority \in Nat /\ r.change_plan \in Nat /\ r.change_window \in Nat
  BY DEF Request, NoId
<1>2. case' = Apply(case, r) /\ case.state \in Sources[t]
  BY <1>1 DEF Advance, Permits
<1>3. /\ case.version \in Nat /\ case.priority \in Nat /\ case.change_plan \in Nat
      /\ case.change_window \in Nat /\ case.findings \in SUBSET Findings
      /\ case.state \in CaseStates /\ case.blocked_from \in CaseStates \cup {NoState}
      /\ case.record_ids \in [RecordNames -> Nat]
  BY DEF TypeOK, Case
<1>4. StateAfter(case, t) \in CaseStates
      /\ BlockedFromAfter(case, t) \in CaseStates \cup {NoState}
  BY <1>3 DEF StateAfter, BlockedFromAfter, Reopens, Used, Target, CaseStates,
              ActiveStates, ReopenStates, TerminalStates, NoState
<1>5. RecordsAfter(case, r) \in [RecordNames -> Nat]
  BY <1>1, <1>3 DEF RecordsAfter, NoId
<1>6. /\ OrElse(r.priority, case.priority) \in Nat
      /\ PlanAfter(case, r) \in Nat /\ WindowAfter(case, r) \in Nat
  BY <1>1, <1>3 DEF PlanAfter, WindowAfter, OrElse, NoId
<1>7. case.version + 1 \in Nat /\ case.findings \cup r.additions \in SUBSET Findings
  BY <1>1, <1>3
<1>8. case' \in Case
  BY <1>1, <1>2, <1>4, <1>5, <1>6, <1>7 DEF Apply, Case
<1>9. reworked' \in BOOLEAN
  BY DEF Advance, TypeOK
<1> QED
  BY <1>8, <1>9

\* A list with one record more.
LEMMA OneMore ==
  ASSUME NEW s, IsList(s), NEW x
  PROVE  /\ IsList(Append(s, x)) /\ Len(s) \in Nat /\ Len(Append(s, x)) = Len(s) + 1
         /\ DOMAIN s = 1..Len(s) /\ DOMAIN Append(s, x) = 1..(Len(s) + 1)
         /\ \A i \in 1..Len(s) : Append(s, x)[i] = s[i]
         /\ Append(s, x)[Len(s) + 1] = x
<1>1. PICK S : s \in Seq(S)
  BY DEF IsList
<1> DEFINE T == S \cup {x}
<1>2. s \in Seq(T)
  BY <1>1, SeqMonotonic
<1>3. x \in T
  OBVIOUS
<1> HIDE DEF T
<1>4. Append(s, x) \in Seq(T)
  BY <1>2, <1>3
<1>5. /\ Len(s) \in Nat /\ Len(Append(s, x)) = Len(s) + 1 /\ DOMAIN s = 1..Len(s)
      /\ \A i \in 1..Len(s) : Append(s, x)[i] = s[i]
      /\ Append(s, x)[Len(s) + 1] = x
  BY <1>2, <1>3
<1>6. DOMAIN Append(s, x) = 1..(Len(s) + 1)
  BY <1>4, <1>5, LenProperties
<1> QED
  BY <1>4, <1>5, <1>6 DEF IsList

\* What was a record stays that record.
Extends ==
  /\ IsList(records') /\ Len(records) \in Nat /\ Len(records') \in Nat
  /\ Len(records) <= Len(records')
  /\ DOMAIN records = 1..Len(records) /\ DOMAIN records' = 1..Len(records')
  /\ \A i \in 1..Len(records) : records'[i] = records[i]

\* A list that stays has only grown.
LEMMA SameList ==
  ASSUME IsList(records), records' = records
  PROVE  Extends
<1>1. PICK S : records \in Seq(S)
  BY DEF IsList
<1>2. Len(records) \in Nat /\ DOMAIN records = 1..Len(records)
  BY <1>1, LenProperties
<1> QED
  BY <1>2 DEF Extends

\* A record put and attached: the case moves, the list grows by that record.
LEMMA PutMoves ==
  ASSUME TypeOK, IsList(records), NEW record, NEW t \in Used \ {"add_finding"},
         NEW names \in SUBSET RecordNames, PutAndAdvance(record, t, names)
  PROVE  /\ Moves(t, names, Len(records) + 1)
         /\ case' \in Case /\ reworked' \in BOOLEAN /\ case'.findings = case.findings
         /\ Extends /\ Len(records') = Len(records) + 1
         /\ records'[Len(records) + 1] = record
<1>1. Len(records) \in Nat
  BY OneMore
<1>2. PICK id \in Nat : id = Len(records) + 1
  BY <1>1
<1>3. /\ records' = Append(records, record)
      /\ Advance(Request(t, [n \in names |-> id], {}, id))
  BY <1>2 DEF PutAndAdvance
<1>4. /\ Extends /\ Len(records') = Len(records) + 1
      /\ records'[Len(records) + 1] = record
  BY <1>3, OneMore DEF Extends
<1>5. Moves(t, names, id) /\ case'.findings = case.findings
  BY <1>3, AdvanceMoves
<1>6. case' \in Case /\ reworked' \in BOOLEAN
  BY <1>3, AdvanceTypes
<1>7. Moves(t, names, Len(records) + 1)
  BY <1>2, <1>5 DEF Moves
<1> QED
  BY <1>4, <1>5, <1>6, <1>7

------------------------------------------------------------------------------
(***************************************************************************)
(* Any number of review workers: types, the order of the evidence and the  *)
(* feedback of a validated case.  What matters of a step is how it stores  *)
(* (Stores): nothing of what a call has read is used.                      *)
(***************************************************************************)
\* The plan and the window are of records there are; the stage of a blocked case is known.
StoredTyped ==
  /\ case.change_plan \in 0..Len(records) /\ case.change_window \in 0..Len(records)
  /\ IF case.state = "blocked" THEN case.blocked_from \in ActiveStates \ {"blocked"}
                               ELSE case.blocked_from = NoState

Typed == TypeOK /\ IsList(records) /\ CallsTyped /\ StoredTyped

\* The order CaseLifecycle asks of the evidence, on this case and its records.
Life == INSTANCE CaseLifecycleProofs

FeedbackFits ==
  /\ case.state = "prioritized" => ~Has("review_feedback_id")
  /\ FeedbackNeverStalls

Shared == Typed /\ Life!EvidenceInOrder /\ Life!SupersededEvidenceGone /\ FeedbackFits

\* A step advances the case with a record that it puts, or with none.
Stores(t, names, id, adds, value) ==
  /\ Advance(Request(t, [n \in names |-> id], adds, value))
  /\ t # "add_finding" => adds = {}
  /\ \/ /\ records' = records /\ value = NoId
        /\ t \in {"add_finding", "retry_sre", "reselect_window"}
        /\ t = "retry_sre" => id \in 1..Len(records)
     \/ /\ t \notin {"add_finding", "retry_sre", "reselect_window"}
        /\ id = Len(records) + 1 /\ value = id
        /\ \E record : /\ records' = Append(records, record)
                       /\ t = "request_rework" =>
                            record.type = "RollbackReview.v1" /\ record.changes

\* What the call sites attach.
LEMMA AttachedNames ==
  ASSUME NEW t \in Used, NEW names \in Attached(t)
  PROVE  names \in SUBSET RecordNames
BY DEF Used, Attached, RequiredRecord, RecordNames

\* Every step stores in one of these ways, or not at all.
LEMMA NextStores ==
  ASSUME Typed, [Next]_vars
  PROVE  \/ case' = case /\ reworked' = reworked /\ records' = records
         \/ \E t \in Used, adds \in SUBSET Findings, id \in Nat, value \in Nat :
              \E names \in Attached(t) : Stores(t, names, id, adds, value)
<1> DEFINE Goal == \E t \in Used, adds \in SUBSET Findings, id \in Nat, value \in Nat :
                     \E names \in Attached(t) : Stores(t, names, id, adds, value)
<1>1. Len(records) \in Nat
  BY OneMore DEF Typed
<1>2. ASSUME NEW record, NEW t \in Used \ {"add_finding", "retry_sre", "reselect_window"},
             NEW names \in Attached(t), PutAndAdvance(record, t, names),
             t = "request_rework" => record.type = "RollbackReview.v1" /\ record.changes
      PROVE  Goal
  <2>1. PICK id \in Nat : id = Len(records) + 1
    BY <1>1
  <2>2. Stores(t, names, id, {}, id)
    BY <1>2, <2>1 DEF PutAndAdvance, Stores
  <2> QED
    BY <2>2
<1>3. ASSUME NEW f \in Findings, AddFinding(f) PROVE Goal
  <2>1. Stores("add_finding", {"finding_id"}, 1, {f}, NoId)
    BY <1>3 DEF AddFinding, Stores
  <2>2. "add_finding" \in Used /\ {"finding_id"} \in Attached("add_finding") /\ NoId \in Nat
    BY DEF Used, Attached, RequiredRecord, NoId
  <2> QED
    BY <2>1, <2>2
<1>4. ASSUME ValidateFinish PROVE Goal
  <2>1. PICK confirmed \in SUBSET call[Validator].of,
             t \in {"validate", "block", "close_no_action"} :
          PutAndAdvance(Validation(call[Validator].of, confirmed), t,
                        {"validation_result_id"})
    BY <1>4 DEF ValidateFinish
  <2>2. t \in Used \ {"add_finding", "retry_sre", "reselect_window"}
        /\ {"validation_result_id"} \in Attached(t) /\ t # "request_rework"
    BY DEF Used, Attached, RequiredRecord
  <2> QED
    BY <1>2, <2>1, <2>2
<1>5. ASSUME DecideFinish PROVE Goal
  <2>1. PICK t \in {"approve_change", "reject"} :
          \E names \in Attached(t) : PutAndAdvance(call[Person].record, t, names)
    BY <1>5 DEF DecideFinish, Attached, RequiredRecord
  <2> QED
    BY <1>2, <2>1 DEF Used
<1>6. ASSUME NEW w \in Reviewers, AgentStopped(w) PROVE Goal
  <2>1. {"agent_run_terminal_id"} \in Attached("block")
    BY DEF Attached
  <2> QED
    BY <1>2, <1>6, <2>1 DEF AgentStopped, Used
<1>7. ASSUME NEW w \in Reviewers, Finish(w) PROVE Goal
  <2>1. CASE PlanFinish(w)
    BY <1>2, <2>1 DEF PlanFinish, Used, Attached
  <2>2. CASE SREFinish(w)
    <3>1. PICK d \in {"approve", "reject", "block"}, t \in {"approve_sre", "reject", "block"} :
            PutAndAdvance(SREReview(call[w].plan, d, TRUE), t, {"sre_review_id"})
      BY <2>2 DEF SREFinish
    <3>2. {"sre_review_id"} \in Attached(t)
      BY DEF Attached, RequiredRecord
    <3> QED
      BY <1>2, <3>1, <3>2 DEF Used
  <2>3. CASE RetryFinish(w)
    <3>1. call[w].sre \in 1..Len(records)
      BY <2>3 DEF RetryFinish, Typed, CallsTyped, WorkerTyped
    <3>2. Stores("retry_sre", {"review_feedback_id"}, call[w].sre, {}, NoId)
      BY <2>3, <3>1 DEF RetryFinish, Stores
    <3>3. "retry_sre" \in Used /\ {"review_feedback_id"} \in Attached("retry_sre")
          /\ NoId \in Nat /\ call[w].sre \in Nat
      BY <1>1, <3>1 DEF Used, Attached, RequiredRecord, NoId
    <3> QED
      BY <3>2, <3>3
  <2>4. CASE WindowFinish(w)
    BY <1>2, <2>4 DEF WindowFinish, Used, Attached, RequiredRecord
  <2>5. CASE RollbackFinish(w)
    <3>1. PICK d \in {"approve", "reject", "needs_more_evidence"},
               t \in {"review_rollback", "request_rework", "reject", "block"} :
            \E names \in Attached(t) :
              /\ PutAndAdvance([type |-> "RollbackReview.v1", plan |-> call[w].plan,
                                window |-> call[w].window, decision |-> d,
                                changes |-> d = "reject"], t, names)
              /\ t = "request_rework" => d = "reject"
      BY <2>5 DEF RollbackFinish, Attached, RequiredRecord
    <3> QED
      BY <1>2, <3>1 DEF Used
  <2>6. CASE ReselectFinish(w)
    <3>1. Stores("reselect_window", {}, NoId, {}, NoId)
      BY <2>6 DEF ReselectFinish, Stores
    <3> QED
      BY <3>1 DEF Used, Attached, NoId
  <2>7. CASE GateFinish(w)
    BY <1>2, <2>7 DEF GateFinish, Used, Attached
  <2> QED
    BY <1>7, <2>1, <2>2, <2>3, <2>4, <2>5, <2>6, <2>7 DEF Finish
<1>8. CASE \/ Tick \/ ValidateBegin \/ Show
           \/ \E f \in Findings : Assign(f)
           \/ \E w \in Reviewers : Start(w) \/ Turn(w)
           \/ \E a \in Actors : Raises(a)
           \/ \E verb \in {"approve", "reject"} : DecideBegin(verb)
           \/ UNCHANGED vars
  BY <1>8 DEF Tick, ValidateBegin, Show, Assign, Start, Turn, Raises, DecideBegin, vars
<1>9. CASE \/ ValidateFinish \/ DecideFinish
           \/ \E f \in Findings : AddFinding(f)
           \/ \E w \in Reviewers : Finish(w) \/ AgentStopped(w)
  BY <1>3, <1>4, <1>5, <1>6, <1>7, <1>9 DEF Goal
<1> QED
  BY <1>8, <1>9 DEF Next

\* What a store leaves is typed.
LEMMA StoreTyped ==
  ASSUME Typed, NEW t \in Used, NEW names \in Attached(t), NEW id \in Nat,
         NEW adds \in SUBSET Findings, NEW value \in Nat, Stores(t, names, id, adds, value)
  PROVE  /\ Extends /\ case' \in Case /\ reworked' \in BOOLEAN
         /\ case.findings \subseteq case'.findings /\ StoredTyped'
         /\ \A n \in RecordNames \ {"finding_id", "risk_assessment_id"} :
              case'.record_ids[n] \in 0..Len(records')
<1> DEFINE r == Request(t, [n \in names |-> id], adds, value)
<1>1. Advance(r) /\ names \in SUBSET RecordNames
  BY AttachedNames DEF Stores
<1>2. TypeOK /\ IsList(records) /\ StoredTyped /\ Len(records) \in Nat
  BY OneMore DEF Typed
<1>3. /\ Extends
      /\ id <= Len(records') \/ names \subseteq {"finding_id"}
      /\ value \in 0..Len(records')
  <2>1. CASE records' = records /\ value = NoId
             /\ t \in {"add_finding", "retry_sre", "reselect_window"}
             /\ (t = "retry_sre" => id \in 1..Len(records))
    <3>1. Extends
      BY <1>2, <2>1, SameList
    <3>2. \/ t = "add_finding" /\ names = {"finding_id"}
          \/ t = "retry_sre" /\ id <= Len(records)
          \/ t = "reselect_window" /\ names = {}
      BY <1>2, <2>1 DEF Attached, RequiredRecord
    <3> QED
      BY <1>2, <2>1, <3>1, <3>2 DEF NoId
  <2>2. CASE /\ id = Len(records) + 1 /\ value = id
             /\ \E record : records' = Append(records, record)
    <3>1. PICK record : records' = Append(records, record)
      BY <2>2
    <3>2. Extends /\ Len(records') = Len(records) + 1
      BY <1>2, <3>1, OneMore DEF Extends
    <3> QED
      BY <1>2, <2>2, <3>2
  <2> QED
    BY <2>1, <2>2 DEF Stores
<1>4. case' \in Case /\ reworked' \in BOOLEAN
  BY <1>1, <1>2, AdvanceTypes
<1>5. Moves(t, names, id) /\ case.findings \subseteq case'.findings
  BY <1>1, AdvanceMoves
<1>6. \A n \in RecordNames \ {"finding_id", "risk_assessment_id"} :
        case'.record_ids[n] \in 0..Len(records')
  <2> SUFFICES ASSUME NEW n \in RecordNames \ {"finding_id", "risk_assessment_id"}
               PROVE  case'.record_ids[n] \in 0..Len(records')
    OBVIOUS
  <2>1. case.record_ids[n] \in 0..Len(records)
    BY <1>2 DEF TypeOK
  <2>2. case'.record_ids[n] = IF n \in names THEN id
                              ELSE IF n \in Withdrawn(case, t) THEN NoId
                              ELSE case.record_ids[n]
    BY <1>5 DEF Moves
  <2> QED
    BY <1>3, <2>1, <2>2 DEF Extends, NoId
<1>7. StoredTyped'
  <2>1. Permits(case, r) /\ case' = Apply(case, r) /\ r.transition = t
        /\ r.change_plan \in {NoId, value} /\ r.change_window \in {NoId, value}
    BY <1>1 DEF Advance, Request
  <2>2. /\ case'.change_plan \in {NoId, value, case.change_plan}
        /\ case'.change_window \in {NoId, value, case.change_window}
    BY <2>1 DEF Apply, PlanAfter, WindowAfter, OrElse
  <2>3. /\ case.state \in Sources[t] /\ case'.state = StateAfter(case, t)
        /\ case'.blocked_from = BlockedFromAfter(case, t)
    BY <2>1 DEF Permits, Apply
  <2>4. IF case'.state = "blocked" THEN case'.blocked_from \in ActiveStates \ {"blocked"}
                                   ELSE case'.blocked_from = NoState
    BY <1>2, <2>3
    DEF StoredTyped, StateAfter, BlockedFromAfter, Reopens, Used, Target, Sources,
        ActiveStates, ReopenStates, NoState
  <2> QED
    BY <1>2, <1>3, <2>2, <2>4 DEF StoredTyped, Extends, NoId
<1> QED
  BY <1>3, <1>4, <1>5, <1>6, <1>7

\* One actor at a time calls, returns, starts or ends a run.
LEMMA ActorMoves ==
  ASSUME Typed, Extends, NEW a \in Actors, NEW q,
         DOMAIN call' = Actors, \A b \in Actors \ {a} : call'[b] = call[b],
         a = Validator => call'[a].stage \in {"none", "validate"},
         a = Person => call'[a].stage \in {"none", "approve", "reject"},
         a \notin Reviewers => run' = run,
         a \in Reviewers =>
           /\ run' = [run EXCEPT ![a] = q] /\ q \in RunRecord(Len(records))
           /\ WorkerTyped(call'[a], q, Len(records))
  PROVE  CallsTyped' /\ run' \in [Reviewers -> RunRecord(Len(records'))]
<1>1. /\ Len(records) \in Nat /\ Len(records') \in Nat /\ Len(records) <= Len(records')
      /\ CallsTyped /\ run \in [Reviewers -> RunRecord(Len(records))]
  BY DEF Extends, Typed, TypeOK, RunRecord
<1>2. RunRecord(Len(records)) \subseteq RunRecord(Len(records'))
  BY <1>1 DEF RunRecord
<1>3. ASSUME NEW w \in Reviewers
      PROVE  /\ run'[w] = IF w = a THEN q ELSE run[w]
             /\ WorkerTyped(call'[w], run'[w], Len(records))
  <2>1. run'[w] = IF w = a THEN q ELSE run[w]
    BY <1>1
  <2>2. w # a => call'[w] = call[w]
    BY DEF Actors
  <2> QED
    BY <1>1, <2>1, <2>2 DEF CallsTyped
<1>4. \A w \in Reviewers : WorkerTyped(call'[w], run'[w], Len(records'))
  BY <1>1, <1>3 DEF WorkerTyped
<1>5. run' \in [Reviewers -> RunRecord(Len(records'))]
  BY <1>1, <1>2
<1>6. /\ call'[Validator].stage \in {"none", "validate"}
      /\ call'[Person].stage \in {"none", "approve", "reject"}
  BY <1>1 DEF CallsTyped, Actors
<1> QED
  BY <1>4, <1>5, <1>6 DEF CallsTyped

\* A turn calls a service with what is typed.
LEMMA TurnCallTyped ==
  ASSUME Typed, NEW w \in Reviewers, Turn(w)
  PROVE  /\ call'[w].stage \in {"plan", "sre", "retry", "window", "rollback", "reselect",
                                "gate"}
         /\ call'[w].stage = "plan" => call'[w].scope \subseteq Plannable
         /\ call'[w].stage = "retry" => call'[w].sre \in 1..Len(records)
         /\ call'[w].stage = "gate" => call'[w].package.type = "HumanReviewPackage.v1"
<1>1. w \in DOMAIN call /\ TypeOK
  BY DEF Typed, CallsTyped, Actors
<1>2. CASE PlanBegin(w)
  BY <1>1, <1>2 DEF PlanBegin, Calls, TypeOK
<1>3. CASE RetryBegin(w)
  <2>1. "sre_review_id" \in RecordNames \ {"finding_id", "risk_assessment_id"}
    BY DEF RecordNames
  <2> QED
    BY <1>1, <1>3, <2>1 DEF RetryBegin, Calls, TypeOK, Refused, Has, NoId
<1>4. CASE SREBegin(w) \/ WindowBegin(w) \/ RollbackBegin(w) \/ ReselectBegin(w)
  BY <1>1, <1>4 DEF SREBegin, WindowBegin, RollbackBegin, ReselectBegin, Calls
<1>5. CASE GateBegin(w)
  BY <1>1, <1>5 DEF GateBegin, Calls
<1> QED
  BY <1>2, <1>3, <1>4, <1>5 DEF Turn

\* Every call and run keeps its type.
LEMMA NextCalls ==
  ASSUME Typed, Extends, [Next]_vars
  PROVE  CallsTyped' /\ run' \in [Reviewers -> RunRecord(Len(records'))]
<1> DEFINE Goal == CallsTyped' /\ run' \in [Reviewers -> RunRecord(Len(records'))]
<1>1. /\ Len(records) \in Nat /\ Len(records') \in Nat /\ Len(records) <= Len(records')
      /\ CallsTyped /\ run \in [Reviewers -> RunRecord(Len(records))]
      /\ DOMAIN call = Actors
  BY DEF Extends, Typed, TypeOK, RunRecord, CallsTyped
<1>2. /\ Validator \in Actors \ Reviewers /\ Person \in Actors \ Reviewers
      /\ Validator # Person /\ Reviewers \subseteq Actors
  BY DEF Actors, ActorsAssumption
<1>3. NoRun \in RunRecord(Len(records)) /\ WorkerTyped(NoCall, NoRun, Len(records))
  BY <1>1 DEF NoRun, NoCall, RunRecord, WorkerTyped, NoId, BoundsAssumption
<1>4. CASE UNCHANGED <<call, run>>
  <2>1. \A a \in Actors \ {Validator} : call'[a] = call[a]
    BY <1>4
  <2> QED
    BY <1>1, <1>2, <1>4, <2>1, ActorMoves DEF CallsTyped
<1>5. CASE ValidateBegin \/ ValidateFinish
  <2>1. PICK c : Calls(Validator, c) /\ c.stage \in {"none", "validate"}
    BY <1>5 DEF ValidateBegin, ValidateFinish, Returns, NoCall
  <2>2. /\ run' = run /\ DOMAIN call' = Actors /\ call'[Validator] = c
        /\ \A b \in Actors \ {Validator} : call'[b] = call[b]
    BY <1>1, <1>2, <1>5, <2>1 DEF Calls, ValidateBegin, ValidateFinish
  <2> QED
    BY <1>2, <2>1, <2>2, ActorMoves
<1>6. CASE (\E verb \in {"approve", "reject"} : DecideBegin(verb)) \/ DecideFinish
  <2>1. PICK c : Calls(Person, c) /\ c.stage \in {"none", "approve", "reject"}
    BY <1>6 DEF DecideBegin, DecideFinish, Returns, NoCall
  <2>2. /\ run' = run /\ DOMAIN call' = Actors /\ call'[Person] = c
        /\ \A b \in Actors \ {Person} : call'[b] = call[b]
    BY <1>1, <1>2, <1>6, <2>1 DEF Calls, DecideBegin, DecideFinish
  <2> QED
    BY <1>2, <2>1, <2>2, ActorMoves
<1>7. ASSUME NEW a \in Actors, Raises(a) PROVE Goal
  <2>1. /\ DOMAIN call' = Actors /\ call'[a] = NoCall
        /\ \A b \in Actors \ {a} : call'[b] = call[b]
    BY <1>1, <1>7 DEF Raises, Returns, Calls
  <2>2. a \in Reviewers => run' = [run EXCEPT ![a] = NoRun]
    BY <1>7 DEF Raises, Ends
  <2>3. a \notin Reviewers => run' = run
    BY <1>7 DEF Raises
  <2>4. NoCall.stage = "none"
    BY DEF NoCall
  <2> QED
    BY <1>3, <2>1, <2>2, <2>3, <2>4, ActorMoves
<1>8. ASSUME NEW w \in Reviewers, Start(w) PROVE Goal
  <2>1. PICK q : q = [scope |-> Confirmed,
                      validation |-> case.record_ids["validation_result_id"],
                      used |-> 0, reselected |-> 0]
    OBVIOUS
  <2>2. "validation_result_id" \in RecordNames \ {"finding_id", "risk_assessment_id"}
    BY DEF RecordNames
  <2>3. q \in RunRecord(Len(records)) /\ q.validation # NoId
    BY <1>8, <2>1, <2>2
    DEF Typed, TypeOK, RunRecord, Confirmed, Start, Eligible, Has, BoundsAssumption
  <2>4. run' = [run EXCEPT ![w] = q] /\ call' = call
    BY <1>8, <2>1 DEF Start
  <2>5. WorkerTyped(call'[w], q, Len(records))
    BY <1>1, <2>3, <2>4 DEF CallsTyped, WorkerTyped
  <2> QED
    BY <1>1, <1>2, <2>3, <2>4, <2>5, ActorMoves
<1>9. ASSUME NEW w \in Reviewers, Turn(w) PROVE Goal
  <2>1. PICK c : Calls(w, c)
    BY <1>9 DEF Turn, PlanBegin, SREBegin, RetryBegin, WindowBegin, RollbackBegin,
                ReselectBegin, GateBegin
  <2>2. /\ DOMAIN call' = Actors
        /\ \A b \in Actors \ {w} : call'[b] = call[b]
    BY <1>1, <1>2, <2>1 DEF Calls
  <2>3. PICK q : q = [run[w] EXCEPT !.used = @ + 1]
    OBVIOUS
  <2>4. run[w] \in RunRecord(Len(records)) /\ run[w].used < Iterations
        /\ run[w] # NoRun /\ run' = [run EXCEPT ![w] = q]
    BY <1>1, <1>9, <2>3 DEF Turn, Running
  <2>5. q \in RunRecord(Len(records)) /\ q.validation = run[w].validation
    BY <2>3, <2>4 DEF RunRecord, BoundsAssumption
  <2>6. run[w].validation # NoId
    BY <1>1, <2>4 DEF CallsTyped, WorkerTyped
  <2>7. WorkerTyped(call'[w], q, Len(records))
    BY <1>9, <2>5, <2>6, TurnCallTyped DEF WorkerTyped
  <2> QED
    BY <1>2, <2>2, <2>4, <2>5, <2>7, ActorMoves
<1>10. ASSUME NEW w \in Reviewers, Finish(w) \/ AgentStopped(w) PROVE Goal
  <2>1. /\ DOMAIN call' = Actors /\ call'[w] = NoCall
        /\ \A b \in Actors \ {w} : call'[b] = call[b]
    BY <1>1, <1>2, <1>10 DEF Finish, AgentStopped, Returns, Calls
  <2>2. PICK q \in {run[w], NoRun, [run[w] EXCEPT !.reselected = @ + 1]} :
          run' = [run EXCEPT ![w] = q]
    <3>1. \/ run' = run \/ Ends(w) \/ run' = [run EXCEPT ![w].reselected = @ + 1]
      BY <1>10 DEF Finish, AgentStopped, PlanFinish, SREFinish, RetryFinish, WindowFinish,
                   RollbackFinish, ReselectFinish, GateFinish
    <3>2. run = [run EXCEPT ![w] = run[w]]
      BY <1>1
    <3> QED
      BY <3>1, <3>2 DEF Ends
  <2>3. run[w] \in RunRecord(Len(records)) /\ call[w].stage # "none"
    BY <1>1, <1>10 DEF Finish, AgentStopped, PlanFinish, SREFinish, RetryFinish, WindowFinish,
                       RollbackFinish, ReselectFinish, GateFinish
  <2>4. q \in RunRecord(Len(records)) /\ (q # NoRun => q.validation = run[w].validation)
    BY <1>3, <2>2, <2>3 DEF RunRecord
  <2>5. run[w].validation # NoId
    BY <1>1, <2>3 DEF CallsTyped, WorkerTyped, NoCall
  <2>6. WorkerTyped(call'[w], q, Len(records))
    BY <2>1, <2>4, <2>5 DEF WorkerTyped, NoCall, NoRun
  <2> QED
    BY <1>2, <2>1, <2>2, <2>4, <2>6, ActorMoves
<1>11. CASE Tick \/ Show \/ (\E f \in Findings : AddFinding(f) \/ Assign(f)) \/ UNCHANGED vars
  BY <1>4, <1>11 DEF Tick, Show, AddFinding, Assign, vars
<1> QED
  BY <1>5, <1>6, <1>7, <1>8, <1>9, <1>10, <1>11 DEF Next

\* Every step keeps the types.
LEMMA NextTyped == ASSUME Typed, [Next]_vars PROVE Typed' /\ Extends
<1>1. TypeOK /\ IsList(records) /\ StoredTyped
  BY DEF Typed
<1>2. /\ Extends /\ case' \in Case /\ reworked' \in BOOLEAN
      /\ case.findings \subseteq case'.findings /\ StoredTyped'
      /\ \A n \in RecordNames \ {"finding_id", "risk_assessment_id"} :
           case'.record_ids[n] \in 0..Len(records')
  <2>1. CASE case' = case /\ reworked' = reworked /\ records' = records
    BY <1>1, <2>1, SameList DEF TypeOK, StoredTyped
  <2> QED
    BY <2>1, NextStores, StoreTyped
<1>3. CallsTyped' /\ run' \in [Reviewers -> RunRecord(Len(records'))]
  BY <1>2, NextCalls
<1>4. now' \in 0..MaxTime
  <2>1. now' = now \/ Tick
    BY DEF Next, vars, AddFinding, Assign, ValidateBegin, ValidateFinish, Start, Turn,
           Finish, AgentStopped, Raises, Show, DecideBegin, DecideFinish
  <2> QED
    BY <1>1, <2>1 DEF TypeOK, Tick, BoundsAssumption
<1>5. assigned' \subseteq case'.findings
  <2>1. \/ assigned' = assigned
        \/ \E f \in case.findings : assigned' = assigned \cup {f}
    BY DEF Next, vars, Tick, AddFinding, Assign, ValidateBegin, ValidateFinish, Start, Turn,
           Finish, AgentStopped, Raises, Show, DecideBegin, DecideFinish
  <2> QED
    BY <1>1, <1>2, <2>1 DEF TypeOK
<1>6. shown' \in 0..Len(records')
  <2>1. shown' \in {shown, case.record_ids["human_review_package_id"]}
    BY DEF Next, vars, Tick, AddFinding, Assign, ValidateBegin, ValidateFinish, Start, Turn,
           Finish, AgentStopped, Raises, Show, DecideBegin, DecideFinish
  <2>2. "human_review_package_id" \in RecordNames \ {"finding_id", "risk_assessment_id"}
    BY DEF RecordNames
  <2> QED
    BY <1>1, <1>2, <2>1, <2>2 DEF TypeOK, Extends
<1> QED
  BY <1>2, <1>3, <1>4, <1>5, <1>6 DEF Typed, TypeOK, Extends, RunRecord

\* The instance repeats the definitions of Cases; each is the one used here.
LEMMA SameCases ==
  /\ Life!Transitions = Transitions /\ Life!NoId = NoId
  /\ \A c, r : /\ Life!Permits(c, r) <=> Permits(c, r)
               /\ Life!Apply(c, r) = Apply(c, r)
  /\ \A t : Life!Attached(t) = Attached(t)
  /\ Life!StageTyped <=>
       IF case.state = "blocked" THEN case.blocked_from \in ActiveStates \ {"blocked"}
                                 ELSE case.blocked_from = NoState
<1>1. Life!Transitions = Transitions
  BY DEF Life!Transitions, Transitions, Life!Target, Target
<1>2. \A c, r : Life!Permits(c, r) <=> Permits(c, r)
  BY DEF Life!Permits, Permits, Life!Sources, Sources, Life!ActiveStates, ActiveStates,
         Life!ReopenStates, ReopenStates, Life!RequiredRecord, RequiredRecord, Life!NoId,
         NoId, Life!NoState, NoState
<1>3. \A c, r : Life!Apply(c, r) = Apply(c, r)
  BY DEF Life!Apply, Apply, Life!StateAfter, StateAfter, Life!BlockedFromAfter,
         BlockedFromAfter, Life!Reopens, Reopens, Life!ReopenStates, ReopenStates,
         Life!Target, Target, Life!PlanAfter, PlanAfter, Life!WindowAfter, WindowAfter,
         Life!OrElse, OrElse, Life!RecordsAfter, RecordsAfter, Life!RecordNames,
         RecordNames, Life!Withdrawn, Withdrawn, Life!NoId, NoId, Life!NoState, NoState
<1>4. \A t : Life!Attached(t) = Attached(t)
  BY DEF Life!Attached, Attached, Life!RequiredRecord, RequiredRecord
<1>5. Life!StageTyped <=>
        IF case.state = "blocked" THEN case.blocked_from \in ActiveStates \ {"blocked"}
                                  ELSE case.blocked_from = NoState
  BY DEF Life!StageTyped, Life!ActiveStates, ActiveStates, Life!ReopenStates, ReopenStates,
         Life!NoState, NoState
<1> QED
  BY <1>1, <1>2, <1>3, <1>4, <1>5 DEF Life!NoId, NoId

\* A store keeps the evidence in order, whoever stores and whatever it has read: the id of
\* a new record is the next of the list, and no other evidence is ever attached.
LEMMA StoreEvidence ==
  ASSUME Shared, NEW t \in Used, NEW names \in Attached(t), NEW id \in Nat,
         NEW adds \in SUBSET Findings, NEW value \in Nat, Stores(t, names, id, adds, value)
  PROVE  Life!EvidenceInOrder' /\ Life!SupersededEvidenceGone'
<1>1. PICK r : r = Request(t, [n \in names |-> id], adds, value)
  OBVIOUS
<1>2. Permits(case, r) /\ case' = Apply(case, r)
  BY <1>1 DEF Stores, Advance
<1>3. Typed /\ TypeOK /\ StoredTyped /\ Len(records) \in Nat
  BY OneMore DEF Shared, Typed
<1>4. PICK new \in Nat : new = Len(records) + 1
  BY <1>3
<1>5. Life!NewerThanAll(new)
  <2>1. Life!Evidence \subseteq RecordNames \ {"finding_id", "risk_assessment_id"}
    BY DEF Life!Evidence, RecordNames
  <2> QED
    BY <1>3, <1>4, <2>1 DEF Life!NewerThanAll, TypeOK, StoredTyped
<1>6. Life!AttachesNew(t, r, new)
  <2>1. /\ r.transition = t /\ DOMAIN r.records = names
        /\ \A n \in names : r.records[n] = id
        /\ r.change_plan = (IF t = "prepare_plan" THEN value ELSE NoId)
        /\ r.change_window = (IF t = "select_window" THEN value ELSE NoId)
    BY <1>1 DEF Request
  <2>2. \/ id = new /\ value = new
        \/ t \in {"add_finding", "retry_sre", "reselect_window"}
    BY <1>4 DEF Stores
  <2>3. t \in {"add_finding", "retry_sre", "reselect_window"} =>
          names \cap Life!Evidence = {}
    BY DEF Attached, RequiredRecord, Life!Evidence
  <2> QED
    BY <2>1, <2>2, <2>3, SameCases DEF Life!AttachesNew
<1>7. Life!StageTyped /\ t \in Life!Transitions
  BY <1>3, SameCases DEF StoredTyped, Used, Transitions, Target
<1>8. Life!Permits(case, r) /\ case' = Life!Apply(case, r)
  BY <1>2, SameCases
<1> QED
  BY <1>5, <1>6, <1>7, <1>8, Life!RequestEvidence DEF Shared

\* Planning never meets feedback it refuses: a case that is validated has none, unless a
\* rework gave it the review that asks for one.
LEMMA StoreFeedback ==
  ASSUME Shared, Extends, NEW t \in Used, NEW names \in Attached(t), NEW id \in Nat,
         NEW adds \in SUBSET Findings, NEW value \in Nat, Stores(t, names, id, adds, value)
  PROVE  FeedbackFits'
<1>1. Typed /\ TypeOK /\ FeedbackFits /\ Len(records) \in Nat /\ IsList(records)
  BY OneMore DEF Shared, Typed
<1>2. Moves(t, names, id)
  BY AttachedNames, AdvanceMoves DEF Stores
<1>3. "review_feedback_id" \in RecordNames \ {"finding_id", "risk_assessment_id"}
  BY DEF RecordNames
<1>4. /\ case.state \in Sources[t] /\ case'.state = StateAfter(case, t)
      /\ case'.record_ids["review_feedback_id"] =
           IF "review_feedback_id" \in names THEN id
           ELSE IF "review_feedback_id" \in Withdrawn(case, t) THEN NoId
           ELSE case.record_ids["review_feedback_id"]
  BY <1>2, <1>3 DEF Moves
<1>5. case.record_ids["review_feedback_id"] \in 0..Len(records)
  BY <1>1, <1>3 DEF TypeOK
<1>6. CASE t = "request_rework"
  <2>1. PICK record : records' = Append(records, record) /\ id = Len(records) + 1
                      /\ record.type = "RollbackReview.v1" /\ record.changes
    BY <1>6 DEF Stores
  <2>2. records'[id] = record
    BY <1>1, <2>1, OneMore
  <2>3. case'.state = "validated" /\ case'.record_ids["review_feedback_id"] = id
    BY <1>4, <1>6 DEF StateAfter, Reopens, Target, Attached, RequiredRecord
  <2> QED
    BY <2>1, <2>2, <2>3 DEF FeedbackFits, FeedbackNeverStalls, FeedbackUsable, Named
<1>7. CASE t = "validate"
  <2>1. /\ case.state = "prioritized"
        /\ case'.record_ids["review_feedback_id"] = case.record_ids["review_feedback_id"]
        /\ case'.state = "validated"
    BY <1>4, <1>7 DEF Sources, StateAfter, Reopens, Target, Attached, RequiredRecord, Withdrawn
  <2> QED
    BY <1>1, <2>1 DEF FeedbackFits, FeedbackNeverStalls, FeedbackUsable, Has
<1>8. CASE t = "add_finding"
  <2>1. CASE Reopens(case, t)
    <3>1. /\ case'.record_ids["review_feedback_id"] = NoId /\ case'.state = "prioritized"
      BY <1>4, <1>8, <2>1 DEF StateAfter, Attached, RequiredRecord, Withdrawn, Target
    <3> QED
      BY <3>1 DEF FeedbackFits, FeedbackNeverStalls, Has
  <2>2. CASE ~Reopens(case, t)
    <3>1. /\ case'.record_ids["review_feedback_id"] = case.record_ids["review_feedback_id"]
          /\ case'.state = case.state /\ case.state # "validated"
      BY <1>4, <1>8, <2>2
      DEF StateAfter, Attached, RequiredRecord, Withdrawn, Reopens, ReopenStates, Target
    <3> QED
      BY <1>1, <3>1 DEF FeedbackFits, FeedbackNeverStalls, Has
  <2> QED
    BY <2>1, <2>2
<1>9. CASE t \notin {"request_rework", "validate", "add_finding"}
  <2>1. case'.state \notin {"prioritized", "validated"}
    BY <1>4, <1>9 DEF StateAfter, Reopens, Target, Used
  <2> QED
    BY <2>1 DEF FeedbackFits, FeedbackNeverStalls
<1> QED
  BY <1>6, <1>7, <1>8, <1>9

\* The parts the shared invariant is made of go on together.
LEMMA NextShared == Shared /\ [Next]_vars => Shared'
<1> SUFFICES ASSUME Shared, [Next]_vars PROVE Shared'
  OBVIOUS
<1>1. Typed' /\ Extends
  BY NextTyped DEF Shared
<1>2. CASE case' = case /\ reworked' = reworked /\ records' = records
  <2>1. Life!EvidenceInOrder' /\ Life!SupersededEvidenceGone'
    BY <1>2 DEF Shared, Life!EvidenceInOrder, Life!SupersededEvidenceGone, Life!Newer,
                Life!Stage
  <2>2. FeedbackFits'
    BY <1>2 DEF Shared, FeedbackFits, FeedbackNeverStalls, FeedbackUsable, Has, Named
  <2> QED
    BY <1>1, <2>1, <2>2 DEF Shared
<1>3. ASSUME NEW t \in Used, NEW adds \in SUBSET Findings, NEW id \in Nat, NEW value \in Nat,
             NEW names \in Attached(t), Stores(t, names, id, adds, value)
      PROVE  Shared'
  BY <1>1, <1>3, StoreEvidence, StoreFeedback DEF Shared
<1> QED
  BY <1>2, <1>3, NextStores DEF Shared

\* The two kinds of case there are in the beginning.
LEMMA InitShared == Init => Shared
<1> SUFFICES ASSUME Init
             PROVE  Shared
  OBVIOUS
<1>1. PICK f \in Plannable :
        LET opened == [OpenCase({f}) EXCEPT !.state = "prioritized", !.version = 1,
                                            !.priority = 1,
                                            !.record_ids["risk_assessment_id"] = 1]
        IN
        /\ assigned = {f}
        /\ \/ case = opened /\ records = <<>>
           \/ /\ records = <<Validation({f}, {f}), Plan(1, {f}), SREReview(2, "approve", FALSE)>>
              /\ case = [opened EXCEPT !.state = "sre_approved", !.version = 4,
                                       !.change_plan = 2,
                                       !.record_ids["validation_result_id"] = 1,
                                       !.record_ids["iac_link_id"] = 2,
                                       !.record_ids["change_plan_id"] = 2,
                                       !.record_ids["sre_review_id"] = 3]
  BY DEF Init
<1> DEFINE opened == [OpenCase({f}) EXCEPT !.state = "prioritized", !.version = 1,
                                           !.priority = 1,
                                           !.record_ids["risk_assessment_id"] = 1]
<1>2. /\ now = 0 /\ reworked = FALSE /\ shown = NoId
      /\ call = [a \in Actors |-> NoCall] /\ run = [w \in Reviewers |-> NoRun]
  BY DEF Init
<1>3. f \in Findings
  BY DEF PlannableAssumption
<1>4. /\ opened \in Case /\ opened.state = "prioritized" /\ opened.findings = {f}
      /\ opened.change_plan = NoId /\ opened.change_window = NoId
      /\ opened.blocked_from = NoState
      /\ \A n \in RecordNames \ {"risk_assessment_id"} : opened.record_ids[n] = NoId
      /\ opened.record_ids \in [RecordNames -> Nat]
  BY <1>3 DEF OpenCase, NoRecords, Case, CaseStates, ActiveStates, NoState, NoId
<1>5. \A n \in Nat : /\ run \in [Reviewers -> RunRecord(n)]
                     /\ \A w \in Reviewers : WorkerTyped(call[w], run[w], n)
  BY <1>2 DEF RunRecord, WorkerTyped, NoRun, NoCall, NoId, Actors, BoundsAssumption
<1>6. /\ DOMAIN call = Actors /\ call[Validator].stage = "none"
      /\ call[Person].stage = "none"
  BY <1>2 DEF NoCall, Actors
<1>7. ASSUME IsList(records), case \in Case, case.findings = {f}, StoredTyped,
             \A n \in RecordNames \ {"finding_id", "risk_assessment_id"} :
               case.record_ids[n] \in 0..Len(records)
      PROVE  Typed
  <2>1. Len(records) \in Nat
    BY <1>7, OneMore
  <2>2. CallsTyped
    BY <1>5, <1>6, <2>1 DEF CallsTyped
  <2>3. run \in [Reviewers -> [scope : SUBSET Plannable, validation : 0..Len(records),
                               used : 0..Iterations, reselected : Nat]]
    BY <1>5, <2>1 DEF RunRecord
  <2>4. now \in 0..MaxTime /\ shown \in 0..Len(records)
    BY <1>2, <2>1 DEF NoId, BoundsAssumption
  <2>5. TypeOK
    BY <1>1, <1>2, <1>7, <2>3, <2>4 DEF TypeOK
  <2> QED
    BY <1>7, <2>2, <2>5 DEF Typed
<1>8. CASE case = opened /\ records = <<>>
  <2> HIDE DEF opened
  <2>1. Len(records) = 0 /\ IsList(records)
    <3>1. records \in Seq({}) /\ Len(records) = 0
      BY <1>8, EmptySeq
    <3> QED
      BY <3>1 DEF IsList
  <2>2. StoredTyped
    BY <1>4, <1>8, <2>1 DEF StoredTyped, NoId
  <2>3. \A n \in RecordNames \ {"finding_id", "risk_assessment_id"} :
          case.record_ids[n] \in 0..Len(records)
    BY <1>4, <1>8, <2>1 DEF NoId
  <2>4. Typed
    BY <1>4, <1>7, <1>8, <2>1, <2>2, <2>3
  <2>5. Life!EvidenceInOrder /\ Life!SupersededEvidenceGone
    BY <1>4, <1>8
    DEF Life!EvidenceInOrder, Life!SupersededEvidenceGone, Life!Stage, Life!Planned,
        Life!SreReviewed, Life!Windowed, Life!RolledReady, Life!Packaged, Life!Approved,
        Life!Executing, Life!NoId, NoId, RecordNames
  <2>6. FeedbackFits
    BY <1>4, <1>8 DEF FeedbackFits, FeedbackNeverStalls, Has, RecordNames
  <2> QED
    BY <2>4, <2>5, <2>6 DEF Shared
<1>9. CASE /\ records = <<Validation({f}, {f}), Plan(1, {f}), SREReview(2, "approve", FALSE)>>
           /\ case = [opened EXCEPT !.state = "sre_approved", !.version = 4,
                                    !.change_plan = 2,
                                    !.record_ids["validation_result_id"] = 1,
                                    !.record_ids["iac_link_id"] = 2,
                                    !.record_ids["change_plan_id"] = 2,
                                    !.record_ids["sre_review_id"] = 3]
  <2>1. Len(records) = 3 /\ IsList(records)
    <3>1. records \in Seq({Validation({f}, {f}), Plan(1, {f}), SREReview(2, "approve", FALSE)})
      BY <1>9
    <3> QED
      BY <1>9, <3>1 DEF IsList
  <2> HIDE DEF opened
  <2>2. /\ case \in Case /\ case.state = "sre_approved" /\ case.findings = {f}
        /\ case.change_plan = 2 /\ case.change_window = NoId /\ case.blocked_from = NoState
        /\ case.record_ids = [n \in RecordNames |->
                                IF n = "validation_result_id" THEN 1
                                ELSE IF n \in {"iac_link_id", "change_plan_id"} THEN 2
                                ELSE IF n = "sre_review_id" THEN 3
                                ELSE opened.record_ids[n]]
    BY <1>4, <1>9 DEF Case, CaseStates, ActiveStates, ReopenStates
  <2>3. /\ case.record_ids["change_plan_id"] = 2 /\ case.record_ids["iac_link_id"] = 2
        /\ case.record_ids["sre_review_id"] = 3
        /\ \A n \in {"change_window_id", "policy_decision_id", "human_review_package_id",
                     "approval_id", "schedule_id"} : case.record_ids[n] = NoId
        /\ \A n \in RecordNames \ {"finding_id", "risk_assessment_id"} :
             case.record_ids[n] \in 0..Len(records)
    BY <1>4, <2>1, <2>2 DEF RecordNames, NoId
  <2>4. StoredTyped
    BY <2>1, <2>2 DEF StoredTyped, NoId
  <2>5. Typed
    BY <1>7, <2>1, <2>2, <2>3, <2>4
  <2>6. Life!EvidenceInOrder /\ Life!SupersededEvidenceGone
    BY <2>2, <2>3
    DEF Life!EvidenceInOrder, Life!SupersededEvidenceGone, Life!Newer, Life!Stage,
        Life!Planned, Life!SreReviewed, Life!Windowed, Life!RolledReady, Life!Packaged,
        Life!Approved, Life!Executing, Life!NoId, NoId
  <2>7. FeedbackFits
    BY <2>2 DEF FeedbackFits, FeedbackNeverStalls
  <2> QED
    BY <2>5, <2>6, <2>7 DEF Shared
<1> QED
  BY <1>1, <1>8, <1>9

\* With any number of review workers, the shared invariant holds in every reachable state.
LEMMA SharedInvariance == Spec => []Shared
BY InitShared, NextShared, PTL DEF Spec

\* The case keeps its type, names only records there are, and its finding store assigns no
\* finding the case does not have, whatever number of workers review it.
THEOREM TypeCorrect == Spec => []TypeOK
<1>1. Shared => TypeOK
  BY DEF Shared, Typed
<1> QED
  BY <1>1, SharedInvariance, PTL

\* RemediationPlanningService.prepare never refuses the feedback of a validated case.
THEOREM Feedback == Spec => []FeedbackNeverStalls
<1>1. Shared => FeedbackNeverStalls
  BY DEF Shared, FeedbackFits
<1> QED
  BY <1>1, SharedInvariance, PTL

\* The services between triage and decision decide on what they read earlier, several
\* workers at a time; still the evidence a stage of the case relies on is attached and was
\* produced in the order of the pipeline (ApprovalService.approve indexes these records).
THEOREM EvidenceOrder == Spec => []Life!EvidenceInOrder
<1>1. Shared => Life!EvidenceInOrder
  BY DEF Shared
<1> QED
  BY <1>1, SharedInvariance, PTL

\* No transition back leaves an artifact of a stage it undid on the case, whichever worker
\* takes it and whichever others are at work.
THEOREM SupersededWithdrawn == Spec => []Life!SupersededEvidenceGone
<1>1. Shared => Life!SupersededEvidenceGone
  BY DEF Shared
<1> QED
  BY <1>1, SharedInvariance, PTL

------------------------------------------------------------------------------
(***************************************************************************)
(* The turns of a loop                                                     *)
(***************************************************************************)
\* The turns to the gate, and the turns that a rework, a reselection and a retry add.
Distance ==
  CASE case.state = "validated" -> 5
    [] case.state = "plan_ready" -> 4
    [] case.state = "sre_approved" -> 3
    [] case.state = "window_selected" -> 2
    [] case.state = "rollback_ready" -> 1
    [] OTHER -> 0

Detours(w) ==
  IF case.state \in PreapprovalStates
  THEN (IF reworked THEN 0 ELSE 4) + (IF run[w].reselected = 0 THEN 3 ELSE 0)
       + (IF Refused THEN 3 ELSE 0)
  ELSE 0

SameValidation(w) ==
  /\ run[w].validation # NoId
  /\ run[w].validation = case.record_ids["validation_result_id"]

\* The turns a loop has used and those it still needs are within thirteen, the turn of the
\* call under way not counted.
LoopWithin(w) ==
  SameValidation(w) /\ run[w].reselected < 2 =>
    run[w].used + Distance + Detours(w) <= IF call[w] = NoCall THEN 13 ELSE 14

\* A retry under way pays for the turns it adds: the refused approval is still there.
RetryIsDue(w) ==
  call[w].stage = "retry" /\ case.state \in {"sre_approved", "window_selected"} => Refused

InTime(w) == RetryIsDue(w) /\ LoopWithin(w)

\* No review is left from before the plan it will be about.
NoReviewYet ==
  case.state \in {"prioritized", "validated", "plan_ready"} => ~Has("sre_review_id")

IInv == Shared /\ NoReviewYet /\ \A w \in Reviewers : InTime(w)

\* Whoever stores, a case that has yet to be reviewed has no review.
LEMMA NextNoReview == ASSUME Shared, NoReviewYet, [Next]_vars PROVE NoReviewYet'
<1>1. CASE case' = case
  BY <1>1 DEF NoReviewYet, Has
<1>2. ASSUME NEW t \in Used, NEW adds \in SUBSET Findings, NEW id \in Nat, NEW value \in Nat,
             NEW names \in Attached(t), Stores(t, names, id, adds, value)
      PROVE  NoReviewYet'
  <2>1. Moves(t, names, id)
    BY <1>2, AttachedNames, AdvanceMoves DEF Stores
  <2>2. "sre_review_id" \in RecordNames
    BY DEF RecordNames
  <2>3. /\ case.state \in Sources[t] /\ case'.state = StateAfter(case, t)
        /\ case'.record_ids["sre_review_id"] =
             IF "sre_review_id" \in names THEN id
             ELSE IF "sre_review_id" \in Withdrawn(case, t) THEN NoId
             ELSE case.record_ids["sre_review_id"]
    BY <2>1, <2>2 DEF Moves
  <2>4. CASE t = "add_finding"
    <3>1. CASE Reopens(case, t)
      BY <2>3, <2>4, <3>1 DEF Attached, RequiredRecord, Withdrawn, NoReviewYet, Has
    <3>2. CASE ~Reopens(case, t)
      BY <2>3, <2>4, <3>2
      DEF Attached, RequiredRecord, Withdrawn, StateAfter, Target, NoReviewYet, Has
    <3> QED
      BY <3>1, <3>2
  <2>5. CASE t \in {"retry_sre", "request_rework"}
    BY <2>3, <2>5, Going DEF Attached, RequiredRecord, NoReviewYet, Has
  <2>6. CASE t \in {"validate", "prepare_plan"}
    BY <2>3, <2>6, Table DEF Attached, RequiredRecord, NoReviewYet, Has
  <2>7. CASE t \notin {"add_finding", "retry_sre", "request_rework", "validate",
                       "prepare_plan"}
    BY <2>3, <2>7, Table DEF Used, NoReviewYet
  <2> QED
    BY <2>4, <2>5, <2>6, <2>7
<1> QED
  BY <1>1, <1>2, NextStores DEF Shared

\* What a loop counts.
LEMMA LoopBounds ==
  ASSUME Typed, NEW w \in Reviewers
  PROVE  /\ run[w].used \in Nat /\ run[w].reselected \in Nat /\ run[w].validation \in Nat
         /\ run[w].validation <= Len(records) /\ Len(records) \in Nat
         /\ Distance \in 0..5 /\ Detours(w) \in 0..10
<1>1. Len(records) \in Nat
  BY OneMore DEF Typed
<1>2. run[w].used \in Nat /\ run[w].reselected \in Nat /\ run[w].validation \in 0..Len(records)
  BY DEF Typed, TypeOK, BoundsAssumption
<1>3. Distance \in 0..5 /\ Detours(w) \in 0..10
  BY DEF Distance, Detours
<1> QED
  BY <1>1, <1>2, <1>3

------------------------------------------------------------------------------
(***************************************************************************)
(* The steps that leave a loop alone, and those that end its work          *)
(***************************************************************************)
\* The loop goes on as it was or has ended.
OnOrEnded(w) ==
  \/ run'[w] = run[w] /\ call'[w] = call[w]
  \/ run'[w] = NoRun /\ call'[w] = NoCall

\* A step that leaves the case and its records alone.
LEMMA StillInTime ==
  ASSUME NEW w \in Reviewers, InTime(w), OnOrEnded(w), UNCHANGED <<case, reworked, records>>
  PROVE  InTime(w)'
<1>1. Refused' = Refused /\ Distance' = Distance
  BY DEF Refused, Has, Named, Distance
<1>2. CASE run'[w] = run[w] /\ call'[w] = call[w]
  <2>1. Detours(w)' = Detours(w) /\ (SameValidation(w)' <=> SameValidation(w))
    BY <1>1, <1>2 DEF Detours, SameValidation
  <2> QED
    BY <1>1, <1>2, <2>1 DEF InTime, RetryIsDue, LoopWithin
<1>3. CASE run'[w] = NoRun /\ call'[w] = NoCall
  BY <1>3 DEF InTime, RetryIsDue, LoopWithin, SameValidation, NoRun, NoCall
<1> QED
  BY <1>2, <1>3 DEF OnOrEnded

\* The case is taken out of the review, or back to its beginning with a new validation.
Aside ==
  /\ case'.record_ids["validation_result_id"] \in
       {NoId, case.record_ids["validation_result_id"], Len(records) + 1}
  /\ \/ case'.state \notin PreapprovalStates
     \/ /\ case'.state = "validated"
        /\ case'.record_ids["validation_result_id"] = Len(records) + 1

\* What is left of a loop then is what it has used.
LEMMA AsideInTime ==
  ASSUME Shared, NEW w \in Reviewers, InTime(w), OnOrEnded(w), Aside
  PROVE  InTime(w)'
<1>1. RetryIsDue(w)'
  BY DEF Aside, RetryIsDue, PreapprovalStates
<1>2. LoopWithin(w)'
  <2> SUFFICES ASSUME SameValidation(w)', run'[w].reselected < 2
               PROVE  run'[w].used + Distance' + Detours(w)'
                        <= IF call'[w] = NoCall THEN 13 ELSE 14
    BY DEF LoopWithin
  <2>1. run'[w] = run[w] /\ call'[w] = call[w]
    BY DEF OnOrEnded, SameValidation, NoRun
  <2>2. /\ run[w].used \in Nat /\ run[w].validation \in Nat
        /\ run[w].validation <= Len(records) /\ Len(records) \in Nat
        /\ Distance \in 0..5 /\ Detours(w) \in 0..10
    BY LoopBounds DEF Shared
  <2>3. SameValidation(w) /\ case'.state \notin PreapprovalStates
    <3>1. run[w].validation # NoId
          /\ run[w].validation = case'.record_ids["validation_result_id"]
      BY <2>1 DEF SameValidation
    <3>2. run[w].validation # Len(records) + 1
      BY <2>2
    <3> QED
      BY <3>1, <3>2 DEF SameValidation, Aside
  <2>4. run[w].used + Distance + Detours(w) <= IF call[w] = NoCall THEN 13 ELSE 14
    BY <2>1, <2>3 DEF InTime, LoopWithin
  <2>5. Distance' = 0 /\ Detours(w)' = 0
    BY <2>3 DEF Distance, Detours, PreapprovalStates
  <2>6. run[w].used <= IF call[w] = NoCall THEN 13 ELSE 14
    BY <2>2, <2>4
  <2>7. run'[w].used + Distance' + Detours(w)' = run[w].used
    BY <2>1, <2>2, <2>5
  <2> QED
    BY <2>1, <2>6, <2>7
<1> QED
  BY <1>1, <1>2 DEF InTime

\* The transitions that put a case aside.
LEMMA MovesAside ==
  ASSUME NEW t \in {"add_finding", "approve_change", "validate", "block", "close_no_action",
                    "reject"},
         NEW names \in Attached(t), NEW id, Moves(t, names, id),
         t # "add_finding" => id = Len(records) + 1
  PROVE  Aside
<1>1. "validation_result_id" \in RecordNames
  BY DEF RecordNames
<1>2. /\ case.state \in Sources[t] /\ case'.state = StateAfter(case, t)
      /\ case'.record_ids["validation_result_id"] =
           IF "validation_result_id" \in names THEN id
           ELSE IF "validation_result_id" \in Withdrawn(case, t) THEN NoId
           ELSE case.record_ids["validation_result_id"]
  BY <1>1 DEF Moves
<1>3. CASE t = "add_finding"
  <2>1. names = {"finding_id"}
    BY <1>3 DEF Attached, RequiredRecord
  <2>2. case'.state \notin PreapprovalStates
    BY <1>2, <1>3 DEF StateAfter, Reopens, ReopenStates, Target, PreapprovalStates
  <2> QED
    BY <1>2, <2>1, <2>2 DEF Aside
<1>4. CASE t = "validate"
  <2>1. names = {"validation_result_id"}
    BY <1>4 DEF Attached, RequiredRecord
  <2> QED
    BY <1>2, <1>4, <2>1, Table DEF Aside
<1>5. CASE t \in {"approve_change", "block", "close_no_action", "reject"}
  <2>1. case'.state \notin PreapprovalStates
    BY <1>2, <1>5, Table DEF PreapprovalStates
  <2> QED
    BY <1>2, <1>5, <2>1 DEF Aside
<1> QED
  BY <1>3, <1>4, <1>5

\* A record that puts the case aside.
LEMMA PutAside ==
  ASSUME Shared, NEW t \in {"approve_change", "validate", "block", "close_no_action", "reject"},
         NEW names \in Attached(t), NEW record, PutAndAdvance(record, t, names)
  PROVE  Aside
<1>1. t \in Used \ {"add_finding"} /\ names \in SUBSET RecordNames
  BY AttachedNames DEF Used
<1>2. Moves(t, names, Len(records) + 1)
  BY <1>1, PutMoves DEF Shared, Typed
<1>3. PICK id : id = Len(records) + 1
  OBVIOUS
<1>4. Moves(t, names, id)
  BY <1>2, <1>3 DEF Moves
<1> QED
  BY <1>3, <1>4, MovesAside

\* The clock, intake, the validator and the person.
Others ==
  \/ Tick \/ Show \/ ValidateBegin \/ ValidateFinish \/ DecideFinish
  \/ \E f \in Findings : AddFinding(f) \/ Assign(f)
  \/ \E verb \in {"approve", "reject"} : DecideBegin(verb)

\* They leave a loop in time.
LEMMA OthersInTime ==
  ASSUME Shared, NEW w \in Reviewers, InTime(w), Others
  PROVE  InTime(w)'
<1>1. OnOrEnded(w)
  <2>1. w \in Actors /\ w # Validator /\ w # Person
    BY DEF Actors, ActorsAssumption
  <2>2. \/ call' = call
        \/ \E c : Calls(Validator, c) \/ Calls(Person, c)
    BY DEF Others, Tick, Show, ValidateBegin, ValidateFinish, DecideBegin, DecideFinish,
           AddFinding, Assign, Returns
  <2>3. call'[w] = call[w]
    BY <2>1, <2>2 DEF Calls, Shared, Typed, CallsTyped
  <2>4. run' = run
    BY DEF Others, Tick, Show, ValidateBegin, ValidateFinish, DecideBegin, DecideFinish,
           AddFinding, Assign
  <2> QED
    BY <2>3, <2>4 DEF OnOrEnded
<1>2. CASE \/ Tick \/ Show \/ ValidateBegin
           \/ \E f \in Findings : Assign(f)
           \/ \E verb \in {"approve", "reject"} : DecideBegin(verb)
  <2>1. UNCHANGED <<case, reworked, records>>
    BY <1>2 DEF Tick, Show, ValidateBegin, Assign, DecideBegin
  <2> QED
    BY <1>1, <2>1, StillInTime
<1>3. ASSUME NEW f \in Findings, AddFinding(f) PROVE InTime(w)'
  <2>1. Advance(Request("add_finding", [n \in {"finding_id"} |-> 1], {f}, NoId))
    BY <1>3 DEF AddFinding
  <2>2. "add_finding" \in Used /\ {"finding_id"} \in SUBSET RecordNames /\ NoId \in Nat
        /\ {"finding_id"} \in Attached("add_finding")
    BY DEF Used, RecordNames, NoId, Attached, RequiredRecord
  <2>3. Moves("add_finding", {"finding_id"}, 1)
    BY <2>1, <2>2, AdvanceMoves
  <2> QED
    BY <1>1, <2>2, <2>3, MovesAside, AsideInTime
<1>4. CASE ValidateFinish
  <2>1. PICK confirmed \in SUBSET call[Validator].of,
             t \in {"validate", "block", "close_no_action"} :
          PutAndAdvance(Validation(call[Validator].of, confirmed), t,
                        {"validation_result_id"})
    BY <1>4 DEF ValidateFinish
  <2>2. {"validation_result_id"} \in Attached(t)
    BY DEF Attached, RequiredRecord
  <2> QED
    BY <1>1, <2>1, <2>2, PutAside, AsideInTime
<1>5. CASE DecideFinish
  <2>1. PICK t \in {"approve_change", "reject"} :
          \E names \in Attached(t) : PutAndAdvance(call[Person].record, t, names)
    BY <1>5 DEF DecideFinish, Attached, RequiredRecord
  <2> QED
    BY <1>1, <2>1, PutAside, AsideInTime
<1> QED
  BY <1>2, <1>3, <1>4, <1>5 DEF Others

\* A call that ends the loop leaves it without turns to count.
LEMMA EndedInTime ==
  ASSUME Typed, NEW w \in Reviewers, Returns(w), Ends(w)
  PROVE  InTime(w)'
<1>1. run'[w] = NoRun /\ call'[w] = NoCall
  BY DEF Returns, Calls, Ends, Typed, TypeOK, CallsTyped, Actors
<1> QED
  BY <1>1 DEF InTime, RetryIsDue, LoopWithin, SameValidation, NoRun, NoCall

\* So does a call that raises, which may be another actor's.
LEMMA RaisesInTime ==
  ASSUME Shared, NEW w \in Reviewers, InTime(w), NEW a \in Actors, Raises(a)
  PROVE  InTime(w)'
<1>1. w \in Actors /\ DOMAIN call = Actors /\ UNCHANGED <<case, reworked, records>>
  BY DEF Actors, Shared, Typed, CallsTyped, Raises
<1>2. CASE a = w
  BY <1>2, EndedInTime DEF Raises, Shared
<1>3. CASE a # w
  <2>1. call'[w] = call[w]
    BY <1>1, <1>3 DEF Raises, Returns, Calls
  <2>2. run'[w] = run[w]
    BY <1>3 DEF Raises, Ends, Shared, Typed, TypeOK
  <2> QED
    BY <1>1, <2>1, <2>2, StillInTime DEF OnOrEnded
<1> QED
  BY <1>2, <1>3

------------------------------------------------------------------------------
(***************************************************************************)
(* A reviewer starts and calls                                             *)
(***************************************************************************)
\* A loop starts with all its turns, and an approval it may have to retry.
LEMMA StartInTime ==
  ASSUME Shared, NoReviewYet, NEW w \in Reviewers, InTime(w), Start(w)
  PROVE  InTime(w)'
<1>1. UNCHANGED <<case, reworked, records, call>> /\ run[w] = NoRun
  BY DEF Start
<1>2. call[w] = NoCall /\ call'[w] = NoCall
  BY <1>1 DEF Shared, Typed, CallsTyped, WorkerTyped, NoRun
<1>3. run'[w].used = 0 /\ run'[w].reselected = 0
  BY DEF Start, Shared, Typed, TypeOK
<1>4. Refused' = Refused /\ Distance' = Distance
  BY <1>1 DEF Refused, Has, Named, Distance
<1>5. Refused => case.state \notin {"validated", "plan_ready"}
  BY DEF NoReviewYet, Refused
<1>6. /\ Detours(w)' <= IF Refused THEN 10 ELSE 7
      /\ Detours(w)' \in 0..10
  BY <1>1, <1>3, <1>4 DEF Detours
<1>7. /\ Distance <= IF Refused THEN 3 ELSE 5
      /\ Distance \in 0..5
  BY <1>5 DEF Distance
<1>8. run'[w].used + Distance' + Detours(w)' <= 13
  BY <1>3, <1>4, <1>6, <1>7
<1> QED
  BY <1>2, <1>8 DEF InTime, RetryIsDue, LoopWithin, NoCall

\* A turn is paid for by the turns left.
LEMMA TurnInTime ==
  ASSUME Shared, NEW w \in Reviewers, InTime(w), Turn(w)
  PROVE  InTime(w)'
<1>1. /\ UNCHANGED <<case, reworked, records>> /\ call[w] = NoCall /\ run[w] # NoRun
      /\ run' = [run EXCEPT ![w].used = @ + 1]
  BY DEF Turn, Running
<1>2. Typed
  BY DEF Shared
<1>3. /\ run'[w].used = run[w].used + 1 /\ run'[w].validation = run[w].validation
      /\ run'[w].reselected = run[w].reselected
  BY <1>1, <1>2 DEF Typed, TypeOK
<1>4. Refused' = Refused /\ Distance' = Distance /\ Detours(w)' = Detours(w)
      /\ (SameValidation(w)' <=> SameValidation(w))
  BY <1>1, <1>3 DEF Refused, Has, Named, Distance, Detours, SameValidation
<1>5. call'[w].stage # "none" /\ (call'[w].stage = "retry" => Refused)
  <2>1. w \in DOMAIN call
    BY <1>2 DEF Typed, CallsTyped, Actors
  <2> QED
    BY <2>1 DEF Turn, PlanBegin, SREBegin, RetryBegin, WindowBegin, RollbackBegin,
                ReselectBegin, GateBegin, Calls
<1>6. RetryIsDue(w)'
  BY <1>4, <1>5 DEF RetryIsDue
<1>7. SameValidation(w)' /\ run'[w].reselected < 2 =>
        run'[w].used + Distance' + Detours(w)' <= 14
  <2> SUFFICES ASSUME SameValidation(w)', run'[w].reselected < 2
               PROVE  run'[w].used + Distance' + Detours(w)' <= 14
    OBVIOUS
  <2>1. run[w].used + Distance + Detours(w) <= 13
    BY <1>1, <1>3, <1>4 DEF InTime, LoopWithin
  <2>2. PICK u \in Nat, d \in Nat, e \in Nat :
          u = run[w].used /\ d = Distance /\ e = Detours(w)
    BY <1>2, LoopBounds
  <2>3. u + d + e <= 13
    BY <2>1, <2>2
  <2>4. run'[w].used + Distance' + Detours(w)' = u + 1 + d + e
    BY <1>3, <1>4, <2>2
  <2> QED
    BY <2>3, <2>4
<1>8. call'[w] # NoCall
  BY <1>5 DEF NoCall
<1> QED
  BY <1>6, <1>7, <1>8 DEF InTime, LoopWithin

------------------------------------------------------------------------------
(***************************************************************************)
(* A reviewer's call returns                                               *)
(***************************************************************************)
\* What a loop counts on: the validation it began with and the SRE review.
Counted == {"validation_result_id", "sre_review_id"}

\* What the case names of them after an advance: nothing, or what it named.
ReadAfter(t, names) ==
  /\ case.state \in Sources[t] /\ case'.state = StateAfter(case, t)
  /\ reworked' = IF t = "request_rework" THEN TRUE ELSE reworked
  /\ \A n \in Counted \ names :
       IF n \in Withdrawn(case, t) THEN case'.record_ids[n] = NoId
       ELSE /\ case'.record_ids[n] = case.record_ids[n]
            /\ case'.record_ids[n] # NoId =>
                 records'[case'.record_ids[n]] = records[case.record_ids[n]]

\* It holds of a move.
LEMMA MovesRead ==
  ASSUME TypeOK, Extends, NEW t \in Used \ {"add_finding"}, NEW names, NEW id,
         Moves(t, names, id)
  PROVE  ReadAfter(t, names)
<1>1. /\ case.state \in Sources[t] /\ case'.state = StateAfter(case, t)
      /\ reworked' = IF t = "request_rework" THEN TRUE ELSE reworked
  BY DEF Moves, Used
<1>2. ASSUME NEW n \in Counted \ names
      PROVE  /\ n \in Withdrawn(case, t) => case'.record_ids[n] = NoId
             /\ n \notin Withdrawn(case, t) =>
                  /\ case'.record_ids[n] = case.record_ids[n]
                  /\ case'.record_ids[n] # NoId =>
                       records'[case'.record_ids[n]] = records[case.record_ids[n]]
  <2>1. n \in RecordNames \ {"finding_id", "risk_assessment_id"}
    BY DEF Counted, RecordNames
  <2>2. case.record_ids[n] \in 0..Len(records)
    BY <2>1 DEF TypeOK
  <2>3. case'.record_ids[n] = IF n \in Withdrawn(case, t) THEN NoId ELSE case.record_ids[n]
    BY <2>1 DEF Moves
  <2> QED
    BY <2>2, <2>3 DEF Extends, NoId
<1> QED
  BY <1>1, <1>2 DEF ReadAfter

\* Of a record that is put and attached, and of an advance that puts none.
LEMMA PutRead ==
  ASSUME Typed, NEW record, NEW t \in Used \ {"add_finding"},
         NEW names \in SUBSET RecordNames, PutAndAdvance(record, t, names)
  PROVE  /\ ReadAfter(t, names)
         /\ \A n \in names : records'[case'.record_ids[n]] = record
<1>1. /\ Moves(t, names, Len(records) + 1) /\ Extends
      /\ records'[Len(records) + 1] = record
  BY PutMoves DEF Typed
<1>2. PICK id : id = Len(records) + 1
  OBVIOUS
<1>3. Moves(t, names, id)
  BY <1>1, <1>2 DEF Moves
<1>4. ReadAfter(t, names)
  BY <1>1, <1>3, MovesRead DEF Typed
<1>5. \A n \in names : case'.record_ids[n] = id
  BY <1>3 DEF Moves
<1> QED
  BY <1>1, <1>2, <1>4, <1>5

\* The same of an advance by which nothing is put.
LEMMA AdvanceRead ==
  ASSUME Typed, NEW t \in Used \ {"add_finding"}, NEW names \in SUBSET RecordNames,
         NEW id \in Nat, Advance(Request(t, [n \in names |-> id], {}, NoId)),
         records' = records
  PROVE  ReadAfter(t, names)
<1>1. NoId \in Nat
  BY DEF NoId
<1>2. Moves(t, names, id)
  BY <1>1, AdvanceMoves
<1> QED
  BY <1>2, SameList, MovesRead DEF Typed

\* The run after a call that returns to the loop.
GoesOn(w, more) ==
  /\ call[w].stage # "none" /\ call'[w] = NoCall
  /\ run'[w].used = run[w].used /\ run'[w].validation = run[w].validation
  /\ run'[w].reselected = run[w].reselected + more

\* It is as it was, one reselection counted.
LEMMA RunGoesOn ==
  ASSUME Typed, NEW w \in Reviewers, call[w].stage # "none", Returns(w), NEW more \in {0, 1},
         \/ run' = run /\ more = 0
         \/ run' = [run EXCEPT ![w].reselected = @ + 1] /\ more = 1
  PROVE  GoesOn(w, more)
<1>1. call'[w] = NoCall
  BY DEF Typed, CallsTyped, Actors, Returns, Calls
<1>2. run \in [Reviewers -> RunRecord(Len(records))] /\ run[w].reselected \in Nat
  BY LoopBounds DEF Typed, TypeOK, RunRecord
<1>3. CASE run' = run /\ more = 0
  BY <1>1, <1>2, <1>3 DEF GoesOn
<1>4. CASE run' = [run EXCEPT ![w].reselected = @ + 1] /\ more = 1
  BY <1>1, <1>2, <1>4 DEF GoesOn, RunRecord
<1> QED
  BY <1>3, <1>4

\* A turn has come at least one nearer to the gate.
LEMMA TurnPays ==
  ASSUME Typed, NEW w \in Reviewers, InTime(w), NEW more \in {0, 1}, GoesOn(w, more),
         case'.record_ids["validation_result_id"] = case.record_ids["validation_result_id"],
         run'[w].reselected < 2 => Distance' + Detours(w)' + 1 <= Distance + Detours(w),
         Distance' \in Nat, Detours(w)' \in Nat
  PROVE  InTime(w)'
<1>1. RetryIsDue(w)'
  BY DEF GoesOn, RetryIsDue, NoCall
<1>2. LoopWithin(w)'
  <2> SUFFICES ASSUME SameValidation(w)', run'[w].reselected < 2
               PROVE  run'[w].used + Distance' + Detours(w)' <= 13
    BY DEF LoopWithin, GoesOn
  <2>1. run[w].used \in Nat /\ Distance \in 0..5 /\ Detours(w) \in 0..10
        /\ run[w].reselected \in Nat
    BY LoopBounds
  <2>2. SameValidation(w) /\ run[w].reselected < 2 /\ call[w] # NoCall
    BY <2>1 DEF SameValidation, NoCall, GoesOn
  <2>3. run[w].used + Distance + Detours(w) <= 14
    BY <2>2 DEF InTime, LoopWithin
  <2>4. PICK u \in Nat, d \in Nat, e \in Nat :
          u = run[w].used /\ d = Distance /\ e = Detours(w)
    BY <2>1
  <2>5. PICK d2 \in Nat, e2 \in Nat : d2 = Distance' /\ e2 = Detours(w)'
    OBVIOUS
  <2>6. u + d + e <= 14 /\ d2 + e2 + 1 <= d + e
    BY <2>3, <2>4, <2>5
  <2>7. run'[w].used + Distance' + Detours(w)' = u + d2 + e2
    BY <2>4, <2>5 DEF GoesOn
  <2> QED
    BY <2>6, <2>7
<1> QED
  BY <1>1, <1>2 DEF InTime

\* A plan is the first of five turns.
LEMMA PlanFinishInTime ==
  ASSUME Shared, NoReviewYet, NEW w \in Reviewers, InTime(w), PlanFinish(w), Returns(w)
  PROVE  InTime(w)'
<1> DEFINE t == "prepare_plan"
           names == {"change_plan_id", "iac_link_id"}
<1>1. /\ t \in Used \ {"add_finding"} /\ names \in SUBSET RecordNames
      /\ PutAndAdvance(Plan(call[w].validation, call[w].scope), t, names)
  BY DEF Used, RecordNames, PlanFinish
<1>2. Typed /\ ReadAfter(t, names)
  BY <1>1, PutRead DEF Shared
<1>3. /\ case.state = "validated" /\ case'.state = "plan_ready" /\ reworked' = reworked
      /\ \A n \in Counted : case'.record_ids[n] = case.record_ids[n]
  BY <1>2, Table DEF ReadAfter, Counted
<1>4. ~Refused /\ ~Refused'
  BY <1>3 DEF NoReviewYet, Refused, Has, Counted
<1>5. GoesOn(w, 0)
  BY <1>2, RunGoesOn DEF PlanFinish
<1>6. /\ Distance' = 4 /\ Distance = 5 /\ Detours(w)' = Detours(w) /\ Detours(w) \in Nat
  <2>1. run'[w].reselected = run[w].reselected
    BY <1>2, <1>5, LoopBounds DEF GoesOn
  <2> QED
    BY <1>3, <1>4, <2>1 DEF Distance, Detours, PreapprovalStates
<1> QED
  BY <1>2, <1>3, <1>5, <1>6, TurnPays DEF Counted

\* An SRE approval meets the rules of today: it is never one to retry.
LEMMA SREFinishInTime ==
  ASSUME Shared, NEW w \in Reviewers, InTime(w), SREFinish(w), Returns(w)
  PROVE  InTime(w)'
<1>1. CASE Ends(w)
  BY <1>1, EndedInTime DEF Shared
<1>2. CASE /\ PutAndAdvance(SREReview(call[w].plan, "approve", TRUE), "approve_sre",
                            {"sre_review_id"})
           /\ UNCHANGED run
  <2> DEFINE t == "approve_sre"
             names == {"sre_review_id"}
  <2>1. t \in Used \ {"add_finding"} /\ names \in SUBSET RecordNames
    BY DEF Used, RecordNames
  <2>2. PICK record : record = SREReview(call[w].plan, "approve", TRUE)
    OBVIOUS
  <2>3. /\ Typed /\ ReadAfter(t, names)
        /\ records'[case'.record_ids["sre_review_id"]] = record /\ record.sound
    BY <1>2, <2>1, <2>2, PutRead DEF Shared, SREReview
  <2>4. /\ case.state = "plan_ready" /\ case'.state = "sre_approved" /\ reworked' = reworked
        /\ case'.record_ids["validation_result_id"] = case.record_ids["validation_result_id"]
    BY <2>3, Table DEF ReadAfter, Counted
  <2>5. ~Refused'
    BY <2>3 DEF Refused, Named
  <2>6. GoesOn(w, 0)
    BY <1>2, <2>3, RunGoesOn DEF SREFinish
  <2>7. /\ Distance' = 3 /\ Distance = 4 /\ Detours(w)' <= Detours(w)
        /\ Detours(w) \in Nat /\ Detours(w)' \in Nat
    <3>1. run'[w].reselected = run[w].reselected
      BY <2>3, <2>6, LoopBounds DEF GoesOn
    <3> QED
      BY <2>4, <2>5, <3>1 DEF Distance, Detours, PreapprovalStates
  <2> QED
    BY <2>3, <2>4, <2>6, <2>7, TurnPays
<1> QED
  BY <1>1, <1>2 DEF SREFinish

\* A retried SRE approval was refused, which pays for the turns it adds.
LEMMA RetryFinishInTime ==
  ASSUME Shared, NEW w \in Reviewers, InTime(w), RetryFinish(w), Returns(w)
  PROVE  InTime(w)'
<1> DEFINE t == "retry_sre"
           names == {"review_feedback_id"}
<1>1. call[w].stage = "retry" /\ run' = run /\ records' = records
  BY DEF RetryFinish
<1>2. PICK id \in Nat : id = call[w].sre
  BY <1>1, LoopBounds DEF Shared, Typed, CallsTyped, WorkerTyped
<1>3. /\ Advance(Request(t, [n \in names |-> id], {}, NoId))
      /\ t \in Used \ {"add_finding"} /\ names \in SUBSET RecordNames
  BY <1>2 DEF RetryFinish, Used, RecordNames
<1>4. Typed /\ ReadAfter(t, names)
  BY <1>1, <1>3, AdvanceRead DEF Shared
<1>5. /\ case.state \in {"sre_approved", "window_selected"} /\ case'.state = "plan_ready"
      /\ reworked' = reworked /\ case'.record_ids["sre_review_id"] = NoId
      /\ case'.record_ids["validation_result_id"] = case.record_ids["validation_result_id"]
  BY <1>4, Table, Going DEF ReadAfter, Counted
<1>6. Refused /\ ~Refused'
  BY <1>1, <1>5 DEF InTime, RetryIsDue, Refused, Has
<1>7. GoesOn(w, 0)
  BY <1>1, <1>4, RunGoesOn
<1>8. /\ Distance' = 4 /\ Distance \in {2, 3} /\ Detours(w)' + 3 = Detours(w)
      /\ Detours(w) \in Nat /\ Detours(w)' \in Nat
  <2>1. run'[w].reselected = run[w].reselected
    BY <1>4, <1>7, LoopBounds DEF GoesOn
  <2> QED
    BY <1>5, <1>6, <2>1 DEF Distance, Detours, PreapprovalStates
<1> QED
  BY <1>4, <1>5, <1>7, <1>8, TurnPays

\* A window or an approving rollback review brings the case one turn nearer.
LEMMA NearerInTime ==
  ASSUME Shared, NEW w \in Reviewers, InTime(w), call[w].stage # "none", Returns(w),
         run' = run, NEW record, NEW t \in {"select_window", "review_rollback"}, NEW names,
         \/ t = "select_window" /\ names = {"change_window_id"}
         \/ t = "review_rollback" /\ names = {"rollback_review_id"},
         PutAndAdvance(record, t, names)
  PROVE  InTime(w)'
<1>1. t \in Used \ {"add_finding"} /\ names \in SUBSET RecordNames
  BY DEF Used, RecordNames
<1>2. Typed /\ ReadAfter(t, names)
  BY <1>1, PutRead DEF Shared
<1>3. /\ \/ case.state = "sre_approved" /\ case'.state = "window_selected"
         \/ case.state = "window_selected" /\ case'.state = "rollback_ready"
      /\ reworked' = reworked
      /\ \A n \in Counted :
           /\ case'.record_ids[n] = case.record_ids[n]
           /\ case'.record_ids[n] # NoId =>
                records'[case'.record_ids[n]] = records[case.record_ids[n]]
  <2>1. Withdrawn(case, t) = {} /\ Counted \cap names = {} /\ t # "request_rework"
    BY Table DEF Counted
  <2>2. \/ case.state = "sre_approved" /\ case'.state = "window_selected"
        \/ case.state = "window_selected" /\ case'.state = "rollback_ready"
    BY <1>2, Table DEF ReadAfter
  <2> QED
    BY <1>2, <2>1, <2>2 DEF ReadAfter
<1>4. Refused' = Refused
  BY <1>3 DEF Refused, Has, Named, Counted
<1>5. GoesOn(w, 0)
  BY <1>2, RunGoesOn
<1>6. /\ Distance' + 1 = Distance /\ Detours(w)' = Detours(w)
      /\ Distance' \in Nat /\ Detours(w) \in Nat
  <2>1. run'[w].reselected = run[w].reselected
    BY <1>2, <1>5, LoopBounds DEF GoesOn
  <2> QED
    BY <1>3, <1>4, <2>1 DEF Distance, Detours, PreapprovalStates
<1> QED
  BY <1>2, <1>3, <1>5, <1>6, LoopBounds, TurnPays DEF Counted

\* A rework is paid for by the one rework that is left.
LEMMA ReworkInTime ==
  ASSUME Shared, NEW w \in Reviewers, InTime(w), call[w].stage # "none", Returns(w),
         run' = run, ~reworked, NEW record,
         PutAndAdvance(record, "request_rework", {"review_feedback_id"})
  PROVE  InTime(w)'
<1> DEFINE t == "request_rework"
           names == {"review_feedback_id"}
<1>1. t \in Used \ {"add_finding"} /\ names \in SUBSET RecordNames
  BY DEF Used, RecordNames
<1>2. Typed /\ ReadAfter(t, names)
  BY <1>1, PutRead DEF Shared
<1>3. /\ case.state = "window_selected" /\ case'.state = "validated"
      /\ reworked' /\ case'.record_ids["sre_review_id"] = NoId
      /\ case'.record_ids["validation_result_id"] = case.record_ids["validation_result_id"]
  BY <1>2, Table, Going DEF ReadAfter, Counted
<1>4. ~Refused'
  BY <1>3 DEF Refused, Has
<1>5. GoesOn(w, 0)
  BY <1>2, RunGoesOn
<1>6. /\ Distance' = 5 /\ Distance = 2 /\ Detours(w)' + 4 <= Detours(w)
      /\ Detours(w) \in Nat /\ Detours(w)' \in Nat
  <2>1. run'[w].reselected = run[w].reselected
    BY <1>2, <1>5, LoopBounds DEF GoesOn
  <2> QED
    BY <1>3, <1>4, <2>1 DEF Distance, Detours, PreapprovalStates
<1> QED
  BY <1>2, <1>3, <1>5, <1>6, TurnPays

\* A rollback review approves, asks for the one rework, or ends the loop.
LEMMA RollbackFinishInTime ==
  ASSUME Shared, NEW w \in Reviewers, InTime(w), RollbackFinish(w), Returns(w)
  PROVE  InTime(w)'
<1>1. call[w].stage = "rollback"
  BY DEF RollbackFinish
<1>2. \/ Ends(w)
      \/ \E record : /\ PutAndAdvance(record, "review_rollback", {"rollback_review_id"})
                     /\ run' = run
      \/ \E record : /\ PutAndAdvance(record, "request_rework", {"review_feedback_id"})
                     /\ run' = run /\ ~reworked
  BY DEF RollbackFinish, Reworkable
<1> QED
  BY <1>1, <1>2, EndedInTime, NearerInTime, ReworkInTime DEF Shared

\* A reselection is counted, which pays for the turns it adds.
LEMMA ReselectFinishInTime ==
  ASSUME Shared, NEW w \in Reviewers, InTime(w), ReselectFinish(w), Returns(w)
  PROVE  InTime(w)'
<1> DEFINE t == "reselect_window"
           names == {}
<1>1. /\ call[w].stage = "reselect" /\ run' = [run EXCEPT ![w].reselected = @ + 1]
      /\ records' = records
  BY DEF ReselectFinish
<1>2. PICK id \in Nat : id = NoId
  BY DEF NoId
<1>3. /\ Advance(Request(t, [n \in names |-> id], {}, NoId))
      /\ t \in Used \ {"add_finding"} /\ names \in SUBSET RecordNames
  BY <1>2 DEF ReselectFinish, Used
<1>4. Typed /\ ReadAfter(t, names)
  BY <1>1, <1>3, AdvanceRead DEF Shared
<1>5. /\ case.state = "rollback_ready" /\ case'.state = "sre_approved"
      /\ reworked' = reworked
      /\ \A n \in Counted :
           /\ case'.record_ids[n] = case.record_ids[n]
           /\ case'.record_ids[n] # NoId =>
                records'[case'.record_ids[n]] = records[case.record_ids[n]]
  BY <1>4, Table, Going DEF ReadAfter, Counted
<1>6. Refused' = Refused
  BY <1>5 DEF Refused, Has, Named, Counted
<1>7. GoesOn(w, 1)
  BY <1>1, <1>4, RunGoesOn
<1>8. /\ Distance' = 3 /\ Distance = 1
      /\ run'[w].reselected < 2 => Detours(w)' + 3 = Detours(w)
      /\ Detours(w) \in Nat /\ Detours(w)' \in Nat
  <2>1. run[w].reselected \in Nat /\ run'[w].reselected = run[w].reselected + 1
    BY <1>4, <1>7, LoopBounds DEF GoesOn
  <2> QED
    BY <1>5, <1>6, <2>1 DEF Distance, Detours, PreapprovalStates
<1> QED
  BY <1>4, <1>5, <1>7, <1>8, TurnPays DEF Counted

------------------------------------------------------------------------------
\* With one worker, every step leaves its loop in time.
LEMMA NextIInv == ASSUME IInv, OneReviewer, [Next]_vars PROVE IInv'
<1>1. Shared /\ NoReviewYet /\ Shared' /\ NoReviewYet'
  BY NextShared, NextNoReview DEF IInv
<1>2. ASSUME NEW w \in Reviewers
      PROVE  InTime(w)'
  <2>1. InTime(w) /\ \A v \in Reviewers : v = w
    BY DEF IInv, OneReviewer
  <2>2. CASE Finish(w)
    <3>1. CASE WindowFinish(w)
      BY <1>1, <2>1, <2>2, <3>1, NearerInTime DEF WindowFinish, Finish
    <3>2. CASE GateFinish(w)
      BY <1>1, <2>2, <3>2, EndedInTime DEF GateFinish, Finish, Shared
    <3> QED
      BY <1>1, <2>1, <2>2, <3>1, <3>2, PlanFinishInTime, SREFinishInTime, RetryFinishInTime,
         RollbackFinishInTime, ReselectFinishInTime DEF Finish
  <2>3. CASE AgentStopped(w)
    BY <1>1, <2>3, EndedInTime DEF AgentStopped, Shared
  <2>4. CASE Start(w) \/ Turn(w)
    BY <1>1, <2>1, <2>4, StartInTime, TurnInTime
  <2>5. CASE \E a \in Actors : Raises(a)
    BY <1>1, <2>1, <2>5, RaisesInTime
  <2>6. CASE Others
    BY <1>1, <2>1, <2>6, OthersInTime
  <2>7. CASE UNCHANGED vars
    BY <2>1, <2>7, StillInTime DEF vars, OnOrEnded
  <2> QED
    BY <2>1, <2>2, <2>3, <2>4, <2>5, <2>6, <2>7 DEF Next, Others
<1> QED
  BY <1>1, <1>2 DEF IInv

\* In the beginning no loop runs.
LEMMA InitIInv == Init => IInv
<1> SUFFICES ASSUME Init
             PROVE  IInv
  OBVIOUS
<1>1. Shared
  BY InitShared
<1>2. \A w \in Reviewers : InTime(w)
  BY DEF Init, InTime, RetryIsDue, LoopWithin, SameValidation, NoRun, NoCall, Actors
<1>3. NoReviewYet
  <2>1. PICK f \in Plannable :
          LET opened == [OpenCase({f}) EXCEPT !.state = "prioritized", !.version = 1,
                                              !.priority = 1,
                                              !.record_ids["risk_assessment_id"] = 1]
          IN
          \/ case = opened
          \/ case = [opened EXCEPT !.state = "sre_approved", !.version = 4,
                                   !.change_plan = 2,
                                   !.record_ids["validation_result_id"] = 1,
                                   !.record_ids["iac_link_id"] = 2,
                                   !.record_ids["change_plan_id"] = 2,
                                   !.record_ids["sre_review_id"] = 3]
    BY DEF Init
  <2> DEFINE opened == [OpenCase({f}) EXCEPT !.state = "prioritized", !.version = 1,
                                             !.priority = 1,
                                             !.record_ids["risk_assessment_id"] = 1]
  <2>2. opened.record_ids["sre_review_id"] = NoId
    BY DEF OpenCase, NoRecords, RecordNames
  <2>3. CASE case = opened
    BY <2>2, <2>3 DEF NoReviewYet, Has
  <2>4. CASE case.state = "sre_approved"
    BY <2>4 DEF NoReviewYet
  <2>5. case = opened \/ case.state = "sre_approved"
    BY <2>1 DEF OpenCase
  <2> QED
    BY <2>3, <2>4, <2>5
<1> QED
  BY <1>1, <1>2, <1>3 DEF IInv

\* With one worker, the invariant holds in every reachable state.
LEMMA Invariance == ASSUME OneReviewer PROVE Spec => []IInv
  BY InitIInv, NextIInv, PTL DEF Spec

\* advance_to_human_review: the fourteen turns of the loop of one worker suffice.
THEOREM TurnsSuffice == ASSUME OneReviewer, Iterations >= 14 PROVE Spec => []LoopSuffices
<1>1. IInv => LoopSuffices
  <2> SUFFICES ASSUME IInv, NEW w \in Reviewers, run[w].used = Iterations, call[w] = NoCall,
                      ~(run[w].reselected >= 2),
                      run[w].validation = case.record_ids["validation_result_id"]
               PROVE  FALSE
    BY DEF LoopSuffices
  <2>1. Typed /\ LoopWithin(w)
    BY DEF IInv, Shared, InTime
  <2>2. run[w].reselected < 2 /\ Distance \in 0..5 /\ Detours(w) \in 0..10
    BY <2>1, LoopBounds
  <2>3. run[w].validation # NoId
    BY <2>1 DEF Typed, CallsTyped, WorkerTyped, NoRun, BoundsAssumption
  <2>4. run[w].used + Distance + Detours(w) <= 13
    BY <2>1, <2>2, <2>3 DEF LoopWithin, SameValidation
  <2> QED
    BY <2>2, <2>4 DEF BoundsAssumption
<1> QED
  BY <1>1, Invariance, PTL
==============================================================================
