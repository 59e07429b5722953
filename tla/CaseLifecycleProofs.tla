------------------------- MODULE CaseLifecycleProofs -------------------------
(***************************************************************************)
(* Theorems about CaseLifecycle, for every set of findings and every bound *)
(* on the version.  EvidenceInOrder and SupersededEvidenceGone are         *)
(* inductive only together with the types of the case and with the fact    *)
(* that no id on the case is newer than its last event: without it the id  *)
(* a transition attaches would not have to be newer than those it follows. *)
(***************************************************************************)
EXTENDS CaseLifecycle, TLAPS

\* No id on the case is newer than its last event, so version + 1 is fresh.
IdsBounded ==
  /\ \A n \in RecordNames : case.record_ids[n] <= case.version
  /\ case.change_plan <= case.version
  /\ case.change_window <= case.version

\* The stage a blocked case will have again is one of the others.
StageTyped ==
  IF case.state = "blocked" THEN case.blocked_from \in ActiveStates \ {"blocked"}
                            ELSE case.blocked_from = NoState

IInv == TypeOK /\ IdsBounded /\ EvidenceInOrder /\ SupersededEvidenceGone

\* The same of a case that has been opened, without the history variables.
CaseIInv ==
  case \in Case /\ StageTyped /\ IdsBounded /\ EvidenceInOrder /\ SupersededEvidenceGone

\* A transition as the callers of WorkflowCoordinator.advance request it.
Takes(t) ==
  \E names \in Attached(t), additions \in Additions(t) :
    /\ Permits(case, RequestOf(case, t, names, additions))
    /\ case' = Apply(case, RequestOf(case, t, names, additions))

\* The records EvidenceInOrder and SupersededEvidenceGone read.
Evidence == {"change_plan_id", "iac_link_id", "sre_review_id", "change_window_id",
             "rollback_review_id", "policy_decision_id", "human_review_package_id",
             "approval_id", "schedule_id", "execution_id"}

\* A case that does not exist yet has no record at all.
LEMMA UnopenedFields ==
  /\ Unopened.state = "unopened" /\ Unopened.blocked_from = NoState
  /\ Unopened.version = 0 /\ Unopened.change_plan = NoId
  /\ Unopened.change_window = NoId
  /\ Unopened.findings = {} /\ Unopened.priority = NoId
  /\ Unopened.record_ids = NoRecords
BY DEF Unopened, OpenCase

\* WorkflowCoordinator.open: a case without records satisfies the invariant, whether
\* it is still to be opened or has just been.
LEMMA EmptyCaseIInv ==
  ASSUME TypeOK, case.state \in {"unopened", "open"}, case.record_ids = NoRecords,
         case.change_plan = NoId, case.change_window = NoId, case.version = 0
  PROVE  IInv
<1>1. \A n \in RecordNames : case.record_ids[n] = NoId
  BY DEF NoRecords
<1>2. IdsBounded
  BY <1>1 DEF IdsBounded, NoId
<1> QED
  BY <1>1, <1>2
  DEF IInv, EvidenceInOrder, SupersededEvidenceGone, Stage, Planned, SreReviewed,
      Windowed, RolledReady, Packaged, Approved, Executing, RecordNames

\* The initial state satisfies the invariant.
LEMMA InitIInv == Init => IInv
<1> SUFFICES ASSUME Init PROVE IInv
  OBVIOUS
<1>1. TypeOK
  BY UnopenedFields DEF Init, TypeOK
<1> QED
  BY <1>1, UnopenedFields, EmptyCaseIInv DEF Init

\* WorkflowCoordinator.open preserves the invariant.
LEMMA OpenIInv ==
  ASSUME IInv, NEW findings \in SUBSET Findings, Open(findings)
  PROVE  IInv'
<1>1. /\ case'.state = "open" /\ case'.blocked_from = NoState
      /\ case'.version = 0 /\ case'.change_plan = NoId /\ case'.change_window = NoId
      /\ case'.record_ids = NoRecords /\ case' \in Case
  BY DEF Open, OpenCase, Case, NoRecords, CaseStates, ActiveStates, NoId, NoState
<1>2. \A n \in RecordNames : case'.record_ids[n] = NoId
  BY <1>1 DEF NoRecords
<1>3. TypeOK'
  BY <1>1 DEF TypeOK, IInv, Open
<1>4. IdsBounded'
  BY <1>1, <1>2 DEF IdsBounded, NoId
<1> QED
  BY <1>1, <1>2, <1>3, <1>4
  DEF IInv, EvidenceInOrder, SupersededEvidenceGone, Stage, Planned, SreReviewed,
      Windowed, RolledReady, Packaged, Approved, Executing, RecordNames

\* transition_case keeps every field of the case in its type, keeps a blocked_from
\* exactly while the case is blocked, and attaches no id from the future.
LEMMA TakesTypes ==
  ASSUME case \in Case, StageTyped, IdsBounded, NEW t \in Transitions, Takes(t)
  PROVE  case' \in Case /\ StageTyped' /\ IdsBounded'
<1> PICK names \in Attached(t), adds \in Additions(t) :
      /\ Permits(case, RequestOf(case, t, names, adds))
      /\ case' = Apply(case, RequestOf(case, t, names, adds))
  BY DEF Takes
<1> DEFINE r == RequestOf(case, t, names, adds)
           new == case.version + 1
<1>1. /\ r.transition = t /\ DOMAIN r.records = names
      /\ \A n \in names : r.records[n] = AttachedId(case, t)
      /\ r.additions = adds
      /\ r.priority \in {new, NoId}
      /\ r.change_plan \in {new, NoId} /\ r.change_window \in {new, NoId}
  BY DEF RequestOf, Request
<1>2. case.state \in Sources[t]
  BY <1>1 DEF Permits
<1>4. /\ case.version \in Nat /\ new \in Nat /\ case.priority \in Nat
      /\ case.change_plan \in Nat /\ case.change_plan <= new
      /\ case.change_window \in Nat /\ case.change_window <= new
      /\ case.findings \in SUBSET Findings
      /\ \A n \in RecordNames : case.record_ids[n] \in 0 .. new
  BY DEF Case, IdsBounded
<1>5. AttachedId(case, t) \in 0 .. new
  BY <1>4 DEF AttachedId, RecordNames
<1>6. /\ case'.record_ids = RecordsAfter(case, r)
      /\ case'.record_ids \in [RecordNames -> 0 .. new]
  BY <1>1, <1>4, <1>5 DEF Apply, RecordsAfter, NoId
<1>7. adds \in SUBSET Findings
  BY DEF Additions
<1>8. case'.state \in CaseStates
      /\ IF case'.state = "blocked" THEN case'.blocked_from \in ActiveStates \ {"blocked"}
                                    ELSE case'.blocked_from = NoState
  <2>1. /\ case'.state = StateAfter(case, t)
        /\ case'.blocked_from = BlockedFromAfter(case, t)
    BY <1>1 DEF Apply
  <2>2. IF case.state = "blocked" THEN case.blocked_from \in ActiveStates \ {"blocked"}
                                  ELSE case.blocked_from = NoState
    BY DEF StageTyped
  <2> QED
    BY <1>2, <2>1, <2>2
    DEF StateAfter, BlockedFromAfter, Reopens, Transitions, Target, Sources, CaseStates,
        ActiveStates, ReopenStates, TerminalStates, NoState
<1>9. /\ case'.version = new /\ case'.findings = case.findings \cup adds
      /\ case'.priority = OrElse(r.priority, case.priority)
      /\ case'.change_plan = PlanAfter(case, r)
      /\ case'.change_window = WindowAfter(case, r)
  BY <1>1 DEF Apply
<1>10. /\ case'.priority \in Nat
       /\ case'.change_plan \in 0 .. new /\ case'.change_window \in 0 .. new
  BY <1>1, <1>4, <1>9 DEF PlanAfter, WindowAfter, OrElse, NoId
<1>11. case'.blocked_from \in CaseStates \cup {NoState}
  BY <1>8 DEF CaseStates
<1>12. case' = [state |-> case'.state, version |-> case'.version,
                findings |-> case'.findings, blocked_from |-> case'.blocked_from,
                priority |-> case'.priority, change_plan |-> case'.change_plan,
                change_window |-> case'.change_window, record_ids |-> case'.record_ids]
  BY DEF Apply
<1>13. case' \in Case
  BY <1>4, <1>6, <1>7, <1>8, <1>9, <1>10, <1>11, <1>12 DEF Case
<1> QED
  BY <1>4, <1>6, <1>8, <1>9, <1>10, <1>13 DEF StageTyped, IdsBounded

\* A request that attaches what the call sites of its transition attach, the evidence among
\* it with one id, newer than every id on the case.
AttachesNew(t, r, new) ==
  /\ r.transition = t /\ DOMAIN r.records \in Attached(t)
  /\ \A n \in DOMAIN r.records \cap Evidence : r.records[n] = new
  /\ r.change_plan = IF t = "prepare_plan" THEN new ELSE NoId
  /\ r.change_window = IF t = "select_window" THEN new ELSE NoId

NewerThanAll(new) ==
  /\ new \in Nat
  /\ \A n \in Evidence : case.record_ids[n] \in Nat /\ case.record_ids[n] < new
  /\ case.change_plan \in Nat /\ case.change_plan < new
  /\ case.change_window \in Nat /\ case.change_window < new

\* transition_case keeps the evidence a stage relies on, in the order it was produced,
\* and withdraws what a step back undoes, whatever ids its callers draw for the new
\* records, as long as they are new.
LEMMA RequestEvidence ==
  ASSUME EvidenceInOrder, SupersededEvidenceGone, StageTyped, NEW t \in Transitions, NEW r,
         NEW new, NewerThanAll(new), AttachesNew(t, r, new), Permits(case, r),
         case' = Apply(case, r)
  PROVE  EvidenceInOrder' /\ SupersededEvidenceGone'
<1> DEFINE s == Stage(case)
           names == DOMAIN r.records
<1>1. /\ r.transition = t /\ names \in Attached(t)
      /\ \A n \in names \cap Evidence : r.records[n] = new
      /\ r.change_plan = (IF t = "prepare_plan" THEN new ELSE NoId)
      /\ r.change_window = (IF t = "select_window" THEN new ELSE NoId)
  BY DEF AttachesNew
<1>2. case.state \in Sources[t] /\ (t = "resume" => case.blocked_from # NoState)
  BY <1>1 DEF Permits
<1>3. /\ case'.state = StateAfter(case, t)
      /\ case'.blocked_from = BlockedFromAfter(case, t)
      /\ case'.change_plan = PlanAfter(case, r)
      /\ case'.change_window = WindowAfter(case, r)
      /\ case'.record_ids = RecordsAfter(case, r)
  BY <1>1 DEF Apply
<1>4. \A n \in Evidence : case'.record_ids[n] =
         IF n \in names THEN new
         ELSE IF n \in Withdrawn(case, t) THEN NoId ELSE case.record_ids[n]
  BY <1>1, <1>3 DEF RecordsAfter, RecordNames, Evidence
<1>5. /\ new \in Nat /\ new # NoId
      /\ \A n \in Evidence : case.record_ids[n] \in Nat /\ case.record_ids[n] < new
      /\ case.change_plan \in Nat /\ case.change_plan < new
      /\ case.change_window \in Nat /\ case.change_window < new
      /\ IF case.state = "blocked" THEN case.blocked_from \in ActiveStates \ {"blocked"}
                                   ELSE case.blocked_from = NoState
  BY DEF NewerThanAll, StageTyped, NoId
<1>6. EvidenceInOrder /\ SupersededEvidenceGone
  OBVIOUS
<1> HIDE DEF names
<1> USE DEF Planned, SreReviewed, Windowed, RolledReady, Packaged, Approved, Executing, NoId
<1>7. CASE t = "prioritize"
  <2>1. /\ s = "open"
        /\ Stage(case)' = "prioritized"
        /\ names = {"risk_assessment_id"}
        /\ Withdrawn(case, t) = {}
    BY <1>1, <1>2, <1>3, <1>5, <1>7
    DEF Sources, StateAfter, Reopens, Stage, Attached, Withdrawn,
        RequiredRecord, Target
  <2>2. \A n \in Evidence : case'.record_ids[n] = case.record_ids[n]
    BY <1>4, <2>1 DEF Evidence
  <2>3. case'.change_plan = case.change_plan /\ case'.change_window = case.change_window
    BY <1>1, <1>3, <1>5, <1>7 DEF PlanAfter, WindowAfter, Reopens, OrElse
  <2> QED
    BY <1>5, <1>6, <2>1, <2>2, <2>3
    DEF EvidenceInOrder, SupersededEvidenceGone, Newer, Evidence
<1>8. CASE t = "validate"
  <2>1. /\ s = "prioritized"
        /\ Stage(case)' = "validated"
        /\ names = {"validation_result_id"}
        /\ Withdrawn(case, t) = {}
    BY <1>1, <1>2, <1>3, <1>5, <1>8
    DEF Sources, StateAfter, Reopens, Stage, Attached, Withdrawn,
        RequiredRecord, Target
  <2>2. \A n \in Evidence : case'.record_ids[n] = case.record_ids[n]
    BY <1>4, <2>1 DEF Evidence
  <2>3. case'.change_plan = case.change_plan /\ case'.change_window = case.change_window
    BY <1>1, <1>3, <1>5, <1>8 DEF PlanAfter, WindowAfter, Reopens, OrElse
  <2> QED
    BY <1>5, <1>6, <2>1, <2>2, <2>3
    DEF EvidenceInOrder, SupersededEvidenceGone, Newer, Evidence
<1>9. CASE t = "prepare_plan"
  <2>1. /\ s = "validated"
        /\ Stage(case)' = "plan_ready"
        /\ names = {"change_plan_id", "iac_link_id"}
        /\ Withdrawn(case, t) = {}
    BY <1>1, <1>2, <1>3, <1>5, <1>9
    DEF Sources, StateAfter, Reopens, Stage, Attached, Withdrawn,
        RequiredRecord, Target
  <2>2. /\ case'.record_ids["change_plan_id"] = new
        /\ case'.record_ids["iac_link_id"] = new
        /\ \A n \in Evidence \ {"change_plan_id", "iac_link_id"} : case'.record_ids[n] =
                case.record_ids[n]
    BY <1>4, <2>1 DEF Evidence
  <2>3. case'.change_plan = new /\ case'.change_window = case.change_window
    BY <1>1, <1>3, <1>5, <1>9 DEF PlanAfter, WindowAfter, Reopens, OrElse
  <2> QED
    BY <1>5, <1>6, <2>1, <2>2, <2>3
    DEF EvidenceInOrder, SupersededEvidenceGone, Newer, Evidence
<1>10. CASE t = "approve_sre"
  <2>1. /\ s = "plan_ready"
        /\ Stage(case)' = "sre_approved"
        /\ names = {"sre_review_id"}
        /\ Withdrawn(case, t) = {}
    BY <1>1, <1>2, <1>3, <1>5, <1>10
    DEF Sources, StateAfter, Reopens, Stage, Attached, Withdrawn,
        RequiredRecord, Target
  <2>2. /\ case'.record_ids["sre_review_id"] = new
        /\ \A n \in Evidence \ {"sre_review_id"} : case'.record_ids[n] =
                case.record_ids[n]
    BY <1>4, <2>1 DEF Evidence
  <2>3. case'.change_plan = case.change_plan /\ case'.change_window = case.change_window
    BY <1>1, <1>3, <1>5, <1>10 DEF PlanAfter, WindowAfter, Reopens, OrElse
  <2> QED
    BY <1>5, <1>6, <2>1, <2>2, <2>3
    DEF EvidenceInOrder, SupersededEvidenceGone, Newer, Evidence
<1>11. CASE t = "select_window"
  <2>1. /\ s = "sre_approved"
        /\ Stage(case)' = "window_selected"
        /\ names = {"change_window_id"}
        /\ Withdrawn(case, t) = {}
    BY <1>1, <1>2, <1>3, <1>5, <1>11
    DEF Sources, StateAfter, Reopens, Stage, Attached, Withdrawn,
        RequiredRecord, Target
  <2>2. /\ case'.record_ids["change_window_id"] = new
        /\ \A n \in Evidence \ {"change_window_id"} : case'.record_ids[n] =
                case.record_ids[n]
    BY <1>4, <2>1 DEF Evidence
  <2>3. case'.change_plan = case.change_plan /\ case'.change_window = new
    BY <1>1, <1>3, <1>5, <1>11 DEF PlanAfter, WindowAfter, Reopens, OrElse
  <2> QED
    BY <1>5, <1>6, <2>1, <2>2, <2>3
    DEF EvidenceInOrder, SupersededEvidenceGone, Newer, Evidence
<1>12. CASE t = "review_rollback"
  <2>1. /\ s = "window_selected"
        /\ Stage(case)' = "rollback_ready"
        /\ names = {"rollback_review_id"}
        /\ Withdrawn(case, t) = {}
    BY <1>1, <1>2, <1>3, <1>5, <1>12
    DEF Sources, StateAfter, Reopens, Stage, Attached, Withdrawn,
        RequiredRecord, Target
  <2>2. /\ case'.record_ids["rollback_review_id"] = new
        /\ \A n \in Evidence \ {"rollback_review_id"} : case'.record_ids[n] =
                case.record_ids[n]
    BY <1>4, <2>1 DEF Evidence
  <2>3. case'.change_plan = case.change_plan /\ case'.change_window = case.change_window
    BY <1>1, <1>3, <1>5, <1>12 DEF PlanAfter, WindowAfter, Reopens, OrElse
  <2> QED
    BY <1>5, <1>6, <2>1, <2>2, <2>3
    DEF EvidenceInOrder, SupersededEvidenceGone, Newer, Evidence
<1>13. CASE t = "request_approval"
  <2>1. /\ s = "rollback_ready"
        /\ Stage(case)' = "awaiting_approval"
        /\ names = {"policy_decision_id", "human_review_package_id"}
        /\ Withdrawn(case, t) = {}
    BY <1>1, <1>2, <1>3, <1>5, <1>13
    DEF Sources, StateAfter, Reopens, Stage, Attached, Withdrawn,
        RequiredRecord, Target
  <2>2. /\ case'.record_ids["policy_decision_id"] = new
        /\ case'.record_ids["human_review_package_id"] = new
        /\ \A n \in Evidence \ {"policy_decision_id", "human_review_package_id"} :
                case'.record_ids[n] = case.record_ids[n]
    BY <1>4, <2>1 DEF Evidence
  <2>3. case'.change_plan = case.change_plan /\ case'.change_window = case.change_window
    BY <1>1, <1>3, <1>5, <1>13 DEF PlanAfter, WindowAfter, Reopens, OrElse
  <2> QED
    BY <1>5, <1>6, <2>1, <2>2, <2>3
    DEF EvidenceInOrder, SupersededEvidenceGone, Newer, Evidence
<1>14. CASE t = "approve_change"
  <2>1. /\ s = "awaiting_approval"
        /\ Stage(case)' = "approved"
        /\ names = {"approval_id"}
        /\ Withdrawn(case, t) = {}
    BY <1>1, <1>2, <1>3, <1>5, <1>14
    DEF Sources, StateAfter, Reopens, Stage, Attached, Withdrawn,
        RequiredRecord, Target
  <2>2. /\ case'.record_ids["approval_id"] = new
        /\ \A n \in Evidence \ {"approval_id"} : case'.record_ids[n] = case.record_ids[n]
    BY <1>4, <2>1 DEF Evidence
  <2>3. case'.change_plan = case.change_plan /\ case'.change_window = case.change_window
    BY <1>1, <1>3, <1>5, <1>14 DEF PlanAfter, WindowAfter, Reopens, OrElse
  <2> QED
    BY <1>5, <1>6, <2>1, <2>2, <2>3
    DEF EvidenceInOrder, SupersededEvidenceGone, Newer, Evidence
<1>15. CASE t = "schedule_execution"
  <2>1. /\ s = "approved"
        /\ Stage(case)' = "approved"
        /\ names = {"schedule_id", "execution_job_id"}
        /\ Withdrawn(case, t) = {}
    BY <1>1, <1>2, <1>3, <1>5, <1>15
    DEF Sources, StateAfter, Reopens, Stage, Attached, Withdrawn,
        RequiredRecord, BlockedFromAfter, NoState, ActiveStates, ReopenStates, Target
  <2>2. /\ case'.record_ids["schedule_id"] = new
        /\ \A n \in Evidence \ {"schedule_id"} : case'.record_ids[n] = case.record_ids[n]
    BY <1>4, <2>1 DEF Evidence
  <2>3. case'.change_plan = case.change_plan /\ case'.change_window = case.change_window
    BY <1>1, <1>3, <1>5, <1>15 DEF PlanAfter, WindowAfter, Reopens, OrElse
  <2> QED
    BY <1>5, <1>6, <2>1, <2>2, <2>3
    DEF EvidenceInOrder, SupersededEvidenceGone, Newer, Evidence
<1>16. CASE t = "start_execution"
  <2>1. /\ s = "approved"
        /\ Stage(case)' = "executing"
        /\ names = {"execution_id"}
        /\ Withdrawn(case, t) = {}
    BY <1>1, <1>2, <1>3, <1>5, <1>16
    DEF Sources, StateAfter, Reopens, Stage, Attached, Withdrawn,
        RequiredRecord, Target
  <2>2. /\ case'.record_ids["execution_id"] = new
        /\ \A n \in Evidence \ {"execution_id"} : case'.record_ids[n] = case.record_ids[n]
    BY <1>4, <2>1 DEF Evidence
  <2>3. case'.change_plan = case.change_plan /\ case'.change_window = case.change_window
    BY <1>1, <1>3, <1>5, <1>16 DEF PlanAfter, WindowAfter, Reopens, OrElse
  <2> QED
    BY <1>5, <1>6, <2>1, <2>2, <2>3
    DEF EvidenceInOrder, SupersededEvidenceGone, Newer, Evidence
<1>17. CASE t = "start_verification"
  <2>1. /\ s = "executing"
        /\ Stage(case)' = "verifying"
        /\ names = {"execution_result_id"}
        /\ Withdrawn(case, t) = {}
    BY <1>1, <1>2, <1>3, <1>5, <1>17
    DEF Sources, StateAfter, Reopens, Stage, Attached, Withdrawn,
        RequiredRecord, Target
  <2>2. \A n \in Evidence : case'.record_ids[n] = case.record_ids[n]
    BY <1>4, <2>1 DEF Evidence
  <2>3. case'.change_plan = case.change_plan /\ case'.change_window = case.change_window
    BY <1>1, <1>3, <1>5, <1>17 DEF PlanAfter, WindowAfter, Reopens, OrElse
  <2> QED
    BY <1>5, <1>6, <2>1, <2>2, <2>3
    DEF EvidenceInOrder, SupersededEvidenceGone, Newer, Evidence
<1>18. CASE t = "complete_remediation"
  <2>1. /\ s = "verifying"
        /\ Stage(case)' = "remediated"
        /\ names = {"verification_result_id", "remediation_certificate_id",
                "originator_handoff_id"}
        /\ Withdrawn(case, t) = {}
    BY <1>1, <1>2, <1>3, <1>5, <1>18
    DEF Sources, StateAfter, Reopens, Stage, Attached, Withdrawn,
        RequiredRecord, Target
  <2>2. \A n \in Evidence : case'.record_ids[n] = case.record_ids[n]
    BY <1>4, <2>1 DEF Evidence
  <2>3. case'.change_plan = case.change_plan /\ case'.change_window = case.change_window
    BY <1>1, <1>3, <1>5, <1>18 DEF PlanAfter, WindowAfter, Reopens, OrElse
  <2> QED
    BY <1>5, <1>6, <2>1, <2>2, <2>3
    DEF EvidenceInOrder, SupersededEvidenceGone, Newer, Evidence
<1>19. CASE t = "start_rollback"
  <2>1. /\ s \in {"executing", "verifying"}
        /\ Stage(case)' = "rolling_back"
        /\ names = {"rollback_execution_id"}
        /\ Withdrawn(case, t) = {}
    BY <1>1, <1>2, <1>3, <1>5, <1>19
    DEF Sources, StateAfter, Reopens, Stage, Attached, Withdrawn,
        RequiredRecord, Target
  <2>2. \A n \in Evidence : case'.record_ids[n] = case.record_ids[n]
    BY <1>4, <2>1 DEF Evidence
  <2>3. case'.change_plan = case.change_plan /\ case'.change_window = case.change_window
    BY <1>1, <1>3, <1>5, <1>19 DEF PlanAfter, WindowAfter, Reopens, OrElse
  <2> QED
    BY <1>5, <1>6, <2>1, <2>2, <2>3
    DEF EvidenceInOrder, SupersededEvidenceGone, Newer, Evidence
<1>20. CASE t = "complete_rollback"
  <2>1. /\ s = "rolling_back"
        /\ Stage(case)' = "rolled_back"
        /\ names = {"verification_result_id"}
        /\ Withdrawn(case, t) = {}
    BY <1>1, <1>2, <1>3, <1>5, <1>20
    DEF Sources, StateAfter, Reopens, Stage, Attached, Withdrawn,
        RequiredRecord, Target
  <2>2. \A n \in Evidence : case'.record_ids[n] = case.record_ids[n]
    BY <1>4, <2>1 DEF Evidence
  <2>3. case'.change_plan = case.change_plan /\ case'.change_window = case.change_window
    BY <1>1, <1>3, <1>5, <1>20 DEF PlanAfter, WindowAfter, Reopens, OrElse
  <2> QED
    BY <1>5, <1>6, <2>1, <2>2, <2>3
    DEF EvidenceInOrder, SupersededEvidenceGone, Newer, Evidence
<1>21. CASE t = "retry_sre"
  <2>1. /\ s \in {"sre_approved", "window_selected"}
        /\ Stage(case)' = "plan_ready"
        /\ names = {"review_feedback_id"}
        /\ Withdrawn(case, t) = {"sre_review_id", "change_window_id"}
    BY <1>1, <1>2, <1>3, <1>5, <1>21
    DEF Sources, StateAfter, Reopens, Stage, Attached, Withdrawn,
        RequiredRecord, Target
  <2>2. /\ case'.record_ids["sre_review_id"] = NoId
        /\ case'.record_ids["change_window_id"] = NoId
        /\ \A n \in Evidence \ {"sre_review_id", "change_window_id"} : case'.record_ids[n]
                = case.record_ids[n]
    BY <1>4, <2>1 DEF Evidence
  <2>3. case'.change_plan = case.change_plan /\ case'.change_window = NoId
    BY <1>1, <1>3, <1>5, <1>21 DEF PlanAfter, WindowAfter, Reopens, OrElse
  <2> QED
    BY <1>5, <1>6, <2>1, <2>2, <2>3
    DEF EvidenceInOrder, SupersededEvidenceGone, Newer, Evidence
<1>22. CASE t = "request_rework"
  <2>1. /\ s = "window_selected"
        /\ Stage(case)' = "validated"
        /\ names = {"review_feedback_id"}
        /\ Withdrawn(case, t) = {"iac_link_id", "change_plan_id", "sre_review_id",
                "change_window_id", "rollback_review_id", "policy_decision_id",
                "human_review_package_id"}
    BY <1>1, <1>2, <1>3, <1>5, <1>22
    DEF Sources, StateAfter, Reopens, Stage, Attached, Withdrawn,
        RequiredRecord, Target
  <2>2. /\ case'.record_ids["iac_link_id"] = NoId
        /\ case'.record_ids["change_plan_id"] = NoId
        /\ case'.record_ids["sre_review_id"] = NoId
        /\ case'.record_ids["change_window_id"] = NoId
        /\ case'.record_ids["rollback_review_id"] = NoId
        /\ case'.record_ids["policy_decision_id"] = NoId
        /\ case'.record_ids["human_review_package_id"] = NoId
        /\ \A n \in Evidence \ {"iac_link_id", "change_plan_id", "sre_review_id",
                "change_window_id", "rollback_review_id", "policy_decision_id",
                "human_review_package_id"} : case'.record_ids[n] = case.record_ids[n]
    BY <1>4, <2>1 DEF Evidence
  <2>3. case'.change_plan = NoId /\ case'.change_window = NoId
    BY <1>1, <1>3, <1>5, <1>22 DEF PlanAfter, WindowAfter, Reopens, OrElse
  <2> QED
    BY <1>5, <1>6, <2>1, <2>2, <2>3
    DEF EvidenceInOrder, SupersededEvidenceGone, Newer, Evidence
<1>23. CASE t = "reselect_window"
  <2>1. /\ s = "rollback_ready"
        /\ Stage(case)' = "sre_approved"
        /\ names = {}
        /\ Withdrawn(case, t) = {"change_window_id", "rollback_review_id",
                "policy_decision_id", "human_review_package_id"}
    BY <1>1, <1>2, <1>3, <1>5, <1>23
    DEF Sources, StateAfter, Reopens, Stage, Attached, Withdrawn,
        RequiredRecord, Target
  <2>2. /\ case'.record_ids["change_window_id"] = NoId
        /\ case'.record_ids["rollback_review_id"] = NoId
        /\ case'.record_ids["policy_decision_id"] = NoId
        /\ case'.record_ids["human_review_package_id"] = NoId
        /\ \A n \in Evidence \ {"change_window_id", "rollback_review_id",
                "policy_decision_id", "human_review_package_id"} : case'.record_ids[n] =
                case.record_ids[n]
    BY <1>4, <2>1 DEF Evidence
  <2>3. case'.change_plan = case.change_plan /\ case'.change_window = NoId
    BY <1>1, <1>3, <1>5, <1>23 DEF PlanAfter, WindowAfter, Reopens, OrElse
  <2> QED
    BY <1>5, <1>6, <2>1, <2>2, <2>3
    DEF EvidenceInOrder, SupersededEvidenceGone, Newer, Evidence
<1>24. CASE t = "close_no_action"
  <2>1. /\ s \in {"prioritized", "validated"}
        /\ Stage(case)' = "closed_no_action"
        /\ names = {"validation_result_id"}
        /\ Withdrawn(case, t) = {}
    BY <1>1, <1>2, <1>3, <1>5, <1>24
    DEF Sources, StateAfter, Reopens, Stage, Attached, Withdrawn,
        RequiredRecord, Target
  <2>2. \A n \in Evidence : case'.record_ids[n] = case.record_ids[n]
    BY <1>4, <2>1 DEF Evidence
  <2>3. case'.change_plan = case.change_plan /\ case'.change_window = case.change_window
    BY <1>1, <1>3, <1>5, <1>24 DEF PlanAfter, WindowAfter, Reopens, OrElse
  <2> QED
    BY <1>5, <1>6, <2>1, <2>2, <2>3
    DEF EvidenceInOrder, SupersededEvidenceGone, Newer, Evidence
<1>25. CASE t = "resume"
  <2>1. /\ Stage(case)' = s
        /\ names = {}
        /\ Withdrawn(case, t) = {}
    BY <1>1, <1>2, <1>3, <1>5, <1>25
    DEF Sources, StateAfter, Reopens, Stage, Attached, Withdrawn,
        RequiredRecord, BlockedFromAfter, NoState, ActiveStates, ReopenStates, Target
  <2>2. \A n \in Evidence : case'.record_ids[n] = case.record_ids[n]
    BY <1>4, <2>1 DEF Evidence
  <2>3. case'.change_plan = case.change_plan /\ case'.change_window = case.change_window
    BY <1>1, <1>3, <1>5, <1>25 DEF PlanAfter, WindowAfter, Reopens, OrElse
  <2> QED
    BY <1>5, <1>6, <2>1, <2>2, <2>3
    DEF EvidenceInOrder, SupersededEvidenceGone, Newer, Evidence
<1>26. CASE t = "reprioritize"
  <2>1. /\ Stage(case)' = s
        /\ names = {"risk_assessment_id"}
        /\ Withdrawn(case, t) = {}
    BY <1>1, <1>2, <1>3, <1>5, <1>26
    DEF Sources, StateAfter, Reopens, Stage, Attached, Withdrawn,
        RequiredRecord, BlockedFromAfter, NoState, ActiveStates, ReopenStates, Target
  <2>2. \A n \in Evidence : case'.record_ids[n] = case.record_ids[n]
    BY <1>4, <2>1 DEF Evidence
  <2>3. case'.change_plan = case.change_plan /\ case'.change_window = case.change_window
    BY <1>1, <1>3, <1>5, <1>26 DEF PlanAfter, WindowAfter, Reopens, OrElse
  <2> QED
    BY <1>5, <1>6, <2>1, <2>2, <2>3
    DEF EvidenceInOrder, SupersededEvidenceGone, Newer, Evidence
<1>27. CASE t = "add_finding" /\ ~Reopens(case, t)
  <2>1. /\ Stage(case)' = s
        /\ names = {"finding_id"}
        /\ Withdrawn(case, t) = {}
    BY <1>1, <1>2, <1>3, <1>5, <1>27
    DEF Sources, StateAfter, Reopens, Stage, Attached, Withdrawn,
        RequiredRecord, BlockedFromAfter, NoState, ActiveStates, ReopenStates, Target
  <2>2. \A n \in Evidence : case'.record_ids[n] = case.record_ids[n]
    BY <1>4, <2>1 DEF Evidence
  <2>3. case'.change_plan = case.change_plan /\ case'.change_window = case.change_window
    BY <1>1, <1>3, <1>5, <1>27 DEF PlanAfter, WindowAfter, Reopens, OrElse
  <2> QED
    BY <1>5, <1>6, <2>1, <2>2, <2>3
    DEF EvidenceInOrder, SupersededEvidenceGone, Newer, Evidence
<1>28. CASE t = "add_finding" /\ Reopens(case, t)
  <2>1. /\ s \in ReopenStates
        /\ Stage(case)' = "prioritized"
        /\ names = {"finding_id"}
        /\ Withdrawn(case, t) = {"validation_result_id", "iac_link_id", "change_plan_id",
                "sre_review_id", "change_window_id", "rollback_review_id",
                "review_feedback_id", "policy_decision_id", "human_review_package_id",
                "approval_id", "schedule_id"}
    BY <1>1, <1>2, <1>3, <1>5, <1>28
    DEF Sources, StateAfter, Reopens, Stage, Attached, Withdrawn,
        RequiredRecord, BlockedFromAfter, NoState, ActiveStates, ReopenStates, Target
  <2>2. /\ case'.record_ids["iac_link_id"] = NoId
        /\ case'.record_ids["change_plan_id"] = NoId
        /\ case'.record_ids["sre_review_id"] = NoId
        /\ case'.record_ids["change_window_id"] = NoId
        /\ case'.record_ids["rollback_review_id"] = NoId
        /\ case'.record_ids["policy_decision_id"] = NoId
        /\ case'.record_ids["human_review_package_id"] = NoId
        /\ case'.record_ids["approval_id"] = NoId
        /\ case'.record_ids["schedule_id"] = NoId
        /\ \A n \in Evidence \ {"iac_link_id", "change_plan_id", "sre_review_id",
                "change_window_id", "rollback_review_id", "policy_decision_id",
                "human_review_package_id", "approval_id", "schedule_id"} :
                case'.record_ids[n] = case.record_ids[n]
    BY <1>4, <2>1 DEF Evidence
  <2>3. case'.change_plan = NoId /\ case'.change_window = NoId
    BY <1>1, <1>3, <1>5, <1>28 DEF PlanAfter, WindowAfter, Reopens, OrElse
  <2> QED
    BY <1>5, <1>6, <2>1, <2>2, <2>3
    DEF EvidenceInOrder, SupersededEvidenceGone, Newer, Evidence
<1>29. CASE t = "block"
  <2>1. /\ Stage(case)' = s /\ Withdrawn(case, t) = {}
        /\ names \cap Evidence \in {{}, {"sre_review_id"}, {"rollback_review_id"}}
    BY <1>1, <1>2, <1>3, <1>5, <1>29
    DEF Sources, StateAfter, Reopens, Target, Stage, Attached, Withdrawn,
        BlockedFromAfter, Evidence
  <2>2. /\ \A n \in {"sre_review_id", "rollback_review_id"} :
              case'.record_ids[n] \in {new, case.record_ids[n]}
        /\ \A n \in Evidence \ {"sre_review_id", "rollback_review_id"} :
              case'.record_ids[n] = case.record_ids[n]
    BY <1>4, <2>1 DEF Evidence
  <2>3. case'.change_plan = case.change_plan /\ case'.change_window = case.change_window
    BY <1>1, <1>3, <1>5, <1>29 DEF PlanAfter, WindowAfter, Reopens, OrElse
  <2> QED
    BY <1>5, <1>6, <2>1, <2>2, <2>3
    DEF EvidenceInOrder, SupersededEvidenceGone, Newer, Evidence
<1>30. CASE t = "reject"
  <2>1. Stage(case)' = "rejected"
    BY <1>2, <1>3, <1>30 DEF Sources, StateAfter, Reopens, Target, Stage
  <2> QED
    BY <2>1 DEF EvidenceInOrder, SupersededEvidenceGone
<1> QED
  BY <1>7, <1>8, <1>9, <1>10, <1>11, <1>12, <1>13, <1>14, <1>15, <1>16, <1>17, <1>18,
     <1>19, <1>20, <1>21, <1>22, <1>23, <1>24, <1>25, <1>26, <1>27, <1>28, <1>29, <1>30
  DEF Transitions, Target

\* The callers of transition_case draw such ids.
LEMMA TakesEvidence ==
  ASSUME CaseIInv, NEW t \in Transitions, Takes(t)
  PROVE  EvidenceInOrder' /\ SupersededEvidenceGone'
<1> PICK names \in Attached(t), adds \in Additions(t) :
      /\ Permits(case, RequestOf(case, t, names, adds))
      /\ case' = Apply(case, RequestOf(case, t, names, adds))
  BY DEF Takes
<1> DEFINE new == case.version + 1
<1>1. PICK r : r = RequestOf(case, t, names, adds)
  OBVIOUS
<1>2. NewerThanAll(new)
  BY DEF CaseIInv, IdsBounded, Case, RecordNames, Evidence, NewerThanAll
<1>3. AttachesNew(t, r, new)
  <2>1. /\ r.transition = t /\ DOMAIN r.records = names
        /\ \A n \in names : r.records[n] = AttachedId(case, t)
        /\ r.change_plan = (IF t = "prepare_plan" THEN new ELSE NoId)
        /\ r.change_window = (IF t = "select_window" THEN new ELSE NoId)
    BY <1>1 DEF RequestOf, Request
  <2>2. t = "retry_sre" => names \cap Evidence = {}
    BY DEF Attached, RequiredRecord, Evidence
  <2> QED
    BY <2>1, <2>2 DEF AttachesNew, AttachedId
<1> QED
  BY <1>1, <1>2, <1>3, RequestEvidence DEF CaseIInv

\* A case that WorkflowCoordinator.open makes.
LEMMA OpenCaseIInv ==
  ASSUME NEW findings \in SUBSET Findings, case = OpenCase(findings)
  PROVE  CaseIInv
<1>1. /\ case.state = "open" /\ case.blocked_from = NoState
      /\ case.version = 0 /\ case.change_plan = NoId /\ case.change_window = NoId
      /\ case.record_ids = NoRecords /\ case \in Case
  BY DEF OpenCase, Case, NoRecords, CaseStates, ActiveStates, NoId, NoState
<1>2. \A n \in RecordNames : case.record_ids[n] = NoId
  BY <1>1 DEF NoRecords
<1>3. StageTyped /\ IdsBounded
  BY <1>1, <1>2 DEF StageTyped, IdsBounded, NoId
<1> QED
  BY <1>1, <1>2, <1>3
  DEF CaseIInv, EvidenceInOrder, SupersededEvidenceGone, Stage, Planned, SreReviewed,
      Windowed, RolledReady, Packaged, Approved, Executing, RecordNames

\* What a transition keeps of a case, whoever requests it.
LEMMA TakesCaseIInv ==
  ASSUME CaseIInv, NEW t \in Transitions, Takes(t)
  PROVE  CaseIInv'
BY TakesTypes, TakesEvidence DEF CaseIInv

\* Every step of the case, and a step of nothing, preserves the invariant.
LEMMA StepIInv == IInv /\ [Next]_case => IInv'
<1> SUFFICES ASSUME IInv, [Next]_case PROVE IInv'
  OBVIOUS
<1>1. ASSUME NEW findings \in SUBSET Findings, Open(findings) PROVE IInv'
  BY <1>1, OpenIInv
<1>2. ASSUME NEW t \in Transitions, Advance(t) PROVE IInv'
  <2>1. Takes(t)
    BY <1>2 DEF Advance, Takes
  <2>2. case.state \in ActiveStates
    BY <2>1 DEF Takes, Permits, RequestOf, Request, Transitions, Target, Sources, ActiveStates,
                ReopenStates
  <2>3. CaseIInv
    BY <2>2, UnopenedFields DEF IInv, TypeOK, CaseIInv, StageTyped, ActiveStates, ReopenStates
  <2> QED
    BY <2>1, <2>3, TakesCaseIInv DEF CaseIInv, IInv, TypeOK, StageTyped
<1>3. CASE UNCHANGED case
  BY <1>3 DEF IInv, TypeOK, IdsBounded, EvidenceInOrder, SupersededEvidenceGone,
              Stage, Newer
<1> QED
  BY <1>1, <1>2, <1>3 DEF Next

\* The inductive invariant holds of every reachable state.
LEMMA Invariance == Spec => []IInv
BY InitIInv, StepIInv, PTL DEF Spec

\* A stored case has the type of RemediationCase and is blocked from a state it can
\* be resumed to, exactly while it is blocked (cases.py, transition_case).
THEOREM TypeCorrect == Spec => []TypeOK
<1>1. IInv => TypeOK
  BY DEF IInv
<1> QED
  BY Invariance, <1>1, PTL

\* Whatever rework, retries, blocks and resumes a case went through, the evidence its
\* stage relies on is attached and was produced in the order of the pipeline.
THEOREM EvidenceOrder == Spec => []EvidenceInOrder
<1>1. IInv => EvidenceInOrder
  BY DEF IInv
<1> QED
  BY Invariance, <1>1, PTL

\* No transition back leaves an artifact of a stage it undid on the case.
THEOREM SupersededWithdrawn == Spec => []SupersededEvidenceGone
<1>1. IInv => SupersededEvidenceGone
  BY DEF IInv
<1> QED
  BY Invariance, <1>1, PTL
==============================================================================
