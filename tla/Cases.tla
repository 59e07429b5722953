-------------------------------- MODULE Cases --------------------------------
(***************************************************************************)
(* The domain of a remediation case: src/elcapitan/cases.py.  A case is an *)
(* immutable projection and transition_case maps a projection and a        *)
(* request to the next projection, or raises.  Nothing here has a variable:*)
(* the modules that keep cases apply Permits and Apply to their own state. *)
(*                                                                         *)
(* Record ids, plan ids, window ids and assessment ids are natural numbers;*)
(* NoId is the absent id.  What the records say is left to the modules     *)
(* that produce them.                                                      *)
(***************************************************************************)
EXTENDS Naturals

CONSTANT Findings          \* finding ids that can ever reach the case

NoId == 0
NoState == "none"          \* blocked_from is None

TerminalStates == {"remediated", "rolled_back", "closed_no_action", "rejected"}

\* States a late finding takes back to triage (reopened_for_validation).
ReopenStates == {"validated", "plan_ready", "sre_approved", "window_selected",
                 "rollback_ready", "awaiting_approval", "approved"}

ActiveStates == ReopenStates \cup
                {"open", "prioritized", "executing", "verifying",
                 "rolling_back", "blocked"}

CaseStates == ActiveStates \cup TerminalStates

\* The state a transition leads to, when it does not depend on the case.
Target == [prioritize |-> "prioritized",         validate |-> "validated",
           prepare_plan |-> "plan_ready",        approve_sre |-> "sre_approved",
           select_window |-> "window_selected",  review_rollback |-> "rollback_ready",
           request_approval |-> "awaiting_approval",
           approve_change |-> "approved",        start_execution |-> "executing",
           start_verification |-> "verifying",   complete_remediation |-> "remediated",
           start_rollback |-> "rolling_back",    complete_rollback |-> "rolled_back",
           retry_sre |-> "plan_ready",           request_rework |-> "validated",
           reselect_window |-> "sre_approved",   block |-> "blocked",
           close_no_action |-> "closed_no_action", reject |-> "rejected"]

Transitions == DOMAIN Target \cup
               {"add_finding", "reprioritize", "schedule_execution", "resume"}

\* The states a transition may start from.
Sources ==
  [prioritize |-> {"open"},                  validate |-> {"prioritized"},
   prepare_plan |-> {"validated"},           approve_sre |-> {"plan_ready"},
   select_window |-> {"sre_approved"},       review_rollback |-> {"window_selected"},
   request_approval |-> {"rollback_ready"},  approve_change |-> {"awaiting_approval"},
   start_execution |-> {"approved"},         start_verification |-> {"executing"},
   complete_remediation |-> {"verifying"},   start_rollback |-> {"executing", "verifying"},
   complete_rollback |-> {"rolling_back"},   add_finding |-> ActiveStates,
   reprioritize |-> ActiveStates,            schedule_execution |-> {"approved"},
   retry_sre |-> {"sre_approved", "window_selected"},
   request_rework |-> {"window_selected"},   reselect_window |-> {"rollback_ready"},
   block |-> ActiveStates \ {"blocked"},     resume |-> {"blocked"},
   close_no_action |-> {"prioritized", "validated"},
   reject |-> {"plan_ready", "sre_approved", "window_selected", "rollback_ready",
               "awaiting_approval"}]

\* _REQUIRED_RECORDS: the record a transition must attach.
RequiredRecord ==
  [add_finding |-> "finding_id",               prioritize |-> "risk_assessment_id",
   reprioritize |-> "risk_assessment_id",      validate |-> "validation_result_id",
   prepare_plan |-> "change_plan_id",          approve_sre |-> "sre_review_id",
   retry_sre |-> "review_feedback_id",         select_window |-> "change_window_id",
   review_rollback |-> "rollback_review_id",   request_rework |-> "review_feedback_id",
   request_approval |-> "policy_decision_id",  approve_change |-> "approval_id",
   schedule_execution |-> "schedule_id",       start_execution |-> "execution_id",
   start_verification |-> "execution_result_id",
   complete_remediation |-> "verification_result_id",
   start_rollback |-> "rollback_execution_id",
   complete_rollback |-> "verification_result_id"]

\* The keys of record_ids: the required ones, then those that only call sites name.
RecordNames ==
  {"finding_id", "risk_assessment_id", "validation_result_id", "change_plan_id",
   "sre_review_id", "review_feedback_id", "change_window_id", "rollback_review_id",
   "policy_decision_id", "approval_id", "schedule_id", "execution_id",
   "execution_result_id", "verification_result_id", "rollback_execution_id",
   "iac_link_id", "human_review_package_id", "execution_job_id", "rejection_id",
   "agent_run_terminal_id", "rollback_failure_id", "remediation_certificate_id",
   "originator_handoff_id"}

Case == [state : CaseStates, version : Nat, findings : SUBSET Findings,
         blocked_from : CaseStates \cup {NoState},
         priority : Nat, change_plan : Nat, change_window : Nat,
         record_ids : [RecordNames -> Nat]]

NoRecords == [n \in RecordNames |-> NoId]

OpenCase(findings) ==
  [state |-> "open", version |-> 0, findings |-> findings, blocked_from |-> NoState,
   priority |-> NoId, change_plan |-> NoId, change_window |-> NoId,
   record_ids |-> NoRecords]

IsTerminal(c) == c.state \in TerminalStates

------------------------------------------------------------------------------
(***************************************************************************)
(* A request is what a caller passes to transition_case:                   *)
(*   transition, records (the names it attaches, with their ids), the      *)
(*   finding ids it adds, the typed value it carries (priority, plan or    *)
(*   window; NoId when None).                                              *)
(* A request without the detail that some transitions demand is refused    *)
(* and changes nothing; no caller sends one, so detail is left out.        *)
(***************************************************************************)
Request(t, records, additions, value) ==
  [transition |-> t, records |-> records, additions |-> additions,
   priority |-> IF t \in {"prioritize", "reprioritize"} THEN value ELSE NoId,
   change_plan |-> IF t = "prepare_plan" THEN value ELSE NoId,
   change_window |-> IF t = "select_window" THEN value ELSE NoId]

\* Every condition under which transition_case does not raise.
Permits(c, r) ==
  LET t == r.transition IN
    /\ c.state \in Sources[t]
    /\ t \in DOMAIN RequiredRecord =>
         /\ RequiredRecord[t] \in DOMAIN r.records
         /\ r.records[RequiredRecord[t]] # NoId
    /\ IF t = "add_finding" THEN r.additions \ c.findings # {} ELSE r.additions = {}
    /\ t = "resume" => c.blocked_from # NoState
    /\ r.priority # NoId <=> t \in {"prioritize", "reprioritize"}
    /\ r.change_plan # NoId <=> t = "prepare_plan"
    /\ r.change_window # NoId <=> t = "select_window"

\* Mutants of the definitions below: plausible slips in transition_case.
ReopensWhileExecuting(c, t) ==
  t = "add_finding" /\ c.state \in ReopenStates \cup {"executing"}

StateWithoutReopening(c, t) ==
  CASE t = "resume" -> c.blocked_from
    [] t \in DOMAIN Target -> Target[t]
    [] OTHER -> c.state

BlockedFromLeftOnResume(c, t) ==
  CASE t = "block" -> c.state
    [] t \in {"add_finding", "reprioritize", "schedule_execution", "resume"}
         -> c.blocked_from
    [] OTHER -> NoState

Reopens(c, t) == t = "add_finding" /\ c.state \in ReopenStates

StateAfter(c, t) ==
  CASE Reopens(c, t) -> "prioritized"
    [] t = "resume" -> c.blocked_from
    [] t \in DOMAIN Target -> Target[t]
    [] OTHER -> c.state

BlockedFromAfter(c, t) ==
  CASE t = "block" -> c.state
    [] t \in {"add_finding", "reprioritize", "schedule_execution"} /\ ~Reopens(c, t)
         -> c.blocked_from
    [] OTHER -> NoState

\* The record ids a transition withdraws before it attaches its own.
Withdrawn(c, t) ==
  CASE Reopens(c, t) ->
         {"validation_result_id", "iac_link_id", "change_plan_id", "sre_review_id",
          "change_window_id", "rollback_review_id", "review_feedback_id",
          "policy_decision_id", "human_review_package_id", "approval_id", "schedule_id"}
    [] t = "retry_sre" -> {"sre_review_id", "change_window_id"}
    [] t = "request_rework" ->
         {"iac_link_id", "change_plan_id", "sre_review_id", "change_window_id",
          "rollback_review_id", "policy_decision_id", "human_review_package_id"}
    [] t = "reselect_window" ->
         {"change_window_id", "rollback_review_id", "policy_decision_id",
          "human_review_package_id"}
    [] OTHER -> {}

\* Mutant: a reopened case keeps the feedback of its last review.
RecordsWithFeedback(c, r) ==
  [n \in RecordNames |->
     IF n \in DOMAIN r.records THEN r.records[n]
     ELSE IF n \in Withdrawn(c, r.transition) \ {"review_feedback_id"} THEN NoId
     ELSE c.record_ids[n]]

RecordsAfter(c, r) ==
  [n \in RecordNames |->
     IF n \in DOMAIN r.records THEN r.records[n]
     ELSE IF n \in Withdrawn(c, r.transition) THEN NoId
     ELSE c.record_ids[n]]

\* "priority or case.priority", and the same for the plan and the window.
OrElse(value, old) == IF value # NoId THEN value ELSE old

PlanAfter(c, r) ==
  IF Reopens(c, r.transition) \/ r.transition = "request_rework" THEN NoId
  ELSE OrElse(r.change_plan, c.change_plan)

\* Mutant: an SRE retry forgets the window selected under the refused review.
WindowKeptOnRetry(c, r) ==
  IF Reopens(c, r.transition) \/ r.transition \in {"reselect_window", "request_rework"}
  THEN NoId
  ELSE OrElse(r.change_window, c.change_window)

WindowAfter(c, r) ==
  IF \/ Reopens(c, r.transition)
     \/ r.transition \in {"retry_sre", "reselect_window", "request_rework"}
  THEN NoId
  ELSE OrElse(r.change_window, c.change_window)

\* The projection transition_case returns.
Apply(c, r) ==
  [state |-> StateAfter(c, r.transition), version |-> c.version + 1,
   findings |-> c.findings \cup r.additions,
   blocked_from |-> BlockedFromAfter(c, r.transition),
   priority |-> OrElse(r.priority, c.priority),
   change_plan |-> PlanAfter(c, r), change_window |-> WindowAfter(c, r),
   record_ids |-> RecordsAfter(c, r)]

\* The event transition_case returns beside it.  The findings an ADD_FINDING event
\* adds are those its record_ids name.  Mutant: the sequence is not advanced.
EventNotAdvanced(c, r) ==
  [sequence |-> c.version, transition |-> r.transition,
   from |-> c.state, to |-> StateAfter(c, r.transition), additions |-> r.additions]

EventOf(c, r) ==
  [sequence |-> c.version + 1, transition |-> r.transition,
   from |-> c.state, to |-> StateAfter(c, r.transition), additions |-> r.additions]
------------------------------------------------------------------------------
(***************************************************************************)
(* What the callers in src/elcapitan ask of transition_case.  A caller     *)
(* names a new record with a fresh id; the id used here is the sequence    *)
(* number of the event that attaches it, which is as fresh and lets the    *)
(* properties say which of two records is the newer.                       *)
(***************************************************************************)
\* The case before WorkflowCoordinator.open; it is in no CaseState.
Unopened == [OpenCase({}) EXCEPT !.state = "unopened"]

\* The record names a call site attaches, by transition: what is required, and
\* what the callers in src/elcapitan add to it.
Attached(t) ==
  CASE t = "prepare_plan" -> {{"change_plan_id", "iac_link_id"}}
    [] t = "request_approval" -> {{"policy_decision_id", "human_review_package_id"}}
    [] t = "schedule_execution" -> {{"schedule_id", "execution_job_id"}}
    [] t = "complete_remediation" -> {{"verification_result_id",
                                       "remediation_certificate_id",
                                       "originator_handoff_id"}}
    [] t = "block" -> {{"validation_result_id"}, {"sre_review_id"},
                       {"rollback_review_id"}, {"agent_run_terminal_id"},
                       {"rollback_failure_id"}, {"verification_result_id"}}
    [] t = "reject" -> {{"sre_review_id"}, {"rollback_review_id"}, {"rejection_id"}}
    [] t = "close_no_action" -> {{"validation_result_id"}}
    [] t \in {"resume", "reselect_window"} -> {{}}
    [] OTHER -> {{RequiredRecord[t]}}

\* retry_invalid_approval hands the refused SRE review on as feedback.
AttachedId(c, t) ==
  IF t = "retry_sre" THEN c.record_ids["sre_review_id"] ELSE c.version + 1

\* The findings a call site adds: intake adds one at a time.
Additions(t) == IF t = "add_finding" THEN {{f} : f \in Findings} ELSE {{}}

RequestOf(c, t, names, additions) ==
  Request(t, [n \in names |-> AttachedId(c, t)], additions, c.version + 1)
==============================================================================
