----------------------------- MODULE Preparation -----------------------------
(***************************************************************************)
(* One case between triage and the decision of a person: live validation   *)
(* (case_validation.py), admission by a promotion (promotion.py), the      *)
(* review workers that plan, review and assemble the package               *)
(* (remediation_planning.py, preapproval.py, orchestration.py,             *)
(* review_worker.py), the person who decides on it (review_control.py,     *)
(* action_plane.py) and intake attaching late findings meanwhile.          *)
(*                                                                         *)
(* Every service works the same way: it reads the case and its records,    *)
(* works on them for a long time, puts a record of what it found and       *)
(* advances whatever the case is by then.  So a call is two steps; what it *)
(* has read is kept between them, and all the others act between them.     *)
(***************************************************************************)
EXTENDS Cases, Sequences

CONSTANTS
  Reviewers,     \* review workers (prepare_review)
  Validator,     \* the shadow service's CaseValidationService
  Person,        \* a decision in the ReviewControlPlane
  Plannable,     \* findings whose control has a planning capability
  Iterations,    \* bound of the loop of advance_to_human_review
  MaxVersion,    \* bound on the version of the case (model bound)
  MaxTime        \* bound on the clock (model bound)

ASSUME PlannableAssumption == Plannable \subseteq Findings

ASSUME ActorsAssumption ==
  Validator \notin Reviewers /\ Person \notin Reviewers /\ Validator # Person

ASSUME BoundsAssumption ==
  Iterations \in Nat /\ MaxVersion \in Nat /\ MaxTime \in Nat

VARIABLES
  now,
  case,        \* the stored case
  reworked,    \* its events hold a REQUEST_REWORK after the last ADD_FINDING to PRIORITIZED
  assigned,    \* findings list_for_case returns: assigned to the case in the finding store
  records,     \* the product records of the case; an id is the place in the sequence
  call,        \* by actor, the call under way with what it has read, NoCall when there is none
  run,         \* by reviewer, the loop of advance_to_human_review, NoRun when there is none
  shown        \* the package the person has on the screen

vars == <<now, case, reworked, assigned, records, call, run, shown>>

Actors == Reviewers \cup {Validator, Person}

NoCall == [stage |-> "none"]
NoRun == [scope |-> {}, validation |-> NoId, used |-> 0, reselected |-> 0]

\* The record a case names.
Named(name) == records[case.record_ids[name]]
Has(name) == case.record_ids[name] # NoId

Validation(of, confirmed) ==
  [type |-> "ValidationResult.v1", of |-> of, confirmed |-> confirmed]
Plan(validation, scope) ==
  [type |-> "RemediationPlan.v1", validation |-> validation, scope |-> scope]
SREReview(plan, decision, sound) ==
  [type |-> "SREReview.v1", plan |-> plan, decision |-> decision, sound |-> sound]

\* A case that was just triaged; or one that an earlier release left with an SRE
\* approval that fails today's rules (retry_invalid_approval).
Init ==
  /\ now = 0
  /\ \E f \in Plannable :
       LET opened == [OpenCase({f}) EXCEPT !.state = "prioritized", !.version = 1,
                                           !.priority = 1,
                                           !.record_ids["risk_assessment_id"] = 1]
       IN
       /\ assigned = {f}
       /\ \/ case = opened /\ records = <<>>
          \/ /\ records = <<Validation({f}, {f}), Plan(1, {f}), SREReview(2, "approve", FALSE)>>
             /\ case = [opened EXCEPT !.state = "sre_approved", !.version = 4,
                                      !.change_plan = 2,
                                      !.record_ids["validation_result_id"] = 1,
                                      !.record_ids["iac_link_id"] = 2,
                                      !.record_ids["change_plan_id"] = 2,
                                      !.record_ids["sre_review_id"] = 3]
  /\ reworked = FALSE
  /\ call = [a \in Actors |-> NoCall]
  /\ run = [w \in Reviewers |-> NoRun]
  /\ shown = NoId

------------------------------------------------------------------------------
\* An advance of the case.  advance reads the case again, so all it asks is that the
\* transition is permitted on what the case has become; else it raises.
Advance(r) ==
  /\ case.version < MaxVersion
  /\ Permits(case, r)
  /\ case' = Apply(case, r)
  /\ reworked' = CASE r.transition = "request_rework" -> TRUE
                   [] r.transition = "add_finding" /\ case'.state = "prioritized" -> FALSE
                   [] OTHER -> reworked

\* A record is put and the case advanced by it.  A record whose advance is refused, or
\* whose process dies before the advance, is named by nothing and read by nobody.
PutAndAdvance(record, t, names) ==
  LET id == Len(records) + 1 IN
    /\ records' = Append(records, record)
    /\ Advance(Request(t, [n \in names |-> id], {}, id))

Calls(a, c) == call' = [call EXCEPT ![a] = c]
Returns(a) == Calls(a, NoCall)

Tick ==
  /\ now < MaxTime
  /\ now' = now + 1
  /\ UNCHANGED <<case, reworked, assigned, records, call, run, shown>>

\* ingest: ADD_FINDING of a finding correlated to the case ...
AddFinding(f) ==
  /\ f \notin case.findings
  /\ Advance(Request("add_finding", [n \in {"finding_id"} |-> 1], {f}, NoId))
  /\ UNCHANGED <<now, assigned, records, call, run, shown>>

\* Mutant: the finding is assigned before it is attached.
AssignEarly(f) ==
  /\ f \in Findings \ assigned
  /\ assigned' = assigned \cup {f}
  /\ UNCHANGED <<now, case, reworked, records, call, run, shown>>

\* ... and, later, assign_case in the finding store.
Assign(f) ==
  /\ f \in case.findings \ assigned
  /\ assigned' = assigned \cup {f}
  /\ UNCHANGED <<now, case, reworked, records, call, run, shown>>

------------------------------------------------------------------------------
\* validate: the case is prioritized; its findings are those the finding store knows.
ValidateBegin ==
  /\ call[Validator] = NoCall
  /\ case.state = "prioritized"
  /\ Calls(Validator, [stage |-> "validate", of |-> assigned])
  /\ UNCHANGED <<now, case, reworked, assigned, records, run, shown>>

\* The live state confirms some of them and, of the others, may leave some unread.
ValidateFinish ==
  LET c == call[Validator] IN
    /\ c.stage = "validate"
    /\ \E confirmed \in SUBSET c.of, incomplete \in BOOLEAN :
         PutAndAdvance(Validation(c.of, confirmed),
                       CASE confirmed # {} -> "validate"
                         [] confirmed = {} /\ incomplete -> "block"
                         [] OTHER -> "close_no_action",
                       {"validation_result_id"})
    /\ Returns(Validator)
    /\ UNCHANGED <<now, assigned, run, shown>>

------------------------------------------------------------------------------
PreapprovalStates ==
  {"validated", "plan_ready", "sre_approved", "window_selected", "rollback_ready"}

\* inspect: what a promotion would hand over.
Confirmed == {f \in Named("validation_result_id").confirmed : f \in assigned} \cap Plannable

Eligible ==
  /\ case.state \in PreapprovalStates
  /\ Has("validation_result_id")
  /\ assigned \subseteq Named("validation_result_id").of
  /\ Confirmed # {}

\* prepare_review: require, with the token of what inspect says now, then the loop.
Start(w) ==
  /\ run[w] = NoRun
  /\ Eligible
  /\ run' = [run EXCEPT ![w] = [scope |-> Confirmed,
                                validation |-> case.record_ids["validation_result_id"],
                                used |-> 0, reselected |-> 0]]
  /\ UNCHANGED <<now, case, reworked, assigned, records, call, shown>>

Running(w) == run[w] # NoRun /\ call[w] = NoCall

Ends(w) == run' = [run EXCEPT ![w] = NoRun]

\* What planning asks of the record of review_feedback_id.
FeedbackUsable ==
  Has("review_feedback_id") =>
    /\ Named("review_feedback_id").type = "RollbackReview.v1"
    /\ Named("review_feedback_id").changes

\* RemediationPlanningService.prepare up to the agent's task.
PlanBegin(w) ==
  /\ case.state = "validated"
  /\ run[w].scope \subseteq assigned
  /\ Has("validation_result_id")
  /\ run[w].scope \subseteq Named("validation_result_id").confirmed
  /\ FeedbackUsable
  /\ Calls(w, [stage |-> "plan", scope |-> run[w].scope,
               validation |-> case.record_ids["validation_result_id"]])

\* SREReviewService.review up to the agent's task.
SREBegin(w) ==
  /\ case.state = "plan_ready"
  /\ Has("change_plan_id")
  /\ Calls(w, [stage |-> "sre", plan |-> case.record_ids["change_plan_id"]])

\* retry_invalid_approval comes first in both states that follow an SRE approval.
Refused == Has("sre_review_id") /\ ~Named("sre_review_id").sound

RetryBegin(w) ==
  /\ case.state \in {"sre_approved", "window_selected"} /\ Refused
  /\ Calls(w, [stage |-> "retry", sre |-> case.record_ids["sre_review_id"]])

Approved(name) == Has(name) /\ Named(name).decision = "approve"

\* ChangeWindowService.select up to the agent's task.
WindowBegin(w) ==
  /\ case.state = "sre_approved" /\ ~Refused
  /\ Approved("sre_review_id")
  /\ Calls(w, [stage |-> "window", sre |-> case.record_ids["sre_review_id"], at |-> now])

\* RollbackReviewService.review up to the agent's task.
RollbackBegin(w) ==
  /\ case.state = "window_selected" /\ ~Refused
  /\ Has("change_plan_id") /\ Has("sre_review_id") /\ Has("change_window_id")
  /\ Calls(w, [stage |-> "rollback", plan |-> case.record_ids["change_plan_id"],
               window |-> case.record_ids["change_window_id"]])

WindowStarted == records[case.change_window].start <= now

\* reselect_started
ReselectBegin(w) ==
  /\ case.state = "rollback_ready" /\ case.change_window # NoId /\ WindowStarted
  /\ Calls(w, [stage |-> "reselect"])

\* HumanReviewGate.prepare: every check on what it reads.
GateBegin(w) ==
  /\ case.state = "rollback_ready" /\ case.change_window # NoId /\ ~WindowStarted
  /\ Approved("sre_review_id") /\ ~Refused /\ Approved("rollback_review_id")
  /\ Calls(w, [stage |-> "gate",
               package |-> [type |-> "HumanReviewPackage.v1",
                            validation |-> case.record_ids["validation_result_id"],
                            plan |-> case.record_ids["change_plan_id"],
                            sre |-> case.record_ids["sre_review_id"],
                            window |-> case.record_ids["change_window_id"],
                            rollback |-> case.record_ids["rollback_review_id"]]])

\* One turn of the loop of advance_to_human_review reads the state of the case and
\* calls the service for it.
Turn(w) ==
  /\ Running(w)
  /\ run[w].used < Iterations
  /\ \/ PlanBegin(w) \/ SREBegin(w) \/ RetryBegin(w) \/ WindowBegin(w)
     \/ RollbackBegin(w) \/ ReselectBegin(w) \/ GateBegin(w)
  /\ run' = [run EXCEPT ![w].used = @ + 1]
  /\ UNCHANGED <<now, case, reworked, assigned, records, shown>>

------------------------------------------------------------------------------
\* The agent has answered within its contract and every check has passed.
PlanFinish(w) ==
  LET c == call[w] IN
    /\ c.stage = "plan"
    /\ PutAndAdvance(Plan(c.validation, c.scope), "prepare_plan",
                     {"change_plan_id", "iac_link_id"})
    /\ UNCHANGED run

\* The agent approves, rejects or asks for more.  An approval meets the rules of today:
\* _run has the agent correct it, or raises.
SREFinish(w) ==
  LET c == call[w] IN
    /\ c.stage = "sre"
    /\ \/ /\ PutAndAdvance(SREReview(c.plan, "approve", TRUE), "approve_sre",
                           {"sre_review_id"})
          /\ UNCHANGED run
       \/ \E t \in {"reject", "block"} :
            /\ PutAndAdvance(SREReview(c.plan, t, TRUE), t, {"sre_review_id"})
            /\ Ends(w)

RetryFinish(w) ==
  /\ call[w].stage = "retry"
  /\ Advance(Request("retry_sre", [n \in {"review_feedback_id"} |-> call[w].sre], {}, NoId))
  /\ UNCHANGED <<records, run>>

\* A candidate lies in the future of the moment the service read the clock.
WindowFinish(w) ==
  LET c == call[w] IN
    /\ c.stage = "window"
    /\ PutAndAdvance([type |-> "ChangeWindowRecommendation.v1", sre |-> c.sre,
                      start |-> c.at + 1], "select_window", {"change_window_id"})
    /\ UNCHANGED run

\* Mutant: every rejection is a rework.
AlwaysReworkable == TRUE

\* The first rejection of a cycle is a rework; the next is final.
Reworkable == ~reworked

\* The agent approves, rejects with the changes it requires, or asks for more.
RollbackFinish(w) ==
  LET c == call[w]
      review(d) == [type |-> "RollbackReview.v1", plan |-> c.plan, window |-> c.window,
                    decision |-> d, changes |-> d = "reject"]
  IN
    /\ c.stage = "rollback"
    /\ \/ /\ PutAndAdvance(review("approve"), "review_rollback", {"rollback_review_id"})
          /\ UNCHANGED run
       \/ /\ Reworkable
          /\ PutAndAdvance(review("reject"), "request_rework", {"review_feedback_id"})
          /\ UNCHANGED run
       \/ /\ ~Reworkable
          /\ PutAndAdvance(review("reject"), "reject", {"rollback_review_id"})
          /\ Ends(w)
       \/ /\ PutAndAdvance(review("needs_more_evidence"), "block", {"rollback_review_id"})
          /\ Ends(w)

ReselectFinish(w) ==
  /\ call[w].stage = "reselect"
  /\ Advance(Request("reselect_window", [n \in {} |-> NoId], {}, NoId))
  /\ run' = [run EXCEPT ![w].reselected = @ + 1]
  /\ UNCHANGED records

GateFinish(w) ==
  /\ call[w].stage = "gate"
  /\ PutAndAdvance(call[w].package, "request_approval",
                   {"policy_decision_id", "human_review_package_id"})
  /\ Ends(w)

Finish(w) ==
  /\ \/ PlanFinish(w) \/ SREFinish(w) \/ RetryFinish(w) \/ WindowFinish(w)
     \/ RollbackFinish(w) \/ ReselectFinish(w) \/ GateFinish(w)
  /\ Returns(w)
  /\ UNCHANGED <<now, assigned, shown>>

\* The agent run was stopped (AgentRunStopped): _block_agent_run reads the case again
\* and blocks it whatever its state is by then.
AgentStopped(w) ==
  /\ call[w].stage \in {"plan", "sre", "window", "rollback"}
  /\ PutAndAdvance([type |-> "AgentRunTerminal.v1"], "block", {"agent_run_terminal_id"})
  /\ Returns(w) /\ Ends(w)
  /\ UNCHANGED <<now, assigned, shown>>

\* A check fails, the agent fails, a command or a write fails, the advance is refused,
\* the turns are used up, or the process dies: the call raises out of the loop.
Raises(a) ==
  /\ call[a] # NoCall \/ (a \in Reviewers /\ run[a] # NoRun)
  /\ Returns(a)
  /\ IF a \in Reviewers THEN Ends(a) ELSE UNCHANGED run
  /\ UNCHANGED <<now, case, reworked, assigned, records, shown>>

------------------------------------------------------------------------------
\* detail: the person sees the package of the case.
Show ==
  /\ case.state = "awaiting_approval"
  /\ shown # case.record_ids["human_review_package_id"]
  /\ shown' = case.record_ids["human_review_package_id"]
  /\ UNCHANGED <<now, case, reworked, assigned, records, call, run>>

\* Mutant: the decision is not compared with the package of the case.
AnyPackage == case.state = "awaiting_approval" /\ shown # NoId

\* _decision_inputs: the decision is about the package that was on the screen.
DecisionCurrent ==
  /\ case.state = "awaiting_approval"
  /\ shown = case.record_ids["human_review_package_id"]

\* approve and reject up to the put of their record.
DecideBegin(verb) ==
  /\ call[Person] = NoCall
  /\ DecisionCurrent
  /\ verb = "approve" =>
       case.change_window # NoId /\ now <= records[case.change_window].start
  /\ Calls(Person, [stage |-> verb,
                    record |-> [type |-> IF verb = "approve" THEN "ChangeApproval.v1"
                                                             ELSE "ChangeRejection.v1",
                                package |-> shown,
                                plan |-> case.record_ids["change_plan_id"],
                                window |-> case.record_ids["change_window_id"]]])
  /\ UNCHANGED <<now, case, reworked, assigned, records, run, shown>>

DecideFinish ==
  LET c == call[Person] IN
    /\ \/ /\ c.stage = "approve"
          /\ PutAndAdvance(c.record, "approve_change", {"approval_id"})
       \/ /\ c.stage = "reject"
          /\ PutAndAdvance(c.record, "reject", {"rejection_id"})
    /\ Returns(Person)
    /\ UNCHANGED <<now, assigned, run, shown>>

Next ==
  \/ Tick
  \/ \E f \in Findings : AddFinding(f) \/ Assign(f)
  \/ ValidateBegin \/ ValidateFinish
  \/ \E w \in Reviewers : Start(w) \/ Turn(w) \/ Finish(w) \/ AgentStopped(w)
  \/ \E a \in Actors : Raises(a)
  \/ Show \/ (\E verb \in {"approve", "reject"} : DecideBegin(verb)) \/ DecideFinish

Spec == Init /\ [][Next]_vars
------------------------------------------------------------------------------
(***************************************************************************)
(* Properties                                                              *)
(***************************************************************************)
TypeOK ==
  /\ now \in 0..MaxTime
  /\ case \in Case
  /\ reworked \in BOOLEAN
  /\ assigned \subseteq case.findings
  /\ \A n \in RecordNames \ {"finding_id", "risk_assessment_id"} :
       case.record_ids[n] \in 0..Len(records)
  /\ run \in [Reviewers -> [scope : SUBSET Plannable, validation : 0..Len(records),
                            used : 0..Iterations, reselected : Nat]]
  /\ shown \in 0..Len(records)

\* "Are the SRE, change-window, rollback, and verification records complete and mutually
\* consistent?" (docs/engineering-deterministic-gates.md): in a package that is put, the SRE
\* review is of its plan, and the rollback review is of its plan and its window.
\* HumanReviewGate.prepare asks only that each record is there, is of the case and approves.
RecordsAreConsistent ==
  \A i \in DOMAIN records : records[i].type = "HumanReviewPackage.v1" =>
    LET package == records[i] IN
      /\ records[package.sre].plan = package.plan
      /\ records[package.rollback].plan = package.plan
      /\ records[package.rollback].window = package.window

\* With one review worker, an approval or rejection names the plan and the window of the
\* package it names, whatever became of the case since it was shown
\* (ApprovalService.approve).
DecisionIsCoherent ==
  \A i \in DOMAIN records :
    records[i].type \in {"ChangeApproval.v1", "ChangeRejection.v1"} =>
      LET package == records[records[i].package] IN
        /\ records[i].plan = package.plan
        /\ records[i].window = package.window

\* A validated case never holds feedback that planning refuses: neither an SRE retry nor
\* a rework leaves it unable to be planned again (RemediationPlanningService.prepare).
FeedbackNeverStalls == case.state = "validated" => FeedbackUsable

\* The fourteen turns are enough for a retry, a rework and a reselection: a loop uses them
\* up only when two windows have started under review, or the case was validated anew
\* (advance_to_human_review).
LoopSuffices ==
  \A w \in Reviewers : run[w].used = Iterations /\ call[w] = NoCall =>
    run[w].reselected >= 2 \/ run[w].validation # case.record_ids["validation_result_id"]
==============================================================================
