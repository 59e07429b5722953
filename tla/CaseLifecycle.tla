---------------------------- MODULE CaseLifecycle ----------------------------
(***************************************************************************)
(* One remediation case under WorkflowCoordinator, seen as its store keeps *)
(* it: every transition that transition_case permits, in any order, by any *)
(* caller.  Callers decide on what they read earlier and advance re-reads  *)
(* the case, so no caller's own state check restricts a step here.         *)
(***************************************************************************)
EXTENDS Cases

CONSTANTS MaxVersion       \* bound on the case's version (model bound)

VARIABLE case       \* the stored projection

------------------------------------------------------------------------------
Init == case = Unopened

\* WorkflowCoordinator.open
Open(findings) ==
  /\ case = Unopened
  /\ case' = OpenCase(findings)

\* WorkflowCoordinator.advance
Advance(t) ==
  /\ case.version < MaxVersion
  /\ \E names \in Attached(t), additions \in Additions(t) :
       LET r == RequestOf(case, t, names, additions) IN
         /\ Permits(case, r)
         /\ case' = Apply(case, r)

Next ==
  \/ \E findings \in SUBSET Findings : findings # {} /\ Open(findings)
  \/ \E t \in Transitions : Advance(t)

Spec == Init /\ [][Next]_case
------------------------------------------------------------------------------
(***************************************************************************)
(* Properties                                                              *)
(***************************************************************************)
\* The state a case has or, when blocked, will have again on RESUME.
Stage(c) == IF c.state = "blocked" THEN c.blocked_from ELSE c.state

Executing    == {"executing", "verifying", "rolling_back", "remediated", "rolled_back"}
Approved     == Executing \cup {"approved"}
Packaged     == Approved \cup {"awaiting_approval"}
RolledReady  == Packaged \cup {"rollback_ready"}
Windowed     == RolledReady \cup {"window_selected"}
SreReviewed  == Windowed \cup {"sre_approved"}
Planned      == SreReviewed \cup {"plan_ready"}

\* Record a of case c is attached, and record b later than a.
Newer(c, a, b) ==
  /\ c.record_ids[a] # NoId
  /\ c.record_ids[a] < c.record_ids[b]

\* cases.py, transition_case: the version, the stage and the records have their types.
TypeOK ==
  /\ case \in Case \cup {Unopened}
  /\ IF case.state = "blocked" THEN case.blocked_from \in ActiveStates \ {"blocked"}
                               ELSE case.blocked_from = NoState

\* Whatever rework, retry, reselection, block and resume a case went through, the
\* evidence a stage relies on is on the case and was produced in the order of the
\* pipeline: a review is newer than the plan it reviews, the rollback review newer
\* than the window, the package newer than the window it packs, the approval newer
\* than the package it approves, and the execution newer than its approval.
\* ExecutionService._context and ApprovalService.approve index these records.
EvidenceInOrder ==
  LET s == Stage(case) IN
    /\ s \in Planned =>
         /\ case.change_plan # NoId
         /\ case.record_ids["change_plan_id"] = case.change_plan
         /\ case.record_ids["iac_link_id"] = case.change_plan
    /\ s \in SreReviewed => Newer(case, "change_plan_id", "sre_review_id")
    /\ s \in Windowed =>
         /\ Newer(case, "change_plan_id", "change_window_id")
         /\ case.record_ids["change_window_id"] = case.change_window
    /\ s \in RolledReady => Newer(case, "change_window_id", "rollback_review_id")
    /\ s \in Packaged =>
         /\ Newer(case, "change_window_id", "human_review_package_id")
         /\ case.record_ids["policy_decision_id"] =
              case.record_ids["human_review_package_id"]
    /\ s \in Approved => Newer(case, "human_review_package_id", "approval_id")
    /\ s \in Executing => Newer(case, "approval_id", "execution_id")

\* A transition back to an earlier stage (late finding, rework, SRE retry, window
\* reselection) leaves none of the artifacts of the stages it undid on the case: no
\* plan before planning, no window before selection, no package before the gate, no
\* approval or schedule before the decision.  A rejected case keeps what it was
\* rejected with.
SupersededEvidenceGone ==
  LET s == Stage(case) IN s # "rejected" =>
    /\ s \notin Planned =>
         /\ case.change_plan = NoId
         /\ case.record_ids["change_plan_id"] = NoId
         /\ case.record_ids["iac_link_id"] = NoId
    /\ s \notin Windowed =>
         /\ case.change_window = NoId
         /\ case.record_ids["change_window_id"] = NoId
    /\ s \notin Packaged =>
         /\ case.record_ids["policy_decision_id"] = NoId
         /\ case.record_ids["human_review_package_id"] = NoId
    /\ s \notin Approved =>
         /\ case.record_ids["approval_id"] = NoId
         /\ case.record_ids["schedule_id"] = NoId
==============================================================================
