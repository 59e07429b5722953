--------------------------- MODULE MCCaseLifecycle ---------------------------
(***************************************************************************)
(* CaseLifecycle for TLC.  Ids only ever grow, so histories of any length  *)
(* would make new states; the properties tell ids apart only by presence,  *)
(* equality and order, and so does every action.  The view keeps the rank  *)
(* of each id the properties read, which leaves finitely many states for   *)
(* cases of any age; MaxVersion is far above the depth of that graph.      *)
(***************************************************************************)
EXTENDS CaseLifecycle, FiniteSets, TLC

FindingSymmetry == Permutations(Findings)

ReadNames == {"change_plan_id", "iac_link_id", "sre_review_id", "change_window_id",
              "rollback_review_id", "policy_decision_id", "human_review_package_id",
              "approval_id", "schedule_id", "execution_id"}

ReadIds == {case.record_ids[n] : n \in ReadNames} \cup
           {case.change_plan, case.change_window}

Rank(id) == Cardinality({i \in ReadIds : i < id})

LifecycleView ==
  <<case.state, case.blocked_from, case.findings,
    [n \in ReadNames |-> Rank(case.record_ids[n])],
    Rank(case.change_plan), Rank(case.change_window), NoId \in ReadIds>>
==============================================================================
