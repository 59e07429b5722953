---------------------------- MODULE MCCoordinators ----------------------------
(* Coordinators for TLC: the transitions that triage, validate and close a case, and *)
(* the late finding that takes it back.                                              *)
EXTENDS Coordinators, TLC

MCIssued == {"prioritize", "validate", "add_finding", "close_no_action"}

StoreSymmetry == Permutations(Writers) \cup Permutations(Findings)
                   \cup Permutations(CaseIds) \cup Permutations(Assets)
==============================================================================
