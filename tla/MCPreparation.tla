---------------------------- MODULE MCPreparation ----------------------------
(***************************************************************************)
(* Preparation for TLC.  The findings are interchangeable, and a record    *)
(* that no later step or property reads is left out of the view: a stored  *)
(* record is read only when the case, the screen or a call names it, or    *)
(* when a decision or a package does.                                      *)
(***************************************************************************)
EXTENDS Preparation, TLC

Kept(i) ==
  \/ i \in {shown} \cup {case.record_ids[n] : n \in RecordNames}
  \/ records[i].type \in {"ChangeApproval.v1", "ChangeRejection.v1",
                         "HumanReviewPackage.v1"}
  \/ \E a \in Actors : call[a].stage = "retry" /\ call[a].sre = i

PreparationView ==
  <<now, case, reworked, assigned, call, run, shown,
    [i \in DOMAIN records |-> IF Kept(i) THEN records[i] ELSE NoCall]>>

FindingSymmetry == Permutations(Findings)
==============================================================================
