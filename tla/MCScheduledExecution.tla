------------------------ MODULE MCScheduledExecution ------------------------
(***************************************************************************)
(* ScheduledExecution for TLC.  The window is long enough for a lease to   *)
(* expire inside it twice, so that two workers can run the same job while  *)
(* a third claim is still to come; two findings give a late finding.       *)
(***************************************************************************)
EXTENDS ScheduledExecution, TLC

MCOpens == TheJob :> 0
MCCloses == TheJob :> 3

ExecutionSymmetry == Permutations(Workers) \cup Permutations(Findings)
==============================================================================
