------------------------------ MODULE MCJobQueue ------------------------------
(***************************************************************************)
(* JobQueue for TLC: two jobs whose windows overlap, the first long enough *)
(* for a lease to expire inside it, the second too short for that.         *)
(***************************************************************************)
EXTENDS JobQueue, TLC

CONSTANTS j1, j2

MCOpens == j1 :> 1 @@ j2 :> 2
MCCloses == j1 :> 5 @@ j2 :> 3
==============================================================================
