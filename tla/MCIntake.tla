------------------------------- MODULE MCIntake -------------------------------
(***************************************************************************)
(* Intake for TLC.  No guard reads the log or the record ids of a case and *)
(* the history of refusals is read by one run only, so the views leave     *)
(* them out.                                                               *)
(***************************************************************************)
EXTENDS Intake, TLC

CONSTANTS f1, f2, f3, a1, a2, w1, w2

OneAsset == f1 :> a1 @@ f2 :> a1
TwoAssets == f1 :> a1 @@ f2 :> a1 @@ f3 :> a2
Scores == f1 :> 1 @@ f2 :> 2
ThreeScores == f1 :> 1 @@ f2 :> 2 @@ f3 :> 3

Apart == w1 :> {f1} @@ w2 :> {f2}
Overlap == w1 :> {f1, f2} @@ w2 :> {f1, f3}

Seen(row) == <<row.state, row.version, row.findings, row.priority>>

IntakeView ==
  <<[c \in CaseIds |-> Seen(rows[c])], active, linked, recorded, assigned, pc, finding,
    target, [w \in Workers |-> Seen(current[w])], got, attempt, crashes>>

RaceView == <<IntakeView, refused>>
==============================================================================
