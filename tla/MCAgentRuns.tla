----------------------------- MODULE MCAgentRuns -----------------------------
(***************************************************************************)
(* AgentRuns for TLC: two workers, a task with its correction, and a task  *)
(* of another package.  The workers are interchangeable, and so are the    *)
(* two tasks of one package.  Of a success and of a stop the view keeps    *)
(* how many calls may still follow it, as of an invocation that reached a  *)
(* limit and of the end of the time, and of an overridden stop nothing.    *)
(***************************************************************************)
EXTENDS AgentRuns, TLC

CONSTANTS w1, w2, plan, corrected, review

MCTasks == {plan, corrected, review}
MCPackageOf == (plan :> "planning") @@ (corrected :> "planning") @@ (review :> "review")

MCSymmetry == Permutations({w1, w2}) \cup Permutations({plan, corrected})

\* The runs abreast of a call that reached a limit.
AtCaseLimit(i) == IF i >= MaxCalls THEN invocations[i].abreast ELSE 0
AtPackageLimit(i) ==
  LET p == PackageOf[invocations[i].task] IN
    IF i < MaxAttempts \/ invocations[i].rivals = 0 THEN 0
    ELSE IF Cardinality(FirstOfPackage(p, i)) < MaxAttempts THEN 0
    ELSE invocations[i].rivals

MCView ==
  <<now, call, overrides, died, overdue,
    [i \in DOMAIN invocations |->
       <<invocations[i].task, invocations[i].attempt, invocations[i].at,
         invocations[i].outcome, IF invocations[i].outcome = Success
           THEN invocations[i].racing - Cardinality(Repeats(i)) ELSE 0,
         AtCaseLimit(i), AtPackageLimit(i)>>],
    {<<r.id, r.racing - Cardinality(CallsPast(r))>> :
       r \in {x \in terminals : x.id \notin overrides}}>>
==============================================================================
