------------------------------ MODULE AgentRuns ------------------------------
(***************************************************************************)
(* The runtime that persists and bounds the model calls of one case        *)
(* (agent_runs.py).  Its runs share nothing but the records of the case: a *)
(* run lists them and judges budgets, circuits and replays on the list,    *)
(* puts an invocation, calls the model and puts the outcome.  Workers run  *)
(* at once, and die between any two of these steps.                        *)
(*                                                                         *)
(* A task stands for its replay key; tasks of one package differ in their  *)
(* objective and constraints only, as the corrected tasks of a retry do.   *)
(***************************************************************************)
EXTENDS Naturals, Sequences, FiniteSets

CONSTANTS
  Workers,       \* processes with an AgentRunRuntime on the case
  Tasks,         \* replay keys
  PackageOf,     \* the package key of a task
  Signatures,    \* failure signatures
  Losable,       \* tasks whose recorded evidence may be gone or altered when it is read
  MaxCalls, MaxAttempts, MaxElapsed, Threshold,  \* AgentRunPolicy
  MaxOverrides,  \* bound on the overrides of operators (model bound)
  MaxDeaths,     \* bound on the workers that die with a call under way (model bound)
  MaxTime        \* bound on the clock (model bound)

CaseScope == "case"   \* the package of a terminal record that stops the whole case
Unknown == "unknown"  \* an invocation without an outcome record
Success == "succeeded"

ASSUME PolicyAssumption ==
  /\ IsFiniteSet(Workers) /\ MaxTime \in Nat
  /\ {MaxCalls, MaxAttempts, MaxElapsed, Threshold} \subseteq Nat \ {0}
  /\ CaseScope \notin {PackageOf[t] : t \in Tasks}
  /\ {Unknown, Success} \cap Signatures = {}

VARIABLES
  now,
  invocations,  \* the AgentInvocation records in order, each with its outcome record
  terminals,    \* the AgentRunTerminal records
  call,         \* by worker, the run under way
  overrides,    \* override_terminal_record_ids of the runs from now on
  died,         \* invocations whose worker died before its run was over
  overdue       \* history: the runs about to call when the time of the case was over

vars == <<now, invocations, terminals, call, overrides, died, overdue>>

Idle == [stage |-> "idle"]

\* A success and a stop come with what the properties ask of the moment they were put:
\* how many invocations there were (after), and how many of the runs concerned had
\* judged the records and were about to call (racing).  So does an invocation, with the
\* other runs about to call (abreast) and those of its package (rivals).
Callers(others, tasks) ==
  Cardinality({w \in others : call[w].stage = "calling" /\ call[w].task \in tasks})

Concerned(p) == {t \in Tasks : p \in {CaseScope, PackageOf[t]}}
Packages == {PackageOf[t] : t \in Tasks}

\* The id of a terminal record is made of these fields: the same stop is one record.
Terminal(reason, package, signature) ==
  [reason |-> reason, package |-> package, signature |-> signature]
Incomplete == Terminal("incomplete_prior_invocation", CaseScope, "")

Init ==
  /\ now = 0
  /\ invocations = <<>>
  /\ terminals = {}
  /\ call = [w \in Workers |-> Idle]
  /\ overrides = {}
  /\ died = {}
  /\ overdue = 0

------------------------------------------------------------------------------
\* What a run makes of the records.
OfPackage(p) == {i \in DOMAIN invocations : PackageOf[invocations[i].task] = p}
Pending == {i \in DOMAIN invocations : invocations[i].outcome = Unknown}
Succeeded(t) ==
  {i \in DOMAIN invocations : invocations[i].task = t /\ invocations[i].outcome = Success}
Failures(p, s) == {i \in OfPackage(p) : invocations[i].outcome = s}

\* Mutant: a terminal record stops its case or nothing.
StoppedAtCase(p) ==
  \E r \in terminals : r.id \notin overrides /\ r.id.package = CaseScope /\ p # CaseScope

Stopped(p) ==
  \E r \in terminals : r.id \notin overrides /\ r.id.package \in {CaseScope, p}

\* Mutants: plausible slips in the checks of run.
CallsLeftUnlessPassed == Len(invocations) <= MaxCalls
OnePendingAllowed == Incomplete \in overrides \/ Cardinality(Pending) < 2

\* Once one incomplete invocation was overridden, none is looked for.
NothingPending == Incomplete \in overrides \/ Pending = {}
CallsLeft == Len(invocations) < MaxCalls
AttemptsLeft(p) == Cardinality(OfPackage(p)) < MaxAttempts
TimeLeft == invocations # <<>> => now - invocations[1].at < MaxElapsed

Allowed(p) == NothingPending /\ CallsLeft /\ AttemptsLeft(p) /\ TimeLeft

\* The terminal record of the first check that fails.
StopFor(p) ==
  CASE ~NothingPending -> Incomplete
    [] NothingPending /\ ~CallsLeft ->
         Terminal("model_call_budget_exhausted", CaseScope, "")
    [] NothingPending /\ CallsLeft /\ ~AttemptsLeft(p) ->
         Terminal("role_package_attempt_budget_exhausted", p, "")
    [] OTHER -> Terminal("elapsed_run_budget_exhausted", CaseScope, "")

\* _terminal: a record that exists already is returned as it is.
PutTerminal(w, id) ==
  terminals' = IF \E r \in terminals : r.id = id THEN terminals
               ELSE terminals \cup {[id |-> id, after |-> Len(invocations),
                                      racing |-> Callers(Workers \ {w}, Concerned(id.package))]}

PutOutcome(i, outcome) ==
  invocations' =
    [invocations EXCEPT
       ![i].outcome = outcome,
       ![i].after = IF outcome = Success THEN Len(invocations) ELSE 0,
       ![i].racing = IF outcome = Success THEN Callers(Workers, {invocations[i].task}) ELSE 0]

Calls(w, c) == call' = [call EXCEPT ![w] = c]

------------------------------------------------------------------------------
\* The clock is compared with the first call of the case only.
Tick ==
  /\ invocations # <<>>
  /\ now < MaxTime
  /\ now' = now + 1
  /\ overdue' = IF now' = invocations[1].at + MaxElapsed THEN Callers(Workers, Tasks)
               ELSE overdue
  /\ UNCHANGED <<invocations, terminals, call, overrides, died>>

\* An operator has looked into a stop and lets the runs from now on pass it.
Override ==
  /\ Cardinality(overrides) < MaxOverrides
  /\ \E r \in terminals : overrides' = overrides \cup {r.id}
  /\ UNCHANGED <<now, invocations, terminals, call, died, overdue>>

\* Mutant: only the last call is looked at.
ReplayableLast(t) == Len(invocations) \in Succeeded(t)

Replayable(t) == Succeeded(t) # {}

\* A stage runs a task, or runs it again with corrections: the records of the case are
\* listed and judged.  A recorded result is restored (nothing changes), unless its
\* evidence is gone or altered; a stopped case or package ends the run (nothing
\* changes); a check that fails stops it.
Begin(w, t) ==
  LET p == PackageOf[t] IN
    /\ call[w] = Idle
    /\ \/ /\ Replayable(t) /\ t \in Losable
          /\ Calls(w, [stage |-> "stopping",
                       id |-> Terminal("replay_artifact_unavailable", p, "")])
       \/ /\ ~Replayable(t) /\ ~Stopped(p) /\ ~Allowed(p)
          /\ Calls(w, [stage |-> "stopping", id |-> StopFor(p)])
       \/ /\ ~Replayable(t) /\ ~Stopped(p) /\ Allowed(p)
          /\ Calls(w, [stage |-> "calling", task |-> t,
                       attempt |-> Cardinality(OfPackage(p)) + 1])
    /\ UNCHANGED <<now, invocations, terminals, overrides, died, overdue>>

Stop(w) ==
  /\ call[w].stage = "stopping"
  /\ PutTerminal(w, call[w].id)
  /\ Calls(w, Idle)
  /\ UNCHANGED <<now, invocations, overrides, died, overdue>>

\* Mutant: the id of an invocation is drawn, not computed.
NoHolders(w) == {i \in DOMAIN invocations : call[w].stage = "idle"}

\* The id of an invocation is made of its task and its attempt.
Holders(w) ==
  {i \in DOMAIN invocations :
     invocations[i].task = call[w].task /\ invocations[i].attempt = call[w].attempt}

\* The tasks of the package a worker is about to call for.
Rivals(w) == Concerned(PackageOf[call[w].task])

Invoke(w) ==
  /\ call[w].stage = "calling"
  /\ Holders(w) = {}
  /\ invocations' = Append(invocations, [task |-> call[w].task, attempt |-> call[w].attempt,
                                         at |-> now, outcome |-> Unknown,
                                         after |-> 0, racing |-> 0,
                                         abreast |-> Callers(Workers \ {w}, Tasks),
                                         rivals |-> Callers(Workers \ {w}, Rivals(w))])
  /\ Calls(w, [stage |-> "running", of |-> Len(invocations) + 1])
  /\ UNCHANGED <<now, terminals, overrides, died, overdue>>

\* Another worker has put the same invocation meanwhile: its result is returned when it
\* has one that can be restored, else the case is stopped.
InvokeLost(w) ==
  /\ call[w].stage = "calling"
  /\ Holders(w) # {}
  /\ \/ Holders(w) \subseteq Succeeded(call[w].task) /\ UNCHANGED terminals
     \/ PutTerminal(w, Incomplete)
  /\ Calls(w, Idle)
  /\ UNCHANGED <<now, invocations, overrides, died, overdue>>

\* The model answers within its contract; or not, or the runtime raises, and the failure
\* has a signature.
Answer(w) ==
  LET i == call[w].of IN
    /\ call[w].stage = "running"
    /\ \/ PutOutcome(i, Success) /\ Calls(w, Idle)
       \/ \E s \in Signatures :
            PutOutcome(i, s) /\ Calls(w, [stage |-> "failed", of |-> i])
    /\ UNCHANGED <<now, terminals, overrides, died, overdue>>

\* Mutant: the circuit opens one failure late.
CircuitLate(p, s) == Cardinality(Failures(p, s)) > Threshold

CircuitOpen(p, s) == Cardinality(Failures(p, s)) >= Threshold

\* The failures of the package with this signature are listed anew.
Conclude(w) ==
  LET failed == invocations[call[w].of]
      p == PackageOf[failed.task]
  IN
    /\ call[w].stage = "failed"
    /\ IF CircuitOpen(p, failed.outcome)
       THEN PutTerminal(w, Terminal("equivalent_failure_circuit_open", p, failed.outcome))
       ELSE UNCHANGED terminals
    /\ Calls(w, Idle)
    /\ UNCHANGED <<now, invocations, overrides, died, overdue>>

\* The process dies, or the write of the result or of a record fails.
Crash(w) ==
  /\ call[w] # Idle
  /\ \/ call[w].stage \notin {"running", "failed"} /\ UNCHANGED died
     \/ /\ call[w].stage \in {"running", "failed"}
        /\ Cardinality(died) < MaxDeaths
        /\ died' = died \cup {call[w].of}
  /\ Calls(w, Idle)
  /\ UNCHANGED <<now, invocations, terminals, overrides, overdue>>

Next ==
  \/ Tick \/ Override
  \/ \E w \in Workers :
       \/ \E t \in Tasks : Begin(w, t)
       \/ Stop(w) \/ Invoke(w) \/ InvokeLost(w)
       \/ Answer(w) \/ Conclude(w) \/ Crash(w)

Spec == Init /\ [][Next]_vars

------------------------------------------------------------------------------
(***************************************************************************)
(* Properties.  A run that judged the records before another one wrote may *)
(* still put its call: a limit, a stop or a success ends the calls of all  *)
(* runs but those that raced with it, and each of these puts one call.     *)
(***************************************************************************)
Slack == Cardinality(Workers) - 1

Invocation ==
  [task : Tasks, attempt : 1..(MaxAttempts + 1), at : 0..MaxTime,
   outcome : Signatures \cup {Unknown, Success}, after : Nat, racing : 0..Slack,
   abreast : 0..Slack, rivals : 0..Slack]

TypeOK ==
  /\ now \in 0..MaxTime
  /\ invocations \in Seq(Invocation)
  /\ \A i, j \in DOMAIN invocations :
       /\ invocations[i].task = invocations[j].task
       /\ invocations[i].attempt = invocations[j].attempt
       => i = j
  /\ overrides \subseteq {r.id : r \in terminals}
  /\ \A w \in Workers : call[w].stage \in {"running", "failed"} =>
       /\ call[w].of \in DOMAIN invocations
       /\ call[w].stage = "running" <=> call[w].of \in Pending
  /\ died \subseteq DOMAIN invocations
  /\ overdue \in 0..Cardinality(Workers)

\* A limit that the records have reached stops every run that has not passed its checks by
\* then: the call that reaches the limit of the case, or of its package, is followed only by
\* the calls of the runs abreast of it, and after the time is over only the runs that were
\* about to call do.  Where no two runs judge the records at once, the limits are exact
\* (run, the four budget checks; docs/agent-run-policy.md:14,19 calls them ceilings at which
\* another dispatch stops, which runs abreast of each other pass).
FirstOfPackage(p, i) == {j \in OfPackage(p) : j <= i}
NextOfPackage(p, i) == {j \in OfPackage(p) : j > i}

Late ==
  {i \in DOMAIN invocations : invocations[i].at - invocations[1].at >= MaxElapsed}

BudgetsHold ==
  /\ \A i \in DOMAIN invocations : i >= MaxCalls =>
       Len(invocations) - i <= invocations[i].abreast
  /\ \A p \in Packages : \A i \in OfPackage(p) :
       Cardinality(FirstOfPackage(p, i)) >= MaxAttempts =>
         Cardinality(NextOfPackage(p, i)) <= invocations[i].rivals
  /\ Cardinality(Late) <= overdue

\* Every call is accounted for: it has its outcome, or a worker is waiting for the model,
\* or that worker died; and a call that nobody will account for stops the case, so
\* no worker calls again until an operator says so (the check of pending invocations).
DeadCallStops ==
  \A i \in Pending :
    \/ \E w \in Workers : call[w].stage = "running" /\ call[w].of = i
    \/ /\ i \in died
       /\ Incomplete \notin overrides => Len(invocations) - i <= Slack

\* A stop is durable: the runs that come after it do not forget it, in its scope, until
\* it is overridden (_active_terminal).
CallsPast(r) ==
  {i \in DOMAIN invocations :
     i > r.after /\ invocations[i].task \in Concerned(r.id.package)}

StopIsDurable ==
  \A r \in terminals : r.id \notin overrides => Cardinality(CallsPast(r)) <= r.racing

\* A task that has succeeded is not sent to the model again: its result is replayed
\* (run, the loop over the outcomes).
Repeats(i) ==
  {j \in DOMAIN invocations :
     j > invocations[i].after /\ invocations[j].task = invocations[i].task}

SuccessIsReplayed ==
  \A t \in Tasks : \A i \in Succeeded(t) :
    Cardinality(Repeats(i)) <= invocations[i].racing

\* Equal failures open the circuit of their package, unless the worker that would have
\* opened it died after recording the last of them (the two threshold checks).
RepeatedFailuresStop ==
  \A p \in Packages, s \in Signatures :
    Cardinality(Failures(p, s)) >= Threshold =>
      \/ \E r \in terminals : r.id = Terminal("equivalent_failure_circuit_open", p, s)
      \/ Failures(p, s) \cap died # {}
      \/ \E w \in Workers : call[w].stage = "failed" /\ call[w].of \in Failures(p, s)
==============================================================================
