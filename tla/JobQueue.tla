------------------------------- MODULE JobQueue -------------------------------
(***************************************************************************)
(* The durable execution queue (src/elcapitan/scheduler.py): job stores    *)
(* with leases, and ScheduledExecutionWorkers that claim a due job,        *)
(* execute it and complete it.  claim_due and complete are transactions;   *)
(* an execution takes any time, and a worker may die during it.            *)
(***************************************************************************)
EXTENDS Naturals, FiniteSets

CONSTANTS
  Jobs,             \* one per case: case_id is unique in execution_jobs
  Workers,
  Opens, Closes,    \* execute_at and deadline of each job: the bounds of its window
  Lease,            \* lease_seconds
  Completable,      \* the states complete accepts
  NoWorker, NoJob,
  MaxTime           \* bound on the clock (model bound)

ASSUME QueueAssumption ==
  /\ Opens \in [Jobs -> Nat] /\ Closes \in [Jobs -> Nat]
  /\ Lease \in Nat \ {0} /\ MaxTime \in Nat
  /\ NoWorker \notin Workers /\ NoJob \notin Jobs

Outcomes == {"succeeded", "rolled_back", "contained", "failed"}
JobStates == Outcomes \cup {"scheduled", "running", "missed"}
Final == Outcomes \cup {"missed"}

\* The states complete of SqliteExecutionJobStore accepts, and those of
\* PostgresExecutionJobStore.
SqliteCompletable == Outcomes
PostgresCompletable == Outcomes \ {"contained"}

VARIABLES
  now,         \* the clock all processes read
  job,         \* the rows of execution_jobs; "absent" while there is none
  executing,   \* the job a worker's run_once is executing
  claimedAt,   \* history: when the worker claimed it
  outcome      \* history: what the execution of the last claim of a job came to

vars == <<now, job, executing, claimedAt, outcome>>

Absent == [state |-> "absent", attempts |-> 0, owner |-> NoWorker, until |-> 0]

Init ==
  /\ now = 0
  /\ job = [j \in Jobs |-> Absent]
  /\ executing = [w \in Workers |-> NoJob]
  /\ claimedAt = [w \in Workers |-> 0]
  /\ outcome = [j \in Jobs |-> "none"]

Tick ==
  /\ now < MaxTime
  /\ now' = now + 1
  /\ UNCHANGED <<job, executing, claimedAt, outcome>>

\* put, by ExecutionScheduler.schedule, which has seen that the window is not over.
Put(j) ==
  /\ job[j] = Absent
  /\ now < Closes[j]
  /\ job' = [job EXCEPT ![j].state = "scheduled"]
  /\ UNCHANGED <<now, executing, claimedAt, outcome>>

------------------------------------------------------------------------------
\* Mutants: the sweep takes running jobs too, or only jobs whose deadline is now; a
\* lease is not compared when a job is chosen, or the deadline is not, or a failed job
\* is retried.
ElapsedAnyState(j) == job[j].state \in {"scheduled", "running"} /\ Closes[j] <= now
ElapsedJustNow(j) == job[j].state = "scheduled" /\ Closes[j] = now
DueThoughLeased(j) ==
  Opens[j] <= now /\ Closes[j] > now /\ job[j].state \in {"scheduled", "running"}
DueAfterDeadline(j) ==
  /\ Opens[j] <= now
  /\ \/ job[j].state = "scheduled"
     \/ job[j].state = "running" /\ job[j].until <= now
DueAgain(j) ==
  /\ Opens[j] <= now /\ Closes[j] > now
  /\ \/ job[j].state \in {"scheduled", "failed"}
     \/ job[j].state = "running" /\ job[j].until <= now

\* UPDATE ... SET state = missed WHERE state = scheduled AND deadline <= now
Elapsed(j) == job[j].state = "scheduled" /\ Closes[j] <= now

\* The WHERE clause claim_due chooses by.
Due(j) ==
  /\ Opens[j] <= now /\ Closes[j] > now
  /\ \/ job[j].state = "scheduled"
     \/ job[j].state = "running" /\ job[j].until <= now

\* ORDER BY execute_at, job_id: job ids are random, so ties are broken either way.
FirstDue == {j \in Jobs : Due(j) /\ \A k \in Jobs : Due(k) => Opens[j] <= Opens[k]}

Missed(row) == [row EXCEPT !.state = "missed"]

Leased(row, w) ==
  [state |-> "running", attempts |-> row.attempts + 1, owner |-> w, until |-> now + Lease]

\* claim_due: elapsed jobs are marked missed, and the first due job, when there is one,
\* is leased, in one transaction.
ClaimDue(w) ==
  LET swept == [j \in Jobs |-> IF Elapsed(j) THEN Missed(job[j]) ELSE job[j]] IN
    /\ executing[w] = NoJob
    /\ \/ /\ FirstDue = {}
          /\ job' = swept
          /\ UNCHANGED <<executing, claimedAt, outcome>>
       \/ \E j \in FirstDue :
            /\ job' = [swept EXCEPT ![j] = Leased(@, w)]
            /\ executing' = [executing EXCEPT ![w] = j]
            /\ claimedAt' = [claimedAt EXCEPT ![w] = now]
            /\ outcome' = [outcome EXCEPT ![j] = "none"]
    /\ UNCHANGED now

\* Mutant: any worker may complete a running job.
RunningAtAll(j, w) == job[j].state = "running"

\* UPDATE ... WHERE job_id = j AND state = running AND lease_owner = w
LeasedTo(j, w) == job[j].state = "running" /\ job[j].owner = w

\* Mutant: the lease owner stays on the completed row.
CompletedStillOwned(j, w, state) ==
  IF LeasedTo(j, w) THEN [job EXCEPT ![j].state = state] ELSE job

\* complete
Completed(j, w, state) ==
  IF LeasedTo(j, w)
  THEN [job EXCEPT ![j] = [@ EXCEPT !.state = state, !.owner = NoWorker, !.until = 0]]
  ELSE job

\* The state run_once reports: when complete refuses the state of the result with
\* ValueError, the exception handler completes the job as failed.
Reported(result) == IF result \in Completable THEN result ELSE "failed"

\* The execution returns a result, or raises ("failed"), and run_once completes the job.
\* Without the lease both of its calls of complete raise and nothing is written.
Finish(w, result) ==
  LET j == executing[w] IN
    /\ j # NoJob
    /\ job' = Completed(j, w, Reported(result))
    /\ outcome' = IF job[j].owner = w THEN [outcome EXCEPT ![j] = result] ELSE outcome
    /\ executing' = [executing EXCEPT ![w] = NoJob]
    /\ UNCHANGED <<now, claimedAt>>

\* The worker's process dies, and is started again; the row stays as it was leased.
Crash(w) ==
  /\ executing[w] # NoJob
  /\ executing' = [executing EXCEPT ![w] = NoJob]
  /\ UNCHANGED <<now, job, claimedAt, outcome>>

Next ==
  \/ Tick
  \/ \E j \in Jobs : Put(j)
  \/ \E w \in Workers : ClaimDue(w) \/ Crash(w)
  \/ \E w \in Workers, result \in Outcomes : Finish(w, result)

Spec == Init /\ [][Next]_vars

\* Time passes, workers poll (run_once is run by a timer or an operator's loop) and
\* every execution ends: drivers bound their waits.
Fairness ==
  /\ WF_vars(Tick)
  /\ \A w \in Workers :
       WF_vars(ClaimDue(w)) /\ WF_vars(Crash(w) \/ \E result \in Outcomes : Finish(w, result))

FairSpec == Spec /\ Fairness
------------------------------------------------------------------------------
(***************************************************************************)
(* Properties                                                              *)
(***************************************************************************)
TypeOK ==
  /\ now \in 0..MaxTime
  /\ job \in [Jobs -> [state : JobStates \cup {"absent"}, attempts : Nat,
                      owner : Workers \cup {NoWorker}, until : Nat]]
  /\ \A j \in Jobs : job[j].state = "running" <=> job[j].owner # NoWorker
  /\ executing \in [Workers -> Jobs \cup {NoJob}]
  /\ claimedAt \in [Workers -> 0..MaxTime]
  /\ outcome \in [Jobs -> Outcomes \cup {"none"}]

\* A window that was missed was missed before anything was executed in it, and a job
\* that was ever claimed is never reported as missed.
MissedMeansUntouched ==
  \A j \in Jobs : job[j].state = "missed" => /\ job[j].attempts = 0
                                             /\ \A w \in Workers : executing[w] # j

\* Every execution is started inside the approved window of its job.
StartedInsideWindow ==
  \A w \in Workers : executing[w] # NoJob =>
    Opens[executing[w]] <= claimedAt[w] /\ claimedAt[w] < Closes[executing[w]]

\* Two workers execute one job only when the first has outlived its lease.
OneExecutionPerLease ==
  \A v, w \in Workers :
    v # w /\ executing[v] # NoJob /\ executing[v] = executing[w] =>
      \/ claimedAt[v] + Lease <= claimedAt[w]
      \/ claimedAt[w] + Lease <= claimedAt[v]

\* What is recorded for a job is what the execution of its last claim came to, whatever
\* the workers that lost their lease report (docs/aws-cdk-execution-checkpoint-
\* 2026-09-03.md:58: recovery after first enablement is recorded as contained).
RecordedIsOutcome ==
  \A j \in Jobs : job[j].state \in Outcomes => job[j].state = outcome[j]

\* A job that was decided stays as it was decided, its attempts included.
DecidedIsFinal ==
  [][\A j \in Jobs : job[j].state \in Final => job'[j] = job[j]]_job

\* No scheduled job waits for ever: it is claimed in its window or reported as missed.
NoJobForgotten ==
  \A j \in Jobs : job[j].state = "scheduled" ~> job[j].state # "scheduled"
==============================================================================
