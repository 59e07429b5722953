-------------------------- MODULE ScheduledExecution --------------------------
(***************************************************************************)
(* One case from approval to the end of its execution: the scheduler that  *)
(* releases it (scheduler.py), the job queue (JobQueue), the workers that  *)
(* run ExecutionService.execute on the claimed job (action_plane.py), the  *)
(* target the change driver changes, and, at the same time, intake         *)
(* attaching late findings and the pipeline taking the case to approval    *)
(* again.  Each advance is a read and a conditional append.                *)
(***************************************************************************)
EXTENDS Cases

CONSTANTS
  Jobs, Workers, Opens, Closes, Lease, Completable, NoWorker, NoJob, MaxTime,
  TheJob     \* the job of the case: case_id is unique in execution_jobs

ASSUME JobAssumption ==
  /\ Jobs = {TheJob} /\ NoJob \notin Jobs /\ NoWorker \notin Workers
  /\ Opens \in [Jobs -> Nat] /\ Closes \in [Jobs -> Nat]
  /\ Lease \in Nat \ {0} /\ MaxTime \in Nat
  /\ {"succeeded", "rolled_back", "failed"} \subseteq Completable   \* as both stores do

VARIABLES
  now, job, executing, claimedAt, outcome,   \* the queue, as in JobQueue
  case,        \* the stored case
  scheduler,   \* ExecutionScheduler.schedule: "idle", "put" or "over"
  phase,       \* what a worker's execute does next; a transition it has to advance by,
               \* or another step
  basis,       \* the approval in the context of a worker about to start, NoId otherwise
  got,         \* the version the advance under way has read, NoVersion before it has
  verdict,     \* what the worker's driver or probes came to; then what execute returns
  target,      \* the target: "before", "after" the change, "contained"
  certified,   \* a RemediationCertificate was put
  executed     \* approval_id in the ExecutionStart record that the case names

queue == <<now, job, executing, claimedAt, outcome>>
workers == <<phase, basis, got, verdict>>
vars == <<queue, case, scheduler, workers, target, certified, executed>>

Queue == INSTANCE JobQueue

NoVersion == 0

Init ==
  /\ Queue!Init
  /\ \E f \in Findings : case = OpenCase({f})
  /\ scheduler = "idle"
  /\ phase = [w \in Workers |-> "idle"]
  /\ basis = [w \in Workers |-> NoId]
  /\ got = [w \in Workers |-> NoVersion]
  /\ verdict = [w \in Workers |-> "none"]
  /\ target = "before"
  /\ certified = FALSE
  /\ executed = NoId

------------------------------------------------------------------------------
\* Others that advance the case meanwhile; each of their appends is one step.
PipelineTransitions ==
  {"prioritize", "validate", "prepare_plan", "approve_sre", "select_window",
   "review_rollback", "request_approval", "approve_change"}

Others(t) ==
  /\ t \in PipelineTransitions \cup {"add_finding"}
  /\ \E names \in Attached(t), additions \in Additions(t) :
       LET r == RequestOf(case, t, names, additions) IN
         /\ Permits(case, r)
         /\ case' = Apply(case, r)
  /\ UNCHANGED <<queue, scheduler, workers, target, certified, executed>>

Tick ==
  /\ Queue!Tick
  /\ UNCHANGED <<case, scheduler, workers, target, certified, executed>>

\* ExecutionScheduler.schedule: the case is approved, the job is put.
SchedulePut ==
  /\ scheduler = "idle"
  /\ case.state = "approved"
  /\ Queue!Put(TheJob)
  /\ scheduler' = "put"
  /\ UNCHANGED <<case, workers, target, certified, executed>>

\* ... and the case is advanced, or that is refused, or the process died before it: the
\* job stays, and no other can be put for the case.
ScheduleAdvance ==
  LET r == RequestOf(case, "schedule_execution", {"schedule_id", "execution_job_id"}, {}) IN
    /\ scheduler = "put"
    /\ scheduler' = "over"
    /\ \/ Permits(case, r) /\ case' = Apply(case, r)
       \/ UNCHANGED case
    /\ UNCHANGED <<queue, workers, target, certified, executed>>

------------------------------------------------------------------------------
\* run_once: claim_due
Claim(w) ==
  /\ phase[w] = "idle"
  /\ Queue!ClaimDue(w)
  /\ phase' = [phase EXCEPT ![w] = IF executing'[w] = NoJob THEN "idle" ELSE "check"]
  /\ UNCHANGED <<case, scheduler, basis, got, verdict, target, certified, executed>>

\* The context execute works from is that of the case it checked.
Goes(w, next, result) ==
  /\ phase' = [phase EXCEPT ![w] = next]
  /\ verdict' = [verdict EXCEPT ![w] = result]
  /\ got' = [got EXCEPT ![w] = NoVersion]
  /\ basis' = [basis EXCEPT ![w] = IF next = "start_execution"
                                  THEN case.record_ids["approval_id"] ELSE NoId]

\* execute raises, and run_once reports the job as failed.
Raises(w) == Goes(w, "report", "failed")

\* Mutant: the schedule is not asked for.
ApprovedInWindow(w) ==
  /\ case.state = "approved"
  /\ Opens[executing[w]] <= now /\ now < Closes[executing[w]]

\* The checks of execute on the case it reads.  Every window the case selects is given
\* the bounds of the job's.
Releasable(w) ==
  /\ case.state = "approved"
  /\ case.record_ids["schedule_id"] # NoId
  /\ case.record_ids["execution_job_id"] # NoId
  /\ Opens[executing[w]] <= now /\ now < Closes[executing[w]]

\* execute up to the checkpoint.  The preflight of the driver compares the target with
\* the approved state; a refusal by approval expiry, preflight or baseline may come too.
Check(w) ==
  /\ phase[w] = "check"
  /\ \/ /\ Releasable(w) /\ target = "before"
        /\ Goes(w, "start_execution", "none")
     \/ Raises(w)
  /\ UNCHANGED <<queue, case, scheduler, target, certified, executed>>

\* driver.deploy and the observation after it.  A deployment that fails or raises may
\* have changed the target or not.
Deploy(w) ==
  /\ phase[w] = "deploy"
  /\ \/ target' = "after" /\ Goes(w, "start_verification", "none")
     \/ target' \in {"before", "after"} /\ Goes(w, "rollback", "none")
  /\ UNCHANGED <<queue, case, scheduler, certified, executed>>

\* Mutant: the auditor's word is taken without the probes.
AnyProbes == TRUE

\* Probes that read the target back pass only on the changed target.
ProbesPass == target = "after"

\* The probes and the release audit.  When both accept, the verification, certificate and
\* handoff records are put before the case is advanced.
Verify(w) ==
  /\ phase[w] = "probe"
  /\ \/ ProbesPass /\ certified' = TRUE /\ Goes(w, "complete_remediation", "none")
     \/ UNCHANGED certified /\ Goes(w, "rollback", "none")
  /\ UNCHANGED <<queue, case, scheduler, target, executed>>

\* _rollback: driver.rollback and the observation after it, to whatever end: a rollback
\* that did its part and left the service unhealthy has failed, too.  Then the rollback
\* record is put.
Rollback(w) ==
  /\ phase[w] = "rollback"
  /\ \E result \in {"restored", "contained", "failed"} :
       /\ target' \in CASE result = "restored" -> {"before"}
                        [] result = "contained" -> {"contained"}
                        [] result = "failed" -> {target, "before", "contained"}
       /\ Goes(w, "start_rollback", result)
  /\ UNCHANGED <<queue, case, scheduler, certified, executed>>

------------------------------------------------------------------------------
\* The record names execute attaches with a transition.
ExecutionNames(p) ==
  CASE p = "block_failed" -> {"rollback_failure_id"}
    [] p = "block_contained" -> {"verification_result_id"}
    [] OTHER -> UNION Attached(p)

\* The advances of execute; its two blocks differ in record and in what follows.
Advances == {"start_execution", "start_verification", "complete_remediation",
             "start_rollback", "complete_rollback", "block_failed", "block_contained"}

AdvanceRequest(w, row) ==
  LET p == phase[w] IN
    RequestOf(row, IF p \in {"block_failed", "block_contained"} THEN "block" ELSE p,
              ExecutionNames(p), {})

\* Mutant: a contained rollback completes like a restored one.
ContainedCompletes(p, result) ==
  CASE p = "start_execution" -> <<"deploy", "none">>
    [] p = "start_verification" -> <<"probe", "none">>
    [] p = "complete_remediation" -> <<"report", "succeeded">>
    [] p = "start_rollback" /\ result # "failed" -> <<"complete_rollback", result>>
    [] p = "start_rollback" /\ result = "failed" -> <<"block_failed", result>>
    [] p = "complete_rollback" -> <<"report", "rolled_back">>
    [] p = "block_failed" -> <<"report", "failed">>

\* Mutant: a contained rollback is reported as rolled back.
ContainedAsRolledBack(p, result) ==
  CASE p = "start_execution" -> <<"deploy", "none">>
    [] p = "start_verification" -> <<"probe", "none">>
    [] p = "complete_remediation" -> <<"report", "succeeded">>
    [] p = "start_rollback" /\ result = "restored" -> <<"complete_rollback", result>>
    [] p = "start_rollback" /\ result = "contained" -> <<"block_contained", result>>
    [] p = "start_rollback" /\ result = "failed" -> <<"block_failed", result>>
    [] p \in {"complete_rollback", "block_contained"} -> <<"report", "rolled_back">>
    [] p = "block_failed" -> <<"report", "failed">>

\* What follows an advance, and with which verdict.
Following(p, result) ==
  CASE p = "start_execution" -> <<"deploy", "none">>
    [] p = "start_verification" -> <<"probe", "none">>
    [] p = "complete_remediation" -> <<"report", "succeeded">>
    [] p = "start_rollback" /\ result = "restored" -> <<"complete_rollback", result>>
    [] p = "start_rollback" /\ result = "contained" -> <<"block_contained", result>>
    [] p = "start_rollback" /\ result = "failed" -> <<"block_failed", result>>
    [] p = "complete_rollback" -> <<"report", "rolled_back">>
    [] p = "block_contained" -> <<"report", "contained">>
    [] p = "block_failed" -> <<"report", "failed">>

\* Mutant: the append does not depend on the version.
MovedOrNot(w) == TRUE

Unmoved(w) == got[w] = case.version

\* advance: the case is read; a transition it does not permit raises out of execute.
AdvanceRead(w) ==
  /\ phase[w] \in Advances /\ got[w] = NoVersion
  /\ IF Permits(case, AdvanceRequest(w, case))
     THEN got' = [got EXCEPT ![w] = case.version] /\ UNCHANGED <<phase, basis, verdict>>
     ELSE Raises(w)
  /\ UNCHANGED <<queue, case, scheduler, target, certified, executed>>

\* advance: the append, or the ConcurrentCaseUpdate it raises, which nothing in execute
\* catches.  START_EXECUTION names the ExecutionStart record put before it; neither it nor
\* the read compares the case with the context.
AdvanceAppend(w) ==
  LET next == Following(phase[w], verdict[w]) IN
    /\ phase[w] \in Advances /\ got[w] # NoVersion
    /\ IF Unmoved(w)
       THEN /\ case' = Apply(case, AdvanceRequest(w, case))
            /\ executed' = IF phase[w] = "start_execution" THEN basis[w] ELSE executed
            /\ Goes(w, next[1], next[2])
       ELSE Raises(w) /\ UNCHANGED <<case, executed>>
    /\ UNCHANGED <<queue, scheduler, target, certified>>

\* run_once: complete
Report(w) ==
  /\ phase[w] = "report"
  /\ Queue!Finish(w, verdict[w])
  /\ Goes(w, "idle", "none")
  /\ UNCHANGED <<case, scheduler, target, certified, executed>>

\* The worker's process dies anywhere in run_once, before its report.
Crash(w) ==
  /\ Queue!Crash(w)
  /\ Goes(w, "idle", "none")
  /\ UNCHANGED <<case, scheduler, target, certified, executed>>

Work(w) ==
  \/ Claim(w) \/ Check(w) \/ Deploy(w) \/ Verify(w) \/ Rollback(w)
  \/ AdvanceRead(w) \/ AdvanceAppend(w) \/ Report(w)

Next ==
  \/ \E t \in PipelineTransitions \cup {"add_finding"} : Others(t)
  \/ Tick \/ SchedulePut \/ ScheduleAdvance
  \/ \E w \in Workers : Work(w) \/ Crash(w)

Spec == Init /\ [][Next]_vars
------------------------------------------------------------------------------
(***************************************************************************)
(* Properties                                                              *)
(***************************************************************************)
Changing(w) == phase[w] \in {"deploy", "start_verification", "probe", "rollback"}

TypeOK ==
  /\ Queue!TypeOK
  /\ case \in Case
  /\ scheduler \in {"idle", "put", "over"}
  /\ phase \in [Workers -> Advances \cup {"idle", "check", "deploy", "probe", "rollback",
                                         "report"}]
  /\ basis \in [Workers -> Nat]
  /\ got \in [Workers -> Nat]
  /\ verdict \in [Workers -> {"none", "restored", "contained", "failed", "succeeded",
                             "rolled_back"}]
  /\ target \in {"before", "after", "contained"}
  /\ certified \in BOOLEAN
  /\ executed \in Nat
  /\ \A w \in Workers : phase[w] = "idle" <=> executing[w] = NoJob

\* However leases expire and workers die, at most one worker ever gets to touch the
\* target: START_EXECUTION is taken from "approved" once (ExecutionService.execute).
OneChanger ==
  \A v, w \in Workers : Changing(v) /\ Changing(w) => v = w

\* A target that was changed is the target of a case that says so: never of one that
\* could still be reopened, re-planned or approved again.
ChangeIsAccounted ==
  target # "before" =>
    case.state \in {"executing", "verifying", "rolling_back", "remediated", "blocked"}

\* A case ends as remediated only on the changed target and with its certificate, and as
\* rolled back only on the restored target (_rollback, COMPLETE_REMEDIATION).
EndsAsReported ==
  /\ case.state = "remediated" => target = "after" /\ certified
  /\ case.state = "rolled_back" => target = "before"

\* The queue and the case agree on how an execution ended: a success, a rollback or a
\* containment that the queue records is the end of the case, whichever worker reported it,
\* and a job that was claimed once is never recorded as failed while its case ended well.
\* A job that was reclaimed can be: the second worker is refused on the executing case and
\* completes the job as failed, and the first one, its lease outlived, ends the case.
JobAgreesWithCase ==
  LET row == job[TheJob] IN
    /\ row.state = "succeeded" => case.state = "remediated"
    /\ row.state = "rolled_back" => case.state = "rolled_back"
    /\ row.state = "contained" => case.state = "blocked" /\ case.blocked_from = "rolling_back"
    /\ row.state = "failed" /\ row.attempts = 1 =>
         case.state \notin {"remediated", "rolled_back"}

\* What was executed can be told from the case: its execution rests on the approval the
\* case names exactly when the case still names the schedule that released it.  A case that
\* a late finding reopened and that was approved again between the checks of execute and
\* START_EXECUTION is executed on the superseded plan, which nothing compares with the new
\* one (docs/threat-model.md:86-88 says that execution verifies the approved hash and the
\* current case state); such a case has lost its schedule, and cannot be given another.
ReleaseTellsThePlan ==
  case.record_ids["execution_id"] # NoId =>
    (case.record_ids["schedule_id"] # NoId <=> executed = case.record_ids["approval_id"])
==============================================================================
