# El Capitan in TLA+

El Capitan takes findings of cloud scanners, groups them into one case per resource,
validates them against the live configuration, plans a change, has it reviewed by agents
and by a human, executes it in an approved window and rolls it back when it does not hold.
This directory holds TLA+ modules of that pipeline, TLC configurations that check them on
small instances, and proofs that TLAPS checks for every value of the constants.  File
names below are relative to `src/elcapitan/`.

## 1. The system

### Parts, state and operations

| Part | State it keeps | Operations | Correct when |
| --- | --- | --- | --- |
| Case domain (`cases.py`) | `RemediationCase`: state, version, findings, record ids, plan, window, priority, `blocked_from` | `open_case`, `transition_case` over 23 transitions | evidence a stage relies on is present, in pipeline order and never superseded; a late finding takes approvals back |
| Workflow coordinator (`workflow.py`) | none; reads, decides, appends | `open`, `advance` | concurrent advances serialise |
| Case stores (`case_store.py`, `postgres_store.py`) | cases, events, linked assets, active-asset index | `create`, `append`, `get`, `find_active_by_asset` | log replays to row; index follows the cases; terminal rows are final |
| Finding store and intake (`finding_store.py`, `intake.py`) | findings and the case each belongs to | `ingest`, `put`, `assign_case`, `list_for_case` | finding store and cases agree; one active case per asset; replay converges |
| Execution queue (`scheduler.py`, `postgres_store.py`) | job rows with state, lease, attempts | `put`, `claim_due`, `complete`, `run_once` | leases exclude; results are recorded once, by the holder; nothing starts outside its window |
| Scheduler and execution (`scheduler.py`, `action_plane.py`) | records, the target | `schedule`, `execute`, `_rollback` | one worker changes the target; case, job and target agree at the end |
| Live validation (`case_validation.py`), promotion (`promotion.py`) | validation records | `validate`, `inspect`, `require` | what was validated is what the case holds |
| Planning (`remediation_planning.py`, `terraform_linker.py`, `aws_cdk.py`) | plan records, workspaces | `prepare` | the plan covers the findings of the case it is attached to |
| Preapproval (`preapproval.py`, `orchestration.py`) | review, window, rollback, policy and package records | `review`, `retry_invalid_approval`, `select`, `reselect_started`, `prepare` | reviews are of the plan they approve |
| Human decisions (`action_plane.py`, `review_control.py`) | approval and rejection records | `approve`, `reject`, `decide` | what is approved is what was shown |
| Agent runs (`agent_runs.py`, `agents.py`) | invocation, outcome and stop records | `run` | budgets hold; an interrupted call is not repeated silently |
| Change windows (`observability.py`), portfolio (`portfolio.py`), priority (`priority.py`) | none | pure functions | windows are inside policy; ranking and collisions agree |
| Cloud drivers (`azure_action.py`, `aws_action.py`) | the cloud resource | `preflight`, `checkpoint`, `deploy`, `rollback` | a rollback restores or says that it only contains |
| Shadow service, fleet, review worker (`shadow_control.py`, `fleet.py`, `review_worker.py`) | previews, snapshots | import, snapshot, prepare | reads agree with the stores |
| Cloud readers (`cloud.py`), control packs (`control_packs/`) | none | `capture_cloud_state`, one evaluator per control | a reading that was denied is not taken for a setting that is absent |
| Records and evidence (`product_records.py`, `evidence.py`) | append-only records and files | `put`, `get`, `list` | ids are written once |
| Edge code (`cli.py`, the `*_web.py`, normalisation, model runtimes) | none of the core's | I/O and conversion | - |

### How they interact

Every part that moves a case calls `WorkflowCoordinator.advance`: read the case, compute
the next projection with `transition_case`, append it on condition that the version is
still the one that was read.  There is no lock above that, so everything a service read
*before* its `advance` (a projection, a plan, a list of findings) may be stale when the
append goes through; the condition protects only what is read inside `advance`.  Intake
looks a case up by asset in the active-asset index, attaches its finding and then
records the assignment in the finding store, two stores without a common transaction.
The scheduler puts a job and then advances the case; a worker claims the job under a
lease, executes it against the case and the cloud target, and completes the job.  Workers
are separate processes started by a timer or an operator (`run_once` is called once per
command, `cli.py:804` and `cli.py:964`), so any of them may die between two calls.

Between triage and the decision of a person every service has the same form: it reads the
case and its records, works for a long time (a cloud, a sandbox or a model is asked), puts
one record of what it found and advances whatever the case is by then.  Model calls go
through one runtime that keeps a record before and after each call, and judges its budgets
on the records alone.  `execute` drives a change through a driver, which reads the target,
compares, and updates it by commands of the provider's CLI.

### What is hard

 * *Interleaving and staleness*: every read-decide-append, intake's use of a projection it
   saw several calls before, execution's use of a context captured before preflight.
 * *Crash and replay*: between attaching and assigning a finding; between the job and
   `SCHEDULE_EXECUTION`; between `deploy` and the next advance.
 * *Timeouts*: leases that expire under a live worker; windows that elapse while a job
   waits, runs or is reclaimed; the late report of a worker that lost its lease.
 * *Partial failure*: rollback that fails or only contains; the two job stores accept
   different results; an exception after the deployment that nothing catches.
 * *Protocol sequences*: rework, retry, reselection, late findings, block and resume in
   any order, each with its own list of records to withdraw.
 * *Drift*: others change the cloud resource between the documents of one reading, between
   checkpoint, comparison and update, and while a stack update is under way.
 * *Limits*: budgets and circuits that several workers pass at once; the fourteen turns of
   the preapproval loop.

`PROJECT.json` lists each hazard at its line with the properties that watch it, and says of
the few others why no property does.

## 2. Modules

```
Cases                        transition_case as operators
 |-- CaseLifecycle           one case, every permitted order of transitions (abstract)
 |    `-- CaseLifecycleProofs
 |-- CaseStore               tables of the case store, operations as transactions
 |    |-- Coordinators       processes on one store; each row refines CaseLifecycle
 |    |    `-- CoordinatorsProofs
 |    `-- Intake             intake workers on the finding store and the case store
 |         `-- IntakeProofs
 |-- Preparation             validation, review workers and a person on one case
 |    `-- PreparationProofs
 `-- ScheduledExecution      one case from approval to the end of its execution
      |-- ScheduledExecutionProofs
      `.. JobQueue           leases and windows (instantiated: Queue == INSTANCE JobQueue)
                `-- JobQueueProofs
AgentRuns                    the runtime that persists and bounds model calls
 `-- AgentRunsProofs
ChangeDrivers                drivers under execute and _rollback, on a target that drifts
 `-- CloudProofs
ControlPacks                 the registered controls and the documents they read
 `-- LiveValidation          validate: the reads of a resource, then the verdicts
      `-- CloudProofs        (one module for both: they share no state)
```

`MC*` modules instantiate these for TLC.  Some proofs use those of another module through
INSTANCE: `PreparationProofs` and `ScheduledExecutionProofs` those of `CaseLifecycleProofs`,
`ScheduledExecutionProofs` those of `JobQueueProofs`, `IntakeProofs` those of
`CoordinatorsProofs`.

**Cases** translates `cases.py`.  `Permits(c, r)` is every condition under which
`transition_case` does not raise, `Apply(c, r)` the projection it returns: `StateAfter`,
`BlockedFromAfter`, the records a transition withdraws and attaches (`RecordsAfter`), and
the plan and window pointers (`PlanAfter`, `WindowAfter`).  A record id is the version of
the case the record was attached with, so `<` on ids is age; `NoId` (0) is absence.  That
loses nothing a property needs, because a service draws a fresh id for each record it
attaches.  `Attached(t)` names what each transition's callers attach.  Priorities are numbers, of
which only the order matters.  Record contents, timestamps and the actor are left out.

**CaseLifecycle** is the abstract specification: one case, and any permitted transition with
any attachment.

**CaseStore** has one operator per operation of `SqliteCaseStore`; each is a transaction,
hence one step.  `PostgresCaseStore` keeps the same tables.  One tenant is modelled: every
key and query carries the tenant.  **Coordinators** adds the processes: `Get` is the read in
`advance`, `AppendOf` the append, `GiveUp` an exception or the death of the process
between them.

**Intake** translates `ingest` call by call; `pc` names the call a worker makes next:
`put` (the finding), `lookup` (by asset), `open`, `lost` (the open lost a race and the
asset is looked up again), `join` (the advance after a lost open), `loop` (decide from the
projection `current`), `append` and `append_join` (the second half of `advance`).  `attempt`
counts the retries of the loop, `refused` the cases that refused an advance with
`ValueError`.  Case validation appears as an environment that advances or closes cases.

**JobQueue** translates the job stores and `run_once`: `ClaimDue` sweeps elapsed jobs and
leases the first due one in one transaction, `Finish` is `complete`, including the second
`complete` of the exception handler, `Crash` the death of a worker.  `Completable` is the set
of states `complete` accepts, which differs between the two stores.  `claimedAt` and
`outcome` are history.  The claim is the one of the SQLite store; the one of the
PostgreSQL store skips rows that another transaction holds locked, which only makes a
poll find less.

**Preparation** models the services between triage and decision over one shared case.  A call
is two steps: `...Begin` reads and checks, `...Finish` puts the record and advances; `call`
holds what was read in between.  A record is what others read of it (which plan a
review is of, which package an approval names); its id is its place in `records`.  `Turn` is
one turn of `advance_to_human_review`, `run` the loop of a worker with the token
of `PromotionReadinessService.require` (`scope`, `validation`).  A case may have several review
workers: nothing in the code keeps a second one off, and what each of them does is decided on
the case it read.  `AgentStopped` is
`_block_agent_run`, which blocks the case whatever its state is by then.  `Raises` is every way a
call ends without its advance, the death of the process included.  `Show`, `DecideBegin` and
`DecideFinish` are the decision plane.  Initially the case was just triaged, or an earlier
release left it with an SRE approval that today's rules refuse.

**AgentRuns** models `AgentRunRuntime.run` on the records of one case: `Begin` lists the records
and judges replay, stops and budgets on the list, `Invoke` puts the invocation, `Answer` and
`Conclude` put the outcome and the circuit's stop, `Crash` is a process that dies between
two of them.  Ids are computed from the fields of a record in the code, so two workers can meet
at one id (`Holders`, `InvokeLost`).  The rest is history, which the properties need to tell a
run that raced from one that came later: `after` and `racing`, the calls that
existed when a success or a stop was put and how many runs had passed their checks by
then; `abreast` and `rivals`, how many other runs had done so when a call was put, on the case
and on its package; `overdue`, how many when the time of the case was over.

**ChangeDrivers** runs `execute` and `_rollback` step by step on the target of one of four
drivers: network access and blob access of an Azure storage account, versioning of an S3 bucket
through its CloudFormation stack, and a file.  A command of a CLI may fail having taken effect or
not; a stack update goes on by itself and ends in `Settle`; `Others` changes setting,
the rest of the configuration, or the tags that keep the target in scope.  A storage account is
read as one document.  A bucket is read by two commands, the template of its stack and then
its versioning, in the preflight, the checkpoint, `deploy` and both confirmations: `ReadStack`
and `ReadTemplate` keep the first in `template`, and the step that compares sees it beside
the versioning of its own moment (`AsRead`), so a checkpoint may be torn and a comparison pass on
two moments.  The templates of an S3
plan are those `verify_s3_versioning_template_change` accepts (`ScopeVerified`,
`Forward`, `PlanFor`).  `original`, `refused` and `touched` are history; `touched` says which
parts others have changed since the preflight, and since `deploy` read each of them.

**ControlPacks** is data: for each service the documents in the order they are read, with the
classes of values the evaluators tell apart, and for each rule a record of what puts a
resource in its scope and what makes it safe.  `Verdict` is `evaluate_finding` on
that form: `Applies`, then what could not be read, then `Satisfied`.  **LiveValidation** reads the documents one after the other while the resource changes
(`Drift`) and reads are denied (`ReadFails`, `ReadUnavailable`), and then decides the
transition of the case.

**ScheduledExecution** composes a queue of one job with its case, the scheduler, the
workers running `execute` and `_rollback` call by call, a target that is `before`, `after` or
`contained`, and an environment that attaches late findings and takes the case through
the pipeline again.  `phase` names the worker's next step; for an advance it is the name
of the transition, and `got` holds the version it has read.  `basis` is the approval in the
context of a worker about to start, `executed` the one in the `ExecutionStart` record that
the case names.  Every window the case selects
has the bounds of the job's window.  The driver, the monitor and the probes are external
here (`ChangeDrivers` opens them up): deployment, health, probes and audit succeed or not by
nondeterministic choice, with one assumption, that probes which read the target back do not
pass on an unchanged one, which is `OutcomeIsReal` of `ChangeDrivers`.

## 3. Model checking

| Run | Checks | Bounds |
| --- | --- | --- |
| `case_lifecycle` | `TypeOK`, `EvidenceInOrder`, `SupersededEvidenceGone` | 2 findings; cases of any age |
| `coordinators` | `TypeOK`, `LogReplaysToRow`, `ActiveIndexExact`, `RowsAreLifecycles` | 2 cases, 2 assets, 2 findings, 2 processes, version at most 4, 4 transitions |
| `intake` | `AssignedIsMember`, `CorrelatedByAsset`, `PriorityOfAFinding`, `AssignmentIsFinal`, `ReplayConverges` | 3 findings on 2 assets, 3 case ids, 2 workers, 1 crash |
| `intake_race` (violated) | `NoLosingWorkerFails` | 2 findings on 1 asset, 2 workers |
| `job_queue` | `TypeOK`, `MissedMeansUntouched`, `StartedInsideWindow`, `OneExecutionPerLease`, `RecordedIsOutcome`, `NoJobForgotten` | 2 jobs, 2 workers, lease 2, time 0..6 |
| `scheduled_execution` | `OneChanger`, `ChangeIsAccounted`, `EndsAsReported`, `JobAgreesWithCase`, `ReleaseTellsThePlan` | 2 findings, 2 workers, lease 1, window 0..3 |
| `preparation` | `DecisionIsCoherent`, `FeedbackNeverStalls`, `LoopSuffices` | 2 findings, 1 review worker, validator and person, 14 turns, version at most 16, time 0..2 |
| `two_reviewers` (violated) | `RecordsAreConsistent` | 1 finding, 2 review workers, the rest as in `preparation` |
| `agent_runs` | `BudgetsHold`, `DeadCallStops`, `StopIsDurable`, `SuccessIsReplayed`, `RepeatedFailuresStop` | 2 workers, 3 tasks in 2 packages, 3 calls, 2 attempts, threshold 2, 1 override, 1 death, 1 task whose artifact may be lost |
| `change_drivers` | `OverwritesOnlyCheckpointed`, `OutcomeIsReal`, `OnlyTheSettingChanges` | all 4 drivers, 2 configurations beside the setting, 2 changes by others |
| `driver_drift` (violated) | `DriftBlocksExecution` | the S3 driver, 1 change by others |
| `live_validation` | `DismissedWereGone`, `ValidatedHeld`, `OpenPortKeepsTheCase` | every control alone and 6 combinations, 4 inbound rules, 2 changes during the reading |

`TypeOK` of `Intake`, `ScheduledExecution`, `Preparation`, `AgentRuns` and `ChangeDrivers`
states the types of their variables for the reader; the runs spend their time on the
others.  All five are proved (see 5).

Deadlock checking is off in every run, because each of these systems really may stop: all
cases are terminal, all jobs are decided, or the clock has reached its bound.

### Why the bounds are enough

*CaseLifecycle.*  Ids grow with every transition, so the states are infinitely many; no
guard and no property uses an id other than by presence, equality and order.  The view
`LifecycleView` of `MCCaseLifecycle` replaces each id the properties read by its rank among
them, which leaves 2,349 states: the exploration ends by itself, far below
`MaxVersion` = 60, and covers histories of any length.  Two findings give a late one; a
third would be a repetition of it.

*Coordinators.*  Version 4 lets a case be triaged, validated, given a late finding or
closed while the other process sits on an older read, and a new case be opened on the
asset that was freed.  The guards of the rest of the pipeline are `case_lifecycle`'s matter;
concurrency does not see which transition is appended.

*Intake.*  Two findings share an asset, which is what races need, the third shows that
another asset's case is never used, and three case ids allow each case to be closed and
opened anew once.  The workers' batches overlap in one finding, and one worker may die
between any two calls.  A worker has three attempts; two concurrent workers and validation
can make it use all of them.  The view drops the event log and the ids of a case, which no
guard reads.

*JobQueue.*  The first window (1..5) is longer than two leases, so a job can be
claimed, outlived and claimed again inside it; the second (2..3) is shorter than one, so
its job elapses while leased.  Both orders of the two windows being due occur.  Time 6 is
past both.

*ScheduledExecution.*  The window holds three leases of length 1, so both workers run
the same job with a third claim to come, and a worker may be outlived at every step.  Two
findings let the case be reopened and approved again once during an execution.

*Preparation.*  `preparation` has one review worker; the validator, the person and intake
interleave with it, and the claims of that run are claims about one review worker
(`FeedbackNeverStalls` is proved for any number).  Two findings give a late one.  Version 16 lets a case go
through a rework or a reselection and a reopening, and come back to a decision; time 2 lets a
selected window start under review.  The view drops records that nobody can read
any more.  `two_reviewers` is the case with two, in which a package may be put together from
records of different plans and windows (see 4); one finding is enough for it.

*AgentRuns.*  Two workers pass each check together; three calls, two attempts and the time are
reached, both with a racing run and without one, where the limit is exact.  A third
package would repeat the second.

*ChangeDrivers.*  Two changes by others can undo each other, or fall one before and one after a
read, the two reads of a bucket included.  A target is a setting and one other part, which is
all the drivers compare.

*LiveValidation.*  No control reads more than three documents, and two changes let the resource
move between any two of them and back.  Only the aspects the findings of the case depend on are
followed.  The four inbound rules are a port range, an all-ports range, one that looks
like it and is not TCP, and a wide CIDR.

### Fairness

`intake`: each call a worker has made goes on until it returns, raises or its
process dies (`WF(Step(w))`), and the scan is replayed while a finding that was put has no
case (`WF(Submit)`), which is how scanners are run.  Nothing assumes that a race is won,
only that a worker does not lose races for ever, which the finite number of findings and
crashes gives.

`job_queue`: time passes, each worker polls (`run_once` by a timer: the source has no
daemon loop, so that is an assumption on the operator), and each execution ends, since the
drivers bound their waits.  No other run has a fairness assumption.

## 4. What the runs show to disagree

Three runs are expected to find a violation; `PROJECT.json` quotes the line each contradicts.

1. `intake_race`.  The loser of a race to prioritise fails with `ValueError` instead of
   finishing what is missing: `advance` reads the case again, and only
   `ConcurrentCaseUpdate` is caught.
2. `driver_drift`.  `deploy` refuses a target that drifted after the checkpoint.  `execute` takes the
   refusal for a failed deployment and rolls back, and the rollback installs the old value
   or the containment template over the drift and reports it as restored.
3. `two_reviewers`.  Each of two review workers on one case advances on what it has read.  One
   has the SRE review retried and selects a new window while the other computes its rollback
   review; that review is attached, and `HumanReviewGate.prepare`, which asks of each record only
   that it is there, is of the case and approves, packages it with a window it is not about.
   In the same way a review of one plan is attached to another.

Where a document says more than the code does, and no run of its own states it, the property
beside it says exactly how much remains:

 * *The release is not compared with the approval.*  `docs/threat-model.md:84-88` binds a decision
   to the hash of its package and has scheduling and execution verify that hash and the
   current case.  Neither compares hashes, and `START_EXECUTION` is not conditional on
   what `execute` read.  A case that a late finding reopened and that was approved again while a
   worker was between its checks and `START_EXECUTION` is executed on the superseded plan.
   `ReleaseTellsThePlan` holds: such a case names no schedule, and no case that names one
   was executed on another plan than the one approved.
 * *Budgets are not ceilings under a race.*  `docs/agent-run-policy.md:14` and `:19` have a limit
   stop the next dispatch.  Two runs that judge the records at once both pass, and each dispatches.
   `BudgetsHold` says that only those runs do: the call that reaches a limit records how many runs
   were abreast of it, and no more than these follow; with none abreast the limit is exact.
 * *A failed job beside a remediated case.*  A worker that outlived its lease goes on; the second
   claim of its job is refused by the case, which is executing, and records the job as
   failed; then the first ends the case well.  `JobAgreesWithCase` says that this needs two
   claims, and that all other results agree.
 * *S3 drift between two reads.*  `deploy` reads the template, then the versioning
   (`aws_action.py:397-399`), and a checkpoint likewise (`:379-380`).  A template that changes while the
   versioning is read passes the comparison and is overwritten.  `OverwritesOnlyCheckpointed`
   is about each part since its own last read.

Further behaviours the models contain, for whoever changes this code.  No run states them,
either because no document promises otherwise or because another run asks the same question:

 * A finding that arrives while a case is *blocked* does not revoke its plan: `RESUME` returns to
   the stage before with plan, window and approval in place, and stands on a validation that has
   not seen the finding.  No service calls `RESUME` today.
 * A finding attached while validation reads the cloud is in no validation.  If the others are
   dismissed, the case is closed with it (`case_validation.py:124`); `DismissedWereGone` is about
   the findings that validation has read.
 * A priority merged from a stale projection is appended to a newer one, so a case can lose its
   highest score to a lower one; `PriorityOfAFinding` is what remains.
 * The PostgreSQL job store refuses `contained` (`PostgresCompletable`), so a contained execution is
   recorded as failed; `RecordedIsOutcome` holds with `SqliteCompletable`.
 * A late finding between the read and the append of `START_VERIFICATION` raises out of `execute`
   after the deployment, and nothing rolls back: the case stays `executing`
   (`ChangeIsAccounted` allows that).
   One that comes before the start, once the case is scheduled, leaves the job row: approved
   again, the case cannot be scheduled a second time (`scheduler.py:93`).
 * A finding attached while planning is under way, followed by a new validation, leaves a plan that rests
   on the older validation: `prepare_plan` is permitted on the case as it is by then.
 * Overriding one `incomplete_prior_invocation` disables the check for pending invocations for all
   later runs, because the id of that stop is always the same (`NothingPending`).  Overriding a stop of
   a budget does not resume anything: the budget is still used up.
 * Drift between preflight and checkpoint is not compared: the checkpoint takes it as it is.  An "exact"
   S3 rollback then reports a checkpoint as restored although the checkpoint says `Enabled`.
 * A failed `_replace` leaves its temporary file, and every later replace fails on it, the one of the
   rollback included.
 * The controls of single ports give way to the control of all ports, as the scanner's do.  A case
   that holds only the port's finding is closed while an all-ports rule keeps the port
   open; `OpenPortKeepsTheCase` is about the case that holds both.
 * One denied document makes every finding of the resource unavailable, whatever it is about.
 * The documents of a resource are not read at one moment.  `TornDisjunctions` and
   `TornConjunctions` name the controls whose verdict can then be one that was true at no moment:
   TDE of an SQL server (protector and databases are separate documents), and the rules of a
   security group together with its use.

## 5. Proofs

All theorems are for every value of the constants that the named assumptions of the modules
admit: any sets of findings, cases, assets, processes, jobs and workers, any windows, lease
and bounds.  A theorem with a further hypothesis says so in its statement.

| Module | Theorem | Property | Inductive invariant |
| --- | --- | --- | --- |
| `CaseLifecycleProofs` | `TypeCorrect` | `TypeOK` | `IInv` |
| | `EvidenceOrder` | `EvidenceInOrder` | `IInv` |
| | `SupersededWithdrawn` | `SupersededEvidenceGone` | `IInv` |
| `CoordinatorsProofs` | `TypeCorrect` | `TypeOK` | `IInv` |
| | `LogReplays` | `LogReplaysToRow` | `IInv` |
| | `ActiveIndex` | `ActiveIndexExact` | `IInv` |
| | `TerminalFinal` | `TerminalIsFinal` | `IInv` |
| | `Refinement` | `RowsAreLifecycles` | `IInv` |
| `JobQueueProofs` | `TypeCorrect` | `TypeOK` | `IInv` |
| | `InsideWindow` | `StartedInsideWindow` | `IInv` |
| | `LeaseExclusion` | `OneExecutionPerLease` | `IInv` |
| | `MissedUntouched` | `MissedMeansUntouched` | `IInv` |
| | `DecisionsStay` | `DecidedIsFinal` | `IInv` |
| | `OutcomeRecorded` | `RecordedIsOutcome` | `IInv` and itself |
| `IntakeProofs` | `AssignedMembers` | `AssignedIsMember` | `IInv` |
| | `Correlated` | `CorrelatedByAsset` | `IInv` |
| | `Priorities` | `PriorityOfAFinding` | `IInv` |
| | `AssignmentsStay` | `AssignmentIsFinal` | `IInv` |
| | `TypeCorrect` | `TypeOK` | `TInv` |
| | `LogReplays` | `LogReplaysToRow` | `TInv` |
| | `ActiveIndex` | `ActiveIndexExact` | `TInv` |
| | `TerminalFinal` | `TerminalIsFinal` | `TInv` |
| `ScheduledExecutionProofs` | `OnlyOneChanges` | `OneChanger` | `IInv` |
| | `ChangesAccounted` | `ChangeIsAccounted` | `IInv` |
| | `EndsReported` | `EndsAsReported` | `IInv` |
| | `JobsAgree` | `JobAgreesWithCase` | `IInv` and `AttemptsCounted` |
| | `ReleasesTell` | `ReleaseTellsThePlan` | `IInv` and `Vouched` |
| | `QueueImplemented` | `Queue!Spec` | `IInv` |
| | `LeasesHold` | `TypeOK`, `OneExecutionPerLease`, `StartedInsideWindow`, `MissedMeansUntouched` of `JobQueue` | `JobQueueProofs`, `IInv` |
| | `OutcomeRecorded` | `RecordedIsOutcome` of `JobQueue` | `JobQueueProofs`, `IInv` |
| | `CaseImplemented` | `[][\E t \in Life!Transitions : Life!Takes(t)]_case` | `IInv` |
| | `EvidenceOrder` | `EvidenceInOrder` of `CaseLifecycle` | `IInv` and `Typed` |
| | `SupersededWithdrawn` | `SupersededEvidenceGone` of `CaseLifecycle` | `IInv` and `Typed` |
| | `TypeCorrect` | `TypeOK` | `IInv` and `Typed` |
| `PreparationProofs` | `TypeCorrect` | `TypeOK` | `Shared` |
| | `EvidenceOrder` | `EvidenceInOrder` of `CaseLifecycle` | `Shared` |
| | `SupersededWithdrawn` | `SupersededEvidenceGone` of `CaseLifecycle` | `Shared` |
| | `Feedback` | `FeedbackNeverStalls` | `Shared` |
| | `TurnsSuffice` | `LoopSuffices` | `IInv` |
| `AgentRunsProofs` | `TypeCorrect` | `TypeOK` | `IInv` |
| | `Budgets` | `BudgetsHold` | `IInv` |
| | `DeadCalls` | `DeadCallStops` | `IInv` |
| | `Stops` | `StopIsDurable` | `IInv` |
| | `Replays` | `SuccessIsReplayed` | `IInv` |
| | `Circuits` | `RepeatedFailuresStop` | `IInv` |
| `CloudProofs` | `TypeCorrect` | `TypeOK` (of `ChangeDrivers`) | `DriversInv` |
| | `Overwrites` | `OverwritesOnlyCheckpointed` | `DriversInv` |
| | `Scope` | `OnlyTheSettingChanges` | `DriversInv` |
| | `Outcome` | `OutcomeIsReal` | `DriversInv` |
| | `Dismissals` | `DismissedWereGone` | `ValidationInv` |
| | `Validations` | `ValidatedHeld` | `ValidationInv` |
| | `OpenPorts` | `OpenPortKeepsTheCase` | `ValidationInv` |

**CaseLifecycle** assumes nothing about its constants.  Its invariant is
`IInv == TypeOK /\ IdsBounded /\ EvidenceInOrder /\ SupersededEvidenceGone`.  The
order of evidence is not inductive by itself: that an attached record is newer than what it
rests on needs `IdsBounded` (no id on the case is newer than its last event), and that a
case going forward again has no leftovers in the way needs `SupersededEvidenceGone`.  A
blocked case is judged at the stage it was blocked from, and that this stage is one of
the active states comes from `TypeOK`.  `EmptyCaseIInv` is about a case without records
and serves `InitIInv` and `OpenIInv`; `TakesTypes` and `TakesEvidence` are about a
transition; `StepIInv` and `Invariance` put them together.  The transitions are gone
through one by one in `RequestEvidence`, which does not depend on how a caller draws
ids, only on their being new (`AttachesNew`, `NewerThanAll`).  `TakesCaseIInv` and
`RequestEvidence` are what the modules below use.

**Coordinators** assumes `NoCaseAssumption` and `IssuedAssumption`.  Its invariant is
`IInv == TypeOK /\ LogsTyped /\ ReadIsPast /\ ActiveIndexExact /\ LogReplaysToRow`.
`ReadIsPast` carries the argument: what a process has read is a version the case has had,
and the row itself while the version has not moved.  So an append that meets the
condition is an append to the row, and its request was permitted on that row (`AppendIs`);
with that, `ApplyIsCase` gives the types of the next projection and of its event, and that no
terminal case is ever appended to.  What `create` and `append` keep of the tables does not
depend on the caller: `CreateStoreInv` and `AppendStoreInv` are about any request that is
permitted on the row.  `Refinement` shows the initial condition and that every
step is a step of `CaseLifecycle` or a stutter, for each row: `OpenRefines`,
`AppendRefines` and `StepRefines`.  `SameCases` identifies the definitions of `Cases` on both sides.

**JobQueue** assumes `QueueAssumption`.  Its invariant is
`IInv == TypeOK /\ UnclaimedIsUntouched /\ LeaseCovers /\ StartedInsideWindow /\
OneExecutionPerLease`.  Lease exclusion needs `LeaseCovers`: the lease of a running job ends
no earlier than that of any worker still executing it, the outlived ones included; so when
`claim_due` finds the lease over, all of them are (`LeaseIInv`).  It also needs
`UnclaimedIsUntouched`, for the first claim of a job.  `OutcomeRecorded` has the hypothesis
`Outcomes \subseteq Completable`, which the SQLite store satisfies and the PostgreSQL store does
not: with `PostgresCompletable`, a contained execution is recorded as failed.

**Intake** assumes `FindingAssumption` and `NoCaseAssumption`.  Its invariant is `IInv ==
StoreInv /\ WorkerShape /\ \A w \in Workers : WorkerOK(w)`.  A worker acts on a projection that
may be stale; `WorkerOK` says what remains true of it: its case exists, is linked to the
asset of its finding, and holds every finding the worker has seen there.  That survives the
steps of all others because a case that exists keeps its links and only gains findings
(`Grows`, `WorkerStays`), so a new priority or assignment computed from the stale projection
is still one of the case.  One lemma per call of `ingest` shows the rest.

The tables are those of `CoordinatorsProofs`, whose `CreateStoreInv` and `AppendStoreInv` are
cited through `Kept == INSTANCE CoordinatorsProofs`.  What is left to show is that every append
is of a permitted request, although ingest decides on one projection (`current`), checks
against a second (the read of `advance`) and appends to a third.  `SeenOK` says it: between
read and append, either the version has moved on and the append will be refused, or the row
is the one that was read and permits what the worker asks for (`ReaderStays`,
`AppendReads`).  `TInv` is `IInv` with this and the tables.

**ScheduledExecution** assumes `JobAssumption`, one part of which is that the store accepts
`succeeded`, `rolled_back` and `failed`, as both do.  The centre of its invariant is that a worker past
`START_EXECUTION` holds the case: in each phase the case is in a state (`Held`) that only
that worker can leave, since late findings and the pipeline do not move it, and a second
worker that read the case before finds its version gone (`Read`).  Hence `OneHolder`, of which
`OneChanger` is a consequence, and the lease plays no part in it: an outlived worker is
kept apart by the case, not by the queue.  `Known` is what a worker may conclude about the
target, `Told` what it reports, `ReleaseFollowsApproval` that a schedule falls with its
approval; with these, `ChangeIsAccounted` and `EndsAsReported` are inductive.

Two properties need more than `IInv`.  A job is failed beside a case that ended well only when
it was claimed twice: `AttemptsCounted` says that under one claim there is one worker, that it has
stopped when the job has its result, and that it is about to report what the case
already says.  What was executed can be told from the case: `Vouched` says of a worker about to
start (`Rests`) that its approval is that of the case exactly while the case names a schedule.  A
late finding takes the schedule away, and the job being unique by case, the case is not
given a second one.

The composition implements both of its parts, and so has what they promise.
`QueueImplemented` shows that every step is a step of `JobQueue` or a stutter; `LeasesHold` and
`OutcomeRecorded` are the theorems of `JobQueueProofs` for it (`JobAssumption` implies
`QueueAssumption`), the second again for stores that accept every outcome.  `CaseImplemented`
shows that every step that moves the case requests what a call site may request and is
permitted on the case it moves: for the appends of `execute` this is not a guard of the model
but follows from `Held` and `Read` (`AppendTakes`).  `EvidenceOrder` and
`SupersededWithdrawn` are then the invariants of `CaseLifecycle` here (`Life!TakesCaseIInv`).

**Preparation** assumes `PlannableAssumption`, `ActorsAssumption` and `BoundsAssumption`.  What
does not depend on who reads what is proved for any number of review workers: `Shared`
is the types, the two evidence invariants of `CaseLifecycle` and that feedback is what planning
takes.  It is inductive because every step stores in one of a few ways (`Stores`,
`NextStores`): it puts a record whose id is new and advances with that id, or advances
with none (`StoreEvidence` from `Life!RequestEvidence`, `StoreFeedback`).

`TurnsSuffice` is a claim about the loop of one worker and has the hypothesis `OneReviewer`: a second
one takes the case back under the first, whose turns it uses up.  Its invariant is
`IInv == Shared /\ NoReviewYet /\ \A w \in Reviewers : InTime(w)`.  All other actors can only put the
case aside (`MovesAside`), or add a finding, which sends it back to before its validation; the
reviewer itself moves the case only by ending a call (`AdvanceRead`, `PutRead`).  `InTime`
is a potential: `Distance` counts the turns to the gate, `Detours` those that the rework,
a reselection and the retry of a refused approval can still add; every call of the loop
lowers their sum by the turn it takes (`TurnPays`).  The sum starts within thirteen, and the
loop has fourteen turns.

**AgentRuns** assumes `PolicyAssumption`.  All of its limits have one argument: from the call, the
stop or the success that ends them, the calls that follow and the runs that have passed
their checks and are about to call are *together* within a bound (`Within`), the number
of such runs at that moment.  No run passes its checks from then on, and a call moves
a run from one count to the other (`CallFits`); all other steps lower or keep both
(`QuietStep`).  `CallsWithin` and `AttemptsWithin` say so of the call that reaches a limit, with
`abreast` and `rivals` as bounds; `LateWithin` of the end of the time, with `overdue`;
`StopsWithin` and `SuccessWithin` of stops and successes, with `racing`.  `DeadCallStops`
allows one call for each other worker (`Slack`), and needs that every call without an outcome
has one worker awaiting it or a dead one (`PendingHeld`, `RunsApart`).

**ChangeDrivers** assumes `DriversAssumption`, in which no configuration is `"none"`, the mark of a
document not yet read.  The invariant follows the original of the target: a
preflight that passed saw what the plan was made for (`OriginalIsPlanned`), the checkpoint is
that original unless others changed the target (`CheckpointIsOriginal`), a bucket that was ever
versioned keeps a versioning (`VersionedStays`), a claim of a rollback is so until it is
reported (`ClaimIsReal`), and an outcome is what was verified or claimed
(`OutcomeIsClaimed`).  `TemplateIsRecent` is what a template that was read is still good for while
the versioning is read: it is that of the stack, unless others have changed it meanwhile.
`UpdateBounded` keeps a stack update from settling outside the steps
that expect it.

**LiveValidation** assumes `CasesAssumption`: any cases on the registered services, any
permissions of groups, any number of changes.  `ValidationInv` says that each document captured
is what the resource was at *one* moment, or was recorded as unavailable (`Captured`), and that a
conclusion rests on a complete capture (`Judged`).  A verdict reads only the aspects of its
control (`VerdictReads`).  So a control that reads one document, beside what a resource is given once
(`OneDocument`), was true at the moment of that document (`OneMoment`); `S3Packs`,
`StoragePacks` and `OtherPacks` go through the registered controls and show which do.  The two
kinds that do not are taken apart: a group that is judged unsafe or safe by its rules and its use
(`GroupGone`), and TDE of an SQL server (`SqlHeld`).  `TornDisjunctions` and
`TornConjunctions` are what is left over on each side, and for those the statement is false: the
violation is put together from, or missed between, two moments.

Only model-checked: liveness (`ReplayConverges`, `NoJobForgotten`), since the provers take
neither fairness nor `ENABLED`; `DecisionIsCoherent`, which is about one review worker; and the
three violations.  Every other invariant and action property that a run checks has a theorem.

## 6. Not modelled

Components, with the reasons `PROJECT.json` gives in short:

 * change windows (`observability.py`), portfolio and priority: pure functions over calendars,
   samples and scores, whose reference definition would be the code once more.  Where their
   result enters a protocol it is nondeterministic: any window, any score;
 * shadow service, fleet and demo: reads of the stores, imports, and a scripted run of the
   services that are modelled; none of them moves a case by itself;
 * scanner normalisation: format conversion;
 * model runtimes, egress and prompts: network I/O and text.  A model call succeeds, fails or
   never returns;
 * linking, patching and sandboxed checks of planning: text and tools.  `prepare` is a read, a
   long wait and an advance, and the template check of the CDK plan is modelled exactly;
 * web and command line.

Within what is modelled:

 * failures of evidence and record writes during `execute` (a hazard without a property);
 * worker ids: workers are distinct here, the command line has fixed ones
   (`azure-lab-worker`, `demo-execution-worker`), so one process at a time is assumed to
   run under each;
 * expiry of an approval: a refusal of `execute` before the change, like preflight;
 * a case blocked or failed by an operator during its execution;
 * `RESUME` has no caller among the services; `CaseLifecycle` takes it, and `Coordinators` for any `Issued`;
 * databases of an SQL server are neither created nor dropped while their settings are read, and
   the pages of one collection are one document;
 * a command of the provider's CLI that timed out has taken effect or not by the time of the
   next command; only a stack update goes on longer;
 * the loop's token (`PromotionReadinessService.require`) is taken once, at the start of a run;
   the inspection behind it is one step.

## 7. What is left

 * Candidate windows and portfolio collisions as functions against reference definitions over
   bounded inputs, if the code grows more than one rule for each.
 * `Preparation` and `ScheduledExecution` in one system, in place of the environment `Others`:
   both are checked against an environment that may do more than the other does, so this
   would show no new behaviour, only that the two assumptions meet.
 * That `Preparation` refines `CaseLifecycle`, beyond the evidence theorems carried over to it.
   The ids of `Preparation` are places in the list of records and those of `CaseLifecycle` are
   versions, so the refinement has to rename them.
 * The evidence invariants of each row of `Coordinators`.  They follow from `Refinement` and
   `CaseLifecycleProofs` on paper; TLAPS cites no theorem of an instance that has a parameter,
   as `Lifecycle(c)` has.
 * `RecordsAreConsistent` as a theorem for any number of review workers, once a review is compared
   with the plan and the window of the case when it is attached.
 * `ReleaseTellsThePlan` without its second half, once `START_EXECUTION` is conditional on the
   approval that `execute` read.
