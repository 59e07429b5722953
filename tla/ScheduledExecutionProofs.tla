----------------------- MODULE ScheduledExecutionProofs -----------------------
(***************************************************************************)
(* Theorems about ScheduledExecution, for any findings, workers, windows,  *)
(* lease and outcomes that complete accepts.  A worker past START_EXECUTION*)
(* holds the case in a state only it can leave, until it is done or dies.  *)
(* With that, every step is one of JobQueue and takes the case as          *)
(* CaseLifecycle lets it, and what these promise holds here (last section).*)
(***************************************************************************)
EXTENDS ScheduledExecution, TLAPS

\* The phases of a worker between START_EXECUTION and its last advance.
HoldingPhases == {"deploy", "start_verification", "probe", "complete_remediation", "rollback",
                  "start_rollback", "complete_rollback", "block_contained", "block_failed"}
Phases == HoldingPhases \cup {"start_execution", "idle", "check", "report"}

\* What the case is while a worker is in a phase, and what the worker knows.
Held(w) ==
  /\ phase[w] \in {"deploy", "start_verification"} => case.state = "executing"
  /\ phase[w] \in {"probe", "complete_remediation"} => case.state = "verifying"
  /\ phase[w] \in {"rollback", "start_rollback"} => case.state \in {"executing", "verifying"}
  /\ phase[w] \in {"complete_rollback", "block_contained", "block_failed"} =>
       case.state = "rolling_back"

Known(w) ==
  /\ phase[w] = "complete_remediation" => target = "after" /\ certified
  /\ phase[w] = "start_rollback" => verdict[w] \in {"restored", "contained", "failed"}
  /\ phase[w] = "complete_rollback" => verdict[w] = "restored"
  /\ phase[w] \in {"start_rollback", "complete_rollback"} /\ verdict[w] = "restored" =>
       target = "before"

\* What a worker reports is how the case ended.
Told(w) ==
  phase[w] = "report" =>
    /\ verdict[w] \in {"succeeded", "rolled_back", "contained", "failed"}
    /\ verdict[w] = "succeeded" => case.state = "remediated"
    /\ verdict[w] = "rolled_back" => case.state = "rolled_back"
    /\ verdict[w] = "contained" => case.state = "blocked" /\ case.blocked_from = "rolling_back"

\* What a worker has read is a version the case has had, and START_EXECUTION was permitted
\* on it.
Read(w) ==
  phase[w] = "start_execution" /\ got[w] # NoVersion =>
    got[w] <= case.version /\ (got[w] = case.version => case.state = "approved")

OneHolder ==
  \A v, w \in Workers : phase[v] \in HoldingPhases /\ phase[w] \in HoldingPhases => v = w

\* The release is withdrawn with the approval it rests on.
BeforeApproval == {"open", "prioritized", "validated", "plan_ready", "sre_approved",
                   "window_selected", "rollback_ready", "awaiting_approval"}
ReleaseFollowsApproval ==
  /\ case.record_ids["approval_id"] <= case.version
  /\ case.record_ids["schedule_id"] # NoId =>
       /\ case.state \notin BeforeApproval
       /\ case.record_ids["schedule_id"] > case.record_ids["approval_id"]

WorkersTyped ==
  /\ phase \in [Workers -> Phases]
  /\ got \in [Workers -> Nat]
  /\ verdict \in [Workers -> {"none", "restored", "contained", "failed", "succeeded",
                             "rolled_back"}]
CaseTyped ==
  /\ case.state \in CaseStates /\ case.version \in Nat
  /\ case.record_ids \in [RecordNames -> Nat]

\* Of the results that end a case: what the queue records is how it ended.
ReportsAgree ==
  LET result == job[TheJob].state IN
    /\ result = "succeeded" => case.state = "remediated"
    /\ result = "rolled_back" => case.state = "rolled_back"
    /\ result = "contained" => case.state = "blocked" /\ case.blocked_from = "rolling_back"

QueueTyped ==
  /\ now \in Nat
  /\ job \in [Jobs -> [state : Queue!JobStates \cup {"absent"}, attempts : Nat,
                      owner : Workers \cup {NoWorker}, until : Nat]]
  /\ executing \in [Workers -> Jobs \cup {NoJob}]

IInv ==
  /\ CaseTyped
  /\ QueueTyped
  /\ WorkersTyped
  /\ \A w \in Workers : Held(w) /\ Known(w) /\ Told(w) /\ Read(w)
  /\ OneHolder
  /\ ReleaseFollowsApproval
  /\ ChangeIsAccounted
  /\ EndsAsReported
  /\ ReportsAgree

\* The states of a case that was released for execution.
Released == {"executing", "verifying", "rolling_back", "blocked"} \cup TerminalStates

\* Apply, field by field.
LEMMA ApplyFields ==
  ASSUME NEW t, NEW names, NEW additions,
         case' = Apply(case, RequestOf(case, t, names, additions))
  PROVE  /\ case'.state = StateAfter(case, t)
         /\ case'.version = case.version + 1
         /\ case'.blocked_from = BlockedFromAfter(case, t)
         /\ case'.record_ids =
              [n \in RecordNames |-> IF n \in names THEN AttachedId(case, t)
                                     ELSE IF n \in Withdrawn(case, t) THEN NoId
                                     ELSE case.record_ids[n]]
<1> DEFINE r == RequestOf(case, t, names, additions)
<1>1. r.transition = t /\ r.records = [n \in names |-> AttachedId(case, t)]
  BY DEF RequestOf, Request
<1> QED
  BY <1>1 DEF Apply, RecordsAfter

\* What the pipeline and intake attach: an approval with its transition, never a schedule.
LEMMA PipelineNames ==
  ASSUME NEW t \in PipelineTransitions \cup {"add_finding"}, NEW names \in Attached(t)
  PROVE  /\ "schedule_id" \notin names /\ "execution_id" \notin names
         /\ "approval_id" \in names <=> t = "approve_change"
         /\ AttachedId(case, t) = case.version + 1
BY DEF PipelineTransitions, Attached, RequiredRecord, AttachedId

\* Where the pipeline and intake take a case: a released one stays as it is.
LEMMA PipelineStates ==
  ASSUME CaseTyped, NEW t \in PipelineTransitions \cup {"add_finding"},
         case.state \in Sources[t]
  PROVE  /\ StateAfter(case, t) \in CaseStates
         /\ case.state \in Released => /\ StateAfter(case, t) = case.state
                                       /\ BlockedFromAfter(case, t) = case.blocked_from
         /\ case.state \notin Released => StateAfter(case, t) \notin Released
         /\ t = "approve_change" => case.state \in BeforeApproval
         /\ case.state \in Released => Withdrawn(case, t) = {}
         /\ case.state \notin Released /\ t # "approve_change" =>
              StateAfter(case, t) \in BeforeApproval
         /\ "execution_id" \notin Withdrawn(case, t)
         /\ Reopens(case, t) => "schedule_id" \in Withdrawn(case, t)
         /\ case.state \notin BeforeApproval /\ StateAfter(case, t) \in BeforeApproval =>
              Reopens(case, t)
<1> USE DEF CaseTyped, CaseStates, ActiveStates, ReopenStates, TerminalStates, Released,
            BeforeApproval, StateAfter, BlockedFromAfter, Reopens, Target, Sources, Withdrawn
<1>1. CASE t = "add_finding"
  BY <1>1
<1>2. CASE t \in PipelineTransitions
  BY <1>2 DEF PipelineTransitions
<1> QED
  BY <1>1, <1>2

LEMMA PipelineStep ==
  ASSUME CaseTyped, ReleaseFollowsApproval,
         NEW t \in PipelineTransitions \cup {"add_finding"}, Others(t)
  PROVE  /\ CaseTyped' /\ ReleaseFollowsApproval'
         /\ case'.version = case.version + 1
         /\ case.state \in Released => /\ case'.state = case.state
                                       /\ case'.blocked_from = case.blocked_from
         /\ case.state \notin Released => case'.state \notin Released
         /\ case'.record_ids["execution_id"] = case.record_ids["execution_id"]
         /\ case'.record_ids["schedule_id"] \in {NoId, case.record_ids["schedule_id"]}
         /\ case.state \in Released =>
              /\ case'.record_ids["schedule_id"] = case.record_ids["schedule_id"]
              /\ case'.record_ids["approval_id"] = case.record_ids["approval_id"]
         /\ case.state \notin Released /\ case'.state \notin BeforeApproval =>
              /\ case'.record_ids["schedule_id"] = NoId
              /\ case'.record_ids["approval_id"] = case.version + 1
<1>1. PICK names \in Attached(t), additions \in Additions(t) :
        /\ Permits(case, RequestOf(case, t, names, additions))
        /\ case' = Apply(case, RequestOf(case, t, names, additions))
  BY DEF Others
<1>2. case.state \in Sources[t]
  BY <1>1 DEF Permits, RequestOf, Request
<1>3. /\ case'.state = StateAfter(case, t) /\ case'.version = case.version + 1
      /\ case'.blocked_from = BlockedFromAfter(case, t)
      /\ case'.record_ids = [n \in RecordNames |-> IF n \in names THEN AttachedId(case, t)
                                                  ELSE IF n \in Withdrawn(case, t) THEN NoId
                                                  ELSE case.record_ids[n]]
  BY <1>1, ApplyFields
<1>4. /\ "schedule_id" \notin names /\ "execution_id" \notin names
      /\ "approval_id" \in names <=> t = "approve_change"
      /\ AttachedId(case, t) = case.version + 1
  BY PipelineNames
<1>5. CaseTyped'
  BY <1>2, <1>3, <1>4, PipelineStates DEF CaseTyped, NoId
<1>6. ReleaseFollowsApproval'
  <2>1. /\ case'.record_ids["schedule_id"] =
             IF "schedule_id" \in Withdrawn(case, t) THEN NoId ELSE case.record_ids["schedule_id"]
        /\ case'.record_ids["approval_id"] =
             IF "approval_id" \in names THEN case.version + 1
             ELSE IF "approval_id" \in Withdrawn(case, t) THEN NoId
             ELSE case.record_ids["approval_id"]
    BY <1>3, <1>4 DEF RecordNames
  <2>2. case.record_ids["approval_id"] \in Nat /\ case.record_ids["schedule_id"] \in Nat
    BY DEF CaseTyped, RecordNames
  <2>3. case'.record_ids["approval_id"] <= case'.version
    BY <1>3, <2>1, <2>2 DEF ReleaseFollowsApproval, CaseTyped, NoId
  <2>4. ASSUME case'.record_ids["schedule_id"] # NoId
        PROVE  /\ case'.state \notin BeforeApproval
               /\ case'.record_ids["schedule_id"] > case'.record_ids["approval_id"]
    <3>1. /\ case.record_ids["schedule_id"] # NoId
          /\ case'.record_ids["schedule_id"] = case.record_ids["schedule_id"]
          /\ case.state \notin BeforeApproval /\ ~Reopens(case, t)
      BY <1>2, <2>1, <2>4, PipelineStates DEF ReleaseFollowsApproval
    <3>2. t # "approve_change" /\ case'.state \notin BeforeApproval
      BY <1>2, <1>3, <3>1, PipelineStates
    <3> QED
      BY <1>4, <2>1, <2>2, <3>1, <3>2 DEF ReleaseFollowsApproval, NoId
  <2> QED
    BY <2>3, <2>4 DEF ReleaseFollowsApproval
<1>7. case.state \in Released => t # "approve_change"
  BY <1>2 DEF Sources, Released, TerminalStates
<1>8. /\ case'.record_ids["execution_id"] = case.record_ids["execution_id"]
      /\ case'.record_ids["schedule_id"] \in {NoId, case.record_ids["schedule_id"]}
      /\ case.state \in Released =>
           /\ case'.record_ids["schedule_id"] = case.record_ids["schedule_id"]
           /\ case'.record_ids["approval_id"] = case.record_ids["approval_id"]
  BY <1>2, <1>3, <1>4, <1>7, PipelineStates DEF RecordNames
<1>9. ASSUME case.state \notin Released, case'.state \notin BeforeApproval
      PROVE  /\ case'.record_ids["schedule_id"] = NoId
             /\ case'.record_ids["approval_id"] = case.version + 1
  <2>1. t = "approve_change" /\ case.state \in BeforeApproval
    BY <1>2, <1>3, <1>9, PipelineStates
  <2> QED
    BY <1>3, <1>4, <1>8, <2>1 DEF RecordNames, ReleaseFollowsApproval
<1> QED
  BY <1>2, <1>3, <1>5, <1>6, <1>8, <1>9, PipelineStates

\* ExecutionScheduler.schedule: the release is newer than the approval.
LEMMA ScheduleStep ==
  ASSUME CaseTyped, ReleaseFollowsApproval, ScheduleAdvance
  PROVE  /\ CaseTyped' /\ ReleaseFollowsApproval'
         /\ \/ case' = case
            \/ /\ case'.version = case.version + 1
               /\ case.state = "approved" /\ case'.state = "approved"
               /\ case'.record_ids["execution_id"] = case.record_ids["execution_id"]
<1>1. CASE UNCHANGED case
  BY <1>1 DEF CaseTyped, ReleaseFollowsApproval
<1> DEFINE names == {"schedule_id", "execution_job_id"}
           r == RequestOf(case, "schedule_execution", names, {})
<1>2. CASE Permits(case, r) /\ case' = Apply(case, r)
  <2>1. case.state = "approved"
    BY <1>2 DEF Permits, RequestOf, Request, Sources
  <2>2. StateAfter(case, "schedule_execution") = case.state
    BY DEF StateAfter, Reopens, Target
  <2>3. /\ AttachedId(case, "schedule_execution") = case.version + 1
        /\ Withdrawn(case, "schedule_execution") = {}
    BY DEF AttachedId, Withdrawn, Reopens
  <2>4. /\ case'.version = case.version + 1 /\ case'.state = "approved"
        /\ case'.record_ids = [n \in RecordNames |-> IF n \in names THEN case.version + 1
                                                    ELSE case.record_ids[n]]
    BY <1>2, <2>1, <2>2, <2>3, ApplyFields
  <2> QED
    BY <2>1, <2>4 DEF CaseTyped, ReleaseFollowsApproval, RecordNames, BeforeApproval, CaseStates,
       ActiveStates, ReopenStates, NoId
<1> QED
  BY <1>1, <1>2 DEF ScheduleAdvance

\* An advance of execute: the state it leads to, and no new approval or schedule.
LEMMA ExecuteStep ==
  ASSUME CaseTyped, ReleaseFollowsApproval, NEW w \in Workers, phase[w] \in Advances,
         case.state \notin BeforeApproval, case' = Apply(case, AdvanceRequest(w, case))
  PROVE  /\ CaseTyped' /\ ReleaseFollowsApproval'
         /\ case'.version = case.version + 1
         /\ phase[w] = "start_execution" => case'.state = "executing"
         /\ phase[w] = "start_verification" => case'.state = "verifying"
         /\ phase[w] = "complete_remediation" => case'.state = "remediated"
         /\ phase[w] = "start_rollback" => case'.state = "rolling_back"
         /\ phase[w] = "complete_rollback" => case'.state = "rolled_back"
         /\ phase[w] \in {"block_failed", "block_contained"} =>
              case'.state = "blocked" /\ case'.blocked_from = case.state
         /\ case'.record_ids["approval_id"] = case.record_ids["approval_id"]
         /\ case'.record_ids["schedule_id"] = case.record_ids["schedule_id"]
         /\ phase[w] # "start_execution" =>
              case'.record_ids["execution_id"] = case.record_ids["execution_id"]
<1> DEFINE p == phase[w]
           t == IF p \in {"block_failed", "block_contained"} THEN "block" ELSE p
           names == ExecutionNames(p)
<1>1. t \in {"start_execution", "start_verification", "complete_remediation", "start_rollback",
             "complete_rollback", "block"}
  BY DEF Advances
<1>2. /\ "approval_id" \notin names /\ "schedule_id" \notin names
      /\ "execution_id" \in names => p = "start_execution"
  <2>1. p \in {"block_failed", "block_contained"} =>
          names \subseteq {"rollback_failure_id", "verification_result_id"}
    BY DEF ExecutionNames
  <2>2. p = "complete_remediation" =>
          names = UNION {{"verification_result_id", "remediation_certificate_id",
                         "originator_handoff_id"}}
    BY DEF ExecutionNames, Attached
  <2>3. p \in {"start_execution", "start_verification", "start_rollback", "complete_rollback"} =>
          names = UNION {{RequiredRecord[p]}}
    BY DEF ExecutionNames, Attached
  <2>4. p \in {"start_execution", "start_verification", "start_rollback", "complete_rollback"} =>
          /\ RequiredRecord[p] \notin {"approval_id", "schedule_id"}
          /\ RequiredRecord[p] = "execution_id" => p = "start_execution"
    BY DEF RequiredRecord
  <2> QED
    BY <2>1, <2>2, <2>3, <2>4 DEF Advances
<1>3. AttachedId(case, t) = case.version + 1 /\ Withdrawn(case, t) = {}
  BY <1>1 DEF AttachedId, Withdrawn, Reopens
<1>4. /\ p = "start_execution" => StateAfter(case, t) = "executing"
      /\ p = "start_verification" => StateAfter(case, t) = "verifying"
      /\ p = "complete_remediation" => StateAfter(case, t) = "remediated"
      /\ p = "start_rollback" => StateAfter(case, t) = "rolling_back"
      /\ p = "complete_rollback" => StateAfter(case, t) = "rolled_back"
      /\ t = "block" => StateAfter(case, t) = "blocked" /\ BlockedFromAfter(case, t) = case.state
  BY DEF StateAfter, BlockedFromAfter, Reopens, Target
<1>5. StateAfter(case, t) \in CaseStates \ BeforeApproval
  BY <1>1, <1>4 DEF CaseStates, ActiveStates, ReopenStates, TerminalStates, BeforeApproval
<1>6. case' = Apply(case, RequestOf(case, t, names, {}))
  BY DEF AdvanceRequest
<1> HIDE DEF t, names
<1>7. /\ case'.state = StateAfter(case, t) /\ case'.version = case.version + 1
      /\ case'.blocked_from = BlockedFromAfter(case, t)
      /\ case'.record_ids = [n \in RecordNames |-> IF n \in names THEN case.version + 1
                                                  ELSE case.record_ids[n]]
  BY <1>3, <1>6, ApplyFields
<1>8. CaseTyped'
  BY <1>5, <1>7 DEF CaseTyped
<1>9. ReleaseFollowsApproval'
  BY <1>2, <1>5, <1>7 DEF CaseTyped, ReleaseFollowsApproval, RecordNames
<1>10. /\ case'.record_ids["approval_id"] = case.record_ids["approval_id"]
       /\ case'.record_ids["schedule_id"] = case.record_ids["schedule_id"]
       /\ p # "start_execution" =>
            case'.record_ids["execution_id"] = case.record_ids["execution_id"]
  BY <1>2, <1>7 DEF RecordNames
<1> QED
  BY <1>4, <1>7, <1>8, <1>9, <1>10 DEF t

------------------------------------------------------------------------------
LEMMA InitIInv ==
  ASSUME Init PROVE IInv
<1>1. PICK f \in Findings : case = OpenCase({f})
  BY DEF Init
<1>2. /\ case.state = "open" /\ case.version = 0
      /\ case.record_ids = [n \in RecordNames |-> NoId]
  BY <1>1 DEF OpenCase, NoRecords
<1>3. CaseTyped /\ ReleaseFollowsApproval
  BY <1>2 DEF CaseTyped, ReleaseFollowsApproval, CaseStates, ActiveStates, RecordNames, NoId
<1>4. \A w \in Workers : phase[w] = "idle" /\ got[w] = NoVersion /\ verdict[w] = "none"
  BY DEF Init
<1>5. WorkersTyped
  BY DEF Init, WorkersTyped, Phases, NoVersion
<1>6. OneHolder /\ \A w \in Workers : Held(w) /\ Known(w) /\ Told(w) /\ Read(w)
  BY <1>4 DEF OneHolder, HoldingPhases, Held, Known, Told, Read
<1>7. job[TheJob].state = "absent"
  BY JobAssumption DEF Init, Queue!Init, Queue!Absent
<1>8. ChangeIsAccounted /\ EndsAsReported /\ ReportsAgree
  BY <1>2, <1>7 DEF Init, ChangeIsAccounted, EndsAsReported, ReportsAgree
<1>9. QueueTyped
  BY DEF Init, Queue!Init, Queue!Absent, QueueTyped
<1> QED
  BY <1>3, <1>5, <1>6, <1>8, <1>9 DEF IInv

\* A step that leaves workers, target and queue alone, and takes a released case nowhere.
LEMMA CaseStep ==
  ASSUME IInv, CaseTyped', ReleaseFollowsApproval', QueueTyped',
         UNCHANGED <<workers, target, certified>>,
         job'[TheJob].state \in {job[TheJob].state, "scheduled"},
         \/ case' = case
         \/ /\ case'.version = case.version + 1
            /\ case.state \in Released => /\ case'.state = case.state
                                          /\ case'.blocked_from = case.blocked_from
            /\ case.state \notin Released => case'.state \notin Released
  PROVE  IInv'
<1> USE DEF IInv, workers, Released, TerminalStates
<1>1. WorkersTyped' /\ OneHolder'
  BY DEF WorkersTyped, OneHolder
<1>2. ChangeIsAccounted' /\ EndsAsReported' /\ ReportsAgree'
  BY DEF ChangeIsAccounted, EndsAsReported, ReportsAgree
<1>3. ASSUME NEW w \in Workers PROVE (Held(w) /\ Known(w) /\ Told(w) /\ Read(w))'
  <2>1. Held(w)' /\ Known(w)'
    BY DEF Held, Known
  <2>2. Told(w)'
    BY DEF Told
  <2>3. Read(w)'
    BY DEF Read, CaseTyped, WorkersTyped
  <2> QED
    BY <2>1, <2>2, <2>3
<1> QED
  BY <1>1, <1>2, <1>3

\* A step of one worker that leaves the case alone: what the invariant asks of it.
LEMMA WorkerStep ==
  ASSUME IInv, NEW w \in Workers, NEW next \in Phases, NEW read \in Nat,
         NEW result \in {"none", "restored", "contained", "failed", "succeeded", "rolled_back"},
         phase' = [phase EXCEPT ![w] = next], got' = [got EXCEPT ![w] = read],
         verdict' = [verdict EXCEPT ![w] = result],
         UNCHANGED case,
         (Held(w) /\ Known(w) /\ Told(w) /\ Read(w))',
         next \in HoldingPhases => phase[w] \in HoldingPhases,
         UNCHANGED <<target, certified>> \/ phase[w] \in HoldingPhases,
         certified => certified',
         (QueueTyped /\ ChangeIsAccounted /\ EndsAsReported /\ ReportsAgree)'
  PROVE  IInv'
<1> USE DEF IInv
<1>1. /\ phase'[w] = next /\ got'[w] = read /\ verdict'[w] = result
      /\ \A v \in Workers : v # w =>
           phase'[v] = phase[v] /\ got'[v] = got[v] /\ verdict'[v] = verdict[v]
  BY DEF WorkersTyped
<1>2. WorkersTyped'
  BY DEF WorkersTyped
<1>3. OneHolder'
  BY <1>1 DEF OneHolder
<1>4. ASSUME NEW v \in Workers PROVE (Held(v) /\ Known(v) /\ Told(v) /\ Read(v))'
  <2>1. CASE v = w
    BY <2>1
  <2>2. CASE v # w
    <3>1. (Held(v) /\ Told(v) /\ Read(v))'
      BY <1>1, <2>2 DEF Held, Told, Read
    <3>2. phase[v] \in HoldingPhases => UNCHANGED <<target, certified>>
      BY <2>2 DEF OneHolder
    <3>3. Known(v)'
      BY <1>1, <2>2, <3>2 DEF Known, HoldingPhases
    <3> QED
      BY <3>1, <3>3
  <2> QED
    BY <2>1, <2>2
<1>5. (CaseTyped /\ ReleaseFollowsApproval)'
  BY DEF CaseTyped, ReleaseFollowsApproval
<1> QED
  BY <1>2, <1>3, <1>4, <1>5

------------------------------------------------------------------------------
\* What the operations of the queue make of the job.
LEMMA TickQueue == ASSUME QueueTyped, Queue!Tick PROVE QueueTyped' /\ job' = job
BY DEF QueueTyped, Queue!Tick

LEMMA PutQueue ==
  ASSUME QueueTyped, Queue!Put(TheJob)
  PROVE  QueueTyped' /\ job'[TheJob].state = "scheduled"
BY JobAssumption DEF QueueTyped, Queue!Put, Queue!JobStates

LEMMA ClaimQueue ==
  ASSUME QueueTyped, NEW w \in Workers, Queue!ClaimDue(w)
  PROVE  /\ QueueTyped'
         /\ job'[TheJob].state \in {job[TheJob].state, "missed", "running"}
         /\ \/ /\ executing'[w] = NoJob
               /\ job'[TheJob].attempts = job[TheJob].attempts
            \/ /\ job'[TheJob].state = "running"
               /\ job'[TheJob].attempts = job[TheJob].attempts + 1
<1> DEFINE swept == [j \in Jobs |-> IF Queue!Elapsed(j) THEN Queue!Missed(job[j]) ELSE job[j]]
           Row == [state : Queue!JobStates \cup {"absent"}, attempts : Nat,
                   owner : Workers \cup {NoWorker}, until : Nat]
<1>1. /\ swept \in [Jobs -> Row]
      /\ swept[TheJob].state \in {job[TheJob].state, "missed"}
      /\ swept[TheJob].attempts = job[TheJob].attempts
  BY JobAssumption DEF QueueTyped, Queue!Missed, Queue!JobStates, Queue!Final
<1>2. CASE job' = swept /\ UNCHANGED <<now, executing>>
  BY <1>1, <1>2 DEF QueueTyped, Queue!ClaimDue
<1>3. CASE UNCHANGED now /\ \E j \in Jobs : /\ job' = [swept EXCEPT ![j] = Queue!Leased(@, w)]
                                            /\ executing' = [executing EXCEPT ![w] = j]
  <2>1. PICK j \in Jobs : /\ job' = [swept EXCEPT ![j] = Queue!Leased(swept[j], w)]
                          /\ executing' = [executing EXCEPT ![w] = j]
    BY <1>3
  <2>2. /\ Queue!Leased(swept[j], w) \in Row /\ Queue!Leased(swept[j], w).state = "running"
        /\ Queue!Leased(swept[j], w).attempts = swept[j].attempts + 1
    <3>1. swept[j].attempts \in Nat /\ now + Lease \in Nat
      BY <1>1, JobAssumption DEF QueueTyped
    <3> QED
      BY <3>1 DEF Queue!Leased, Queue!JobStates
  <2> HIDE DEF swept
  <2>3. /\ job' \in [Jobs -> Row] /\ job'[TheJob].state = "running"
        /\ job'[TheJob].attempts = job[TheJob].attempts + 1
    BY <1>1, <2>1, <2>2, JobAssumption
  <2> QED
    BY <1>3, <2>1, <2>3 DEF QueueTyped
<1> QED
  BY <1>2, <1>3 DEF Queue!ClaimDue, Queue!FirstDue

\* complete: the job gets what is reported, "failed" for what it does not accept, or, to a
\* worker that lost its lease, nothing.
LEMMA FinishQueue ==
  ASSUME QueueTyped, NEW w \in Workers, NEW result \in Queue!Outcomes, Queue!Finish(w, result)
  PROVE  /\ QueueTyped'
         /\ job'[TheJob].state \in {job[TheJob].state, result, "failed"}
         /\ result \in Completable => job'[TheJob].state \in {job[TheJob].state, result}
         /\ job'[TheJob].attempts = job[TheJob].attempts
<1> DEFINE reported == Queue!Reported(result)
           j == executing[w]
<1>1. j \in Jobs /\ j = TheJob
  BY JobAssumption DEF Queue!Finish, QueueTyped
<1>2. /\ reported \in {result, "failed"} /\ reported \in Queue!JobStates
      /\ result \in Completable => reported = result
  BY DEF Queue!Reported, Queue!JobStates, Queue!Outcomes
<1>3. /\ job' = IF Queue!LeasedTo(j, w)
                THEN [job EXCEPT ![j] = [job[j] EXCEPT !.state = reported, !.owner = NoWorker,
                                                       !.until = 0]]
                ELSE job
      /\ executing' = [executing EXCEPT ![w] = NoJob]
      /\ now' = now
  BY DEF Queue!Finish, Queue!Completed
<1> HIDE DEF reported, j
<1> QED
  BY <1>1, <1>2, <1>3 DEF QueueTyped

LEMMA CrashQueue ==
  ASSUME QueueTyped, NEW w \in Workers, Queue!Crash(w) PROVE QueueTyped' /\ job' = job
BY DEF QueueTyped, Queue!Crash

------------------------------------------------------------------------------
\* The three properties read the case, the target and the state of the job: a worker's
\* step on a case it leaves alone keeps them if the job stays or is not decided.
LEMMA ReportsStay ==
  ASSUME IInv, UNCHANGED <<case, target, certified>>,
         job'[TheJob].state \in {job[TheJob].state, "missed", "running", "failed"}
  PROVE  (ChangeIsAccounted /\ EndsAsReported /\ ReportsAgree)'
BY DEF IInv, ChangeIsAccounted, EndsAsReported, ReportsAgree

LEMMA ClaimIInv == ASSUME IInv, NEW w \in Workers, Claim(w) PROVE IInv'
<1> PICK next \in {"idle", "check"} : phase' = [phase EXCEPT ![w] = next]
  BY DEF Claim
<1>1. /\ phase[w] = "idle" /\ Queue!ClaimDue(w)
      /\ UNCHANGED <<case, scheduler, got, verdict, target, certified>>
  BY DEF Claim
<1>2. /\ got' = [got EXCEPT ![w] = got[w]] /\ got[w] \in Nat
      /\ verdict' = [verdict EXCEPT ![w] = verdict[w]]
      /\ verdict[w] \in {"none", "restored", "contained", "failed", "succeeded", "rolled_back"}
      /\ phase'[w] = next
  BY <1>1 DEF IInv, WorkersTyped
<1>3. (QueueTyped /\ ChangeIsAccounted /\ EndsAsReported /\ ReportsAgree)'
  BY <1>1, ClaimQueue, ReportsStay DEF IInv
<1>4. (Held(w) /\ Known(w) /\ Told(w) /\ Read(w))'
  BY <1>2 DEF Held, Known, Told, Read
<1>5. next \in Phases /\ next \notin HoldingPhases
  BY DEF Phases, HoldingPhases
<1> QED
  BY <1>1, <1>2, <1>3, <1>4, <1>5, WorkerStep

\* A worker's step that goes on to another phase and leaves the queue and the case alone.
LEMMA GoesIInv ==
  ASSUME IInv, NEW w \in Workers, NEW next \in Phases,
         NEW result \in {"none", "restored", "contained", "failed", "succeeded", "rolled_back"},
         Goes(w, next, result), UNCHANGED <<queue, case, scheduler>>,
         next \in HoldingPhases => phase[w] \in HoldingPhases,
         UNCHANGED <<target, certified>> \/ phase[w] \in HoldingPhases,
         certified => certified',
         ~UNCHANGED <<target, certified>> => case.state \in {"executing", "verifying"},
         next \in {"deploy", "start_verification"} => case.state = "executing",
         next \in {"probe", "complete_remediation"} => case.state = "verifying",
         next \in {"rollback", "start_rollback"} => case.state \in {"executing", "verifying"},
         next \notin {"complete_rollback", "block_contained", "block_failed"},
         next = "complete_remediation" => target' = "after" /\ certified',
         next = "start_rollback" => /\ result \in {"restored", "contained", "failed"}
                                    /\ result = "restored" => target' = "before",
         next = "report" => result = "failed"
  PROVE  IInv'
<1>1. phase'[w] = next /\ got'[w] = NoVersion /\ verdict'[w] = result
  BY DEF IInv, WorkersTyped, Goes
<1>2. (Held(w) /\ Known(w) /\ Told(w) /\ Read(w))'
  BY <1>1 DEF Held, Known, Told, Read
<1>3. QueueTyped' /\ job' = job
  BY DEF IInv, QueueTyped, queue
<1>4. (ChangeIsAccounted /\ EndsAsReported /\ ReportsAgree)'
  BY <1>3 DEF IInv, ChangeIsAccounted, EndsAsReported, ReportsAgree
<1> QED
  BY <1>2, <1>3, <1>4, WorkerStep DEF Goes, NoVersion

LEMMA CheckIInv == ASSUME IInv, NEW w \in Workers, Check(w) PROVE IInv'
<1>1. CASE Goes(w, "start_execution", "none")
  BY <1>1, GoesIInv DEF Check, Phases, HoldingPhases
<1>2. CASE Raises(w)
  BY <1>2, GoesIInv DEF Check, Raises, Phases, HoldingPhases
<1> QED
  BY <1>1, <1>2 DEF Check

LEMMA DeployIInv == ASSUME IInv, NEW w \in Workers, Deploy(w) PROVE IInv'
<1>1. /\ phase[w] = "deploy" /\ case.state = "executing"
      /\ UNCHANGED <<queue, case, scheduler, certified>>
  BY DEF Deploy, IInv, Held
<1>2. CASE Goes(w, "start_verification", "none")
  BY <1>1, <1>2, GoesIInv DEF Phases, HoldingPhases
<1>3. CASE Goes(w, "rollback", "none")
  BY <1>1, <1>3, GoesIInv DEF Phases, HoldingPhases
<1> QED
  BY <1>2, <1>3 DEF Deploy

LEMMA VerifyIInv == ASSUME IInv, NEW w \in Workers, Verify(w) PROVE IInv'
<1>1. /\ phase[w] = "probe" /\ case.state = "verifying"
      /\ UNCHANGED <<queue, case, scheduler, target>>
  BY DEF Verify, IInv, Held
<1>2. CASE ProbesPass /\ certified' = TRUE /\ Goes(w, "complete_remediation", "none")
  BY <1>1, <1>2, GoesIInv DEF Phases, HoldingPhases, ProbesPass
<1>3. CASE UNCHANGED certified /\ Goes(w, "rollback", "none")
  BY <1>1, <1>3, GoesIInv DEF Phases, HoldingPhases
<1> QED
  BY <1>2, <1>3 DEF Verify

LEMMA RollbackIInv == ASSUME IInv, NEW w \in Workers, Rollback(w) PROVE IInv'
<1>1. /\ phase[w] = "rollback" /\ case.state \in {"executing", "verifying"}
      /\ UNCHANGED <<queue, case, scheduler, certified>>
  BY DEF Rollback, IInv, Held
<1>2. PICK result \in {"restored", "contained", "failed"} :
        /\ result = "restored" => target' = "before"
        /\ Goes(w, "start_rollback", result)
  BY DEF Rollback
<1> QED
  BY <1>1, <1>2, GoesIInv DEF Phases, HoldingPhases

LEMMA AdvanceReadIInv == ASSUME IInv, NEW w \in Workers, AdvanceRead(w) PROVE IInv'
<1>1. UNCHANGED <<queue, case, scheduler, target, certified>> /\ phase[w] \in Advances
  BY DEF AdvanceRead
<1>2. CASE Raises(w)
  BY <1>1, <1>2, GoesIInv DEF Raises, Phases, HoldingPhases
<1>3. CASE /\ Permits(case, AdvanceRequest(w, case))
           /\ got' = [got EXCEPT ![w] = case.version] /\ UNCHANGED <<phase, verdict>>
  <2>1. phase[w] = "start_execution" => case.state = "approved"
    BY <1>3 DEF Permits, AdvanceRequest, RequestOf, Request, Sources
  <2>2. /\ phase' = [phase EXCEPT ![w] = phase[w]] /\ phase[w] \in Phases
        /\ verdict' = [verdict EXCEPT ![w] = verdict[w]]
        /\ verdict[w] \in {"none", "restored", "contained", "failed", "succeeded", "rolled_back"}
        /\ got'[w] = case.version /\ case.version \in Nat
    BY <1>3 DEF IInv, WorkersTyped, CaseTyped
  <2>3. (Held(w) /\ Known(w) /\ Told(w))'
    BY <1>1, <1>3 DEF IInv, Held, Known, Told
  <2>4. Read(w)'
    BY <1>1, <1>3, <2>1, <2>2 DEF Read
  <2>5. (QueueTyped /\ ChangeIsAccounted /\ EndsAsReported /\ ReportsAgree)'
    BY <1>1, ReportsStay DEF IInv, QueueTyped, queue
  <2> QED
    BY <1>1, <1>3, <2>2, <2>3, <2>4, <2>5, WorkerStep
<1> QED
  BY <1>2, <1>3 DEF AdvanceRead

LEMMA AdvanceAppendIInv == ASSUME IInv, NEW w \in Workers, AdvanceAppend(w) PROVE IInv'
<1> DEFINE next == Following(phase[w], verdict[w])
<1>1. /\ phase[w] \in Advances /\ got[w] # NoVersion
      /\ UNCHANGED <<queue, scheduler, target, certified>>
  BY DEF AdvanceAppend
<1>2. CASE Raises(w) /\ UNCHANGED case
  BY <1>1, <1>2, GoesIInv DEF Raises, Phases, HoldingPhases
<1>3. CASE /\ Unmoved(w) /\ case' = Apply(case, AdvanceRequest(w, case))
           /\ Goes(w, next[1], next[2])
  <2>1. /\ phase[w] = "start_execution" => case.state = "approved"
        /\ phase[w] \in HoldingPhases \/ phase[w] = "start_execution"
    BY <1>1, <1>3 DEF IInv, Read, Unmoved, Advances, HoldingPhases
  <2>2. case.state \in {"approved", "executing", "verifying", "rolling_back"}
    BY <2>1 DEF IInv, Held, HoldingPhases
  <2>3. /\ CaseTyped' /\ ReleaseFollowsApproval' /\ case'.version = case.version + 1
        /\ phase[w] = "start_execution" => case'.state = "executing"
        /\ phase[w] = "start_verification" => case'.state = "verifying"
        /\ phase[w] = "complete_remediation" => case'.state = "remediated"
        /\ phase[w] = "start_rollback" => case'.state = "rolling_back"
        /\ phase[w] = "complete_rollback" => case'.state = "rolled_back"
        /\ phase[w] \in {"block_failed", "block_contained"} =>
             case'.state = "blocked" /\ case'.blocked_from = case.state
    BY <1>1, <1>3, <2>2, ExecuteStep DEF IInv, BeforeApproval
  <2>4. /\ phase[w] = "start_execution" => next = <<"deploy", "none">>
        /\ phase[w] = "start_verification" => next = <<"probe", "none">>
        /\ phase[w] = "complete_remediation" => next = <<"report", "succeeded">>
        /\ phase[w] = "start_rollback" /\ verdict[w] = "restored" =>
             next = <<"complete_rollback", "restored">>
        /\ phase[w] = "start_rollback" /\ verdict[w] = "contained" =>
             next = <<"block_contained", "contained">>
        /\ phase[w] = "start_rollback" /\ verdict[w] = "failed" =>
             next = <<"block_failed", "failed">>
        /\ phase[w] = "complete_rollback" => next = <<"report", "rolled_back">>
        /\ phase[w] = "block_contained" => next = <<"report", "contained">>
        /\ phase[w] = "block_failed" => next = <<"report", "failed">>
    BY DEF Following
  <2>5. /\ phase' = [phase EXCEPT ![w] = next[1]] /\ verdict' = [verdict EXCEPT ![w] = next[2]]
        /\ got' = [got EXCEPT ![w] = NoVersion]
    BY <1>3 DEF Goes
  <2> HIDE DEF next
  <2>6. phase[w] = "start_rollback" => verdict[w] \in {"restored", "contained", "failed"}
    BY DEF IInv, Known
  <2>7. /\ next[1] \in Phases
        /\ next[2] \in {"none", "restored", "contained", "failed", "succeeded", "rolled_back"}
    BY <1>1, <2>4, <2>6 DEF Advances, Phases, HoldingPhases
  <2>8. /\ phase'[w] = next[1] /\ got'[w] = NoVersion /\ verdict'[w] = next[2]
        /\ \A v \in Workers : v # w =>
             phase'[v] = phase[v] /\ got'[v] = got[v] /\ verdict'[v] = verdict[v]
    BY <2>5 DEF IInv, WorkersTyped
  <2>9. WorkersTyped'
    BY <2>5, <2>7 DEF IInv, WorkersTyped, NoVersion
  <2>10. \A v \in Workers : v # w => phase[v] \notin HoldingPhases
    BY <2>1 DEF IInv, OneHolder, Held, HoldingPhases
  <2>11. OneHolder'
    BY <2>8, <2>10 DEF OneHolder
  <2>12. (Held(w) /\ Known(w) /\ Told(w) /\ Read(w))'
    <3>1. Held(w)' /\ Read(w)'
      BY <1>1, <2>3, <2>4, <2>6, <2>8 DEF Held, Read, Advances
    <3>2. Known(w)'
      BY <1>1, <2>4, <2>6, <2>8 DEF IInv, Known, Advances
    <3>3. Told(w)'
      <4>1. phase[w] = "block_contained" => case.state = "rolling_back"
        BY DEF IInv, Held
      <4>2. CASE phase[w] \in {"complete_remediation", "complete_rollback", "block_contained",
                             "block_failed"}
        BY <2>3, <2>4, <2>8, <4>1, <4>2 DEF Told
      <4>3. CASE phase[w] \in {"start_execution", "start_verification", "start_rollback"}
        <5>1. next[1] \in {"deploy", "probe", "complete_rollback", "block_contained",
                           "block_failed"}
          BY <2>4, <2>6, <4>3
        <5> QED
          BY <2>8, <5>1 DEF Told
      <4> QED
        BY <1>1, <4>2, <4>3 DEF Advances
    <3> QED
      BY <3>1, <3>2, <3>3
  <2>13. ASSUME NEW v \in Workers, v # w PROVE (Held(v) /\ Known(v) /\ Told(v) /\ Read(v))'
    <3>1. Held(v)' /\ Known(v)'
      BY <2>8, <2>10, <2>13 DEF Held, Known, HoldingPhases
    <3>2. Told(v)'
      BY <2>2, <2>8, <2>13 DEF IInv, Told
    <3>3. Read(v)'
      BY <2>3, <2>8, <2>13 DEF IInv, Read, CaseTyped, WorkersTyped
    <3> QED
      BY <3>1, <3>2, <3>3
  <2>14. ChangeIsAccounted' /\ EndsAsReported'
    BY <1>1, <2>2, <2>3 DEF IInv, ChangeIsAccounted, EndsAsReported, Known, Advances
  <2>15. QueueTyped' /\ ReportsAgree'
    BY <1>1, <2>2 DEF IInv, QueueTyped, ReportsAgree, queue
  <2> QED
    BY <2>3, <2>9, <2>11, <2>12, <2>13, <2>14, <2>15 DEF IInv
<1> QED
  BY <1>1, <1>2, <1>3 DEF AdvanceAppend

\* run_once: what is reported is how the case ended.
LEMMA ReportIInv == ASSUME IInv, NEW w \in Workers, Report(w) PROVE IInv'
<1> DEFINE result == verdict[w]
<1>1. /\ phase[w] = "report" /\ Queue!Finish(w, result) /\ Goes(w, "idle", "none")
      /\ UNCHANGED <<case, scheduler, target, certified>>
  BY DEF Report
<1>2. /\ result \in Queue!Outcomes
      /\ result = "succeeded" => case.state = "remediated"
      /\ result = "rolled_back" => case.state = "rolled_back"
      /\ result = "contained" => case.state = "blocked" /\ case.blocked_from = "rolling_back"
  BY <1>1 DEF IInv, Told, Queue!Outcomes
<1> HIDE DEF result
<1>3. QueueTyped' /\ job'[TheJob].state \in {job[TheJob].state, result, "failed"}
  BY <1>1, <1>2, FinishQueue DEF IInv
<1>4. (ChangeIsAccounted /\ EndsAsReported /\ ReportsAgree)'
  BY <1>1, <1>2, <1>3 DEF IInv, ChangeIsAccounted, EndsAsReported, ReportsAgree
<1>5. phase'[w] = "idle"
  BY <1>1 DEF IInv, WorkersTyped, Goes
<1>6. (Held(w) /\ Known(w) /\ Told(w) /\ Read(w))'
  BY <1>5 DEF Held, Known, Told, Read
<1> QED
  BY <1>1, <1>3, <1>4, <1>6, WorkerStep DEF Goes, Phases, HoldingPhases, NoVersion

LEMMA CrashIInv == ASSUME IInv, NEW w \in Workers, Crash(w) PROVE IInv'
<1>1. /\ Queue!Crash(w) /\ Goes(w, "idle", "none")
      /\ UNCHANGED <<case, scheduler, target, certified>>
  BY DEF Crash
<1>2. QueueTyped' /\ job' = job
  BY <1>1, CrashQueue DEF IInv
<1>3. (ChangeIsAccounted /\ EndsAsReported /\ ReportsAgree)'
  BY <1>1, <1>2, ReportsStay
<1>4. phase'[w] = "idle"
  BY <1>1 DEF IInv, WorkersTyped, Goes
<1>5. (Held(w) /\ Known(w) /\ Told(w) /\ Read(w))'
  BY <1>4 DEF Held, Known, Told, Read
<1> QED
  BY <1>1, <1>2, <1>3, <1>5, WorkerStep DEF Goes, Phases, HoldingPhases, NoVersion

LEMMA StepIInv == ASSUME IInv, [Next]_vars PROVE IInv'
<1>1. ASSUME NEW t \in PipelineTransitions \cup {"add_finding"}, Others(t) PROVE IInv'
  <2>1. UNCHANGED <<queue, scheduler, workers, target, certified>>
    BY <1>1 DEF Others
  <2>2. QueueTyped' /\ job' = job
    BY <2>1 DEF IInv, QueueTyped, queue
  <2> QED
    BY <1>1, <2>1, <2>2, PipelineStep, CaseStep DEF IInv
<1>2. CASE Tick
  BY <1>2, TickQueue, CaseStep DEF IInv, Tick, CaseTyped, ReleaseFollowsApproval
<1>3. CASE SchedulePut
  BY <1>3, PutQueue, CaseStep DEF IInv, SchedulePut, CaseTyped, ReleaseFollowsApproval
<1>4. CASE ScheduleAdvance
  <2>1. UNCHANGED <<queue, workers, target, certified>>
    BY <1>4 DEF ScheduleAdvance
  <2>2. QueueTyped' /\ job' = job
    BY <2>1 DEF IInv, QueueTyped, queue
  <2> QED
    BY <1>4, <2>1, <2>2, ScheduleStep, CaseStep DEF IInv, Released, TerminalStates
<1>5. ASSUME NEW w \in Workers, Work(w) \/ Crash(w) PROVE IInv'
  BY <1>5, ClaimIInv, CheckIInv, DeployIInv, VerifyIInv, RollbackIInv, AdvanceReadIInv,
     AdvanceAppendIInv, ReportIInv, CrashIInv DEF Work
<1>6. CASE UNCHANGED vars
  <2>1. QueueTyped' /\ job' = job
    BY <1>6 DEF vars, IInv, QueueTyped, queue
  <2> QED
    BY <1>6, <2>1, CaseStep DEF vars, IInv, CaseTyped, ReleaseFollowsApproval
<1> QED
  BY <1>1, <1>2, <1>3, <1>4, <1>5, <1>6 DEF Next

LEMMA Invariance == Spec => []IInv
<1>1. IInv /\ [Next]_vars => IInv'
  BY StepIInv
<1> QED
  BY InitIInv, <1>1, PTL DEF Spec

------------------------------------------------------------------------------
\* However leases expire and workers die, at most one worker ever gets to touch the
\* target: START_EXECUTION is taken once (ExecutionService.execute).
THEOREM OnlyOneChanges == Spec => []OneChanger
<1>1. IInv => OneChanger
  BY DEF IInv, OneHolder, OneChanger, Changing, HoldingPhases
<1> QED
  BY Invariance, <1>1, PTL

\* A target that was changed is the target of a case that says so, also when the worker
\* died or an append failed between deploy and the next advance.
THEOREM ChangesAccounted == Spec => []ChangeIsAccounted
<1>1. IInv => ChangeIsAccounted
  BY DEF IInv
<1> QED
  BY Invariance, <1>1, PTL

\* A case ends as remediated only on the changed target and certified, and as rolled back
\* only on the restored target (_rollback, COMPLETE_REMEDIATION).
THEOREM EndsReported == Spec => []EndsAsReported
<1>1. IInv => EndsAsReported
  BY DEF IInv
<1> QED
  BY Invariance, <1>1, PTL

------------------------------------------------------------------------------
(***************************************************************************)
(* How often the job was claimed.  While it was claimed once, its worker   *)
(* is the only one, the job is open as long as the worker is at work, and  *)
(* a worker whose case ended well has only its report to make.             *)
(***************************************************************************)
EndedWell == case.state \in {"remediated", "rolled_back"}
Attempts == job[TheJob].attempts
Reporting(w) == phase[w] = "report" /\ verdict[w] \in {"succeeded", "rolled_back"}

AttemptsCounted ==
  /\ EndedWell => Attempts >= 1
  /\ \A w \in Workers : phase[w] # "idle" => Attempts >= 1
  /\ Attempts <= 1 =>
       /\ \A v, w \in Workers : phase[v] # "idle" /\ phase[w] # "idle" => v = w
       /\ job[TheJob].state \in Queue!Outcomes => \A w \in Workers : phase[w] = "idle"
       /\ EndedWell => \A w \in Workers : phase[w] = "idle" \/ Reporting(w)
       /\ job[TheJob].state = "failed" => ~EndedWell

\* What the steps of the others leave of it.
LEMMA OthersAttempts ==
  ASSUME AttemptsCounted, UNCHANGED <<phase, verdict>>, EndedWell' <=> EndedWell,
         Attempts' = Attempts, job'[TheJob].state \in {job[TheJob].state, "scheduled"}
  PROVE  AttemptsCounted'
BY DEF AttemptsCounted, Reporting, Queue!Outcomes

LEMMA ClaimAttempts ==
  ASSUME IInv, AttemptsCounted, NEW w \in Workers, Claim(w)
  PROVE  AttemptsCounted'
<1>1. /\ phase[w] = "idle" /\ Queue!ClaimDue(w) /\ UNCHANGED <<case, verdict>>
      /\ phase' = [phase EXCEPT ![w] = IF executing'[w] = NoJob THEN "idle" ELSE "check"]
  BY DEF Claim
<1>2. phase \in [Workers -> Phases] /\ QueueTyped
  BY DEF IInv, WorkersTyped
<1>3. /\ job'[TheJob].state \in {job[TheJob].state, "missed", "running"}
      /\ \/ executing'[w] = NoJob /\ Attempts' = Attempts
         \/ job'[TheJob].state = "running" /\ Attempts' = Attempts + 1
  BY <1>1, <1>2, ClaimQueue DEF Attempts
<1>4. EndedWell' <=> EndedWell
  BY <1>1 DEF EndedWell
<1>5. Attempts \in Nat
  BY <1>2, JobAssumption DEF QueueTyped, Attempts
<1>6. CASE executing'[w] = NoJob /\ Attempts' = Attempts
  <2>1. phase' = phase
    BY <1>1, <1>2, <1>6
  <2> QED
    BY <1>1, <1>3, <1>4, <1>6, <2>1 DEF AttemptsCounted, Reporting, Queue!Outcomes
<1>7. CASE job'[TheJob].state = "running" /\ Attempts' = Attempts + 1
  <2>1. /\ \A v \in Workers \ {w} : phase'[v] = phase[v]
        /\ "running" \notin Queue!Outcomes /\ Attempts' >= 1
    BY <1>1, <1>2, <1>5, <1>7 DEF Queue!Outcomes
  <2>2. ASSUME Attempts' <= 1
        PROVE  ~EndedWell /\ \A v \in Workers : phase[v] = "idle"
    BY <1>5, <1>7, <2>2 DEF AttemptsCounted
  <2> QED
    BY <1>4, <1>7, <2>1, <2>2 DEF AttemptsCounted
<1> QED
  BY <1>3, <1>6, <1>7

\* A step of a worker on its way: it stays at work, and leaves the job alone.
LEMMA WorkAttempts ==
  ASSUME IInv, AttemptsCounted, NEW w \in Workers, NEW next \in Phases \ {"idle"},
         phase[w] \notin {"idle", "report"}, phase' = [phase EXCEPT ![w] = next],
         \A v \in Workers : v # w => verdict'[v] = verdict[v],
         UNCHANGED job,
         EndedWell' => EndedWell \/ Reporting(w)'
  PROVE  AttemptsCounted'
<1>1. /\ phase'[w] = next /\ \A v \in Workers : v # w => phase'[v] = phase[v]
      /\ Attempts >= 1 /\ Attempts' = Attempts
  BY DEF IInv, WorkersTyped, AttemptsCounted, Attempts
<1>2. ASSUME Attempts <= 1
      PROVE  /\ \A v \in Workers : v # w => phase[v] = "idle"
             /\ job[TheJob].state \notin Queue!Outcomes /\ ~EndedWell
  BY <1>2 DEF AttemptsCounted, Reporting
<1>3. "failed" \in Queue!Outcomes
  BY DEF Queue!Outcomes
<1> QED
  BY <1>1, <1>2, <1>3 DEF AttemptsCounted

\* The steps of execute.
LEMMA ExecuteAttempts ==
  ASSUME IInv, AttemptsCounted, NEW w \in Workers,
         \/ Check(w) \/ Deploy(w) \/ Verify(w) \/ Rollback(w)
         \/ AdvanceRead(w) \/ AdvanceAppend(w)
  PROVE  AttemptsCounted'
<1>1. phase[w] \notin {"idle", "report"} /\ UNCHANGED job
  BY DEF Check, Deploy, Verify, Rollback, AdvanceRead, AdvanceAppend, Advances, queue
<1>2. ASSUME NEW next \in Phases \ {"idle"}, NEW result, Goes(w, next, result), UNCHANGED case
      PROVE  AttemptsCounted'
  <2>1. EndedWell' <=> EndedWell
    BY <1>2 DEF EndedWell
  <2> QED
    BY <1>1, <1>2, <2>1, WorkAttempts DEF Goes, IInv, WorkersTyped
<1>3. CASE UNCHANGED <<phase, verdict, case>>
  BY <1>1, <1>3, OthersAttempts DEF EndedWell, Attempts
<1>4. CASE Raises(w) /\ UNCHANGED case
  BY <1>2, <1>4 DEF Raises, Phases
<1>5. CASE Check(w) \/ Deploy(w) \/ Verify(w) \/ Rollback(w)
  BY <1>2, <1>4, <1>5 DEF Check, Deploy, Verify, Rollback, Phases, HoldingPhases
<1>6. CASE AdvanceRead(w)
  BY <1>3, <1>4, <1>6 DEF AdvanceRead
<1>7. CASE AdvanceAppend(w)
  <2>1. PICK next, result : <<next, result>> = Following(phase[w], verdict[w])
    <3>1. Known(w) /\ phase[w] \in Advances
      BY <1>7 DEF IInv, AdvanceAppend
    <3> QED
      BY <3>1 DEF Known, Following, Advances
  <2>2. CASE Raises(w) /\ UNCHANGED case
    BY <1>4, <2>2
  <2>3. CASE Unmoved(w) /\ case' = Apply(case, AdvanceRequest(w, case)) /\ Goes(w, next, result)
    <3>1. phase[w] \in Advances /\ Known(w) /\ Held(w) /\ Read(w) /\ got[w] # NoVersion
      BY <1>7 DEF IInv, AdvanceAppend
    <3>2. case.state \in {"approved", "executing", "verifying", "rolling_back"}
      BY <2>3, <3>1 DEF Advances, Held, Read, Unmoved
    <3>3. /\ phase[w] = "start_execution" => case'.state = "executing"
          /\ phase[w] = "start_verification" => case'.state = "verifying"
          /\ phase[w] = "complete_remediation" => case'.state = "remediated"
          /\ phase[w] = "start_rollback" => case'.state = "rolling_back"
          /\ phase[w] = "complete_rollback" => case'.state = "rolled_back"
          /\ phase[w] \in {"block_failed", "block_contained"} => case'.state = "blocked"
      BY <2>3, <3>1, <3>2, ExecuteStep DEF IInv, BeforeApproval
    <3>4. /\ next \in Phases \ {"idle"}
          /\ phase[w] = "complete_remediation" => next = "report" /\ result = "succeeded"
          /\ phase[w] = "complete_rollback" => next = "report" /\ result = "rolled_back"
      BY <2>1, <3>1 DEF Following, Advances, Known, Phases, HoldingPhases
    <3>5. /\ phase' = [phase EXCEPT ![w] = next] /\ phase'[w] = next
          /\ verdict'[w] = result /\ \A v \in Workers : v # w => verdict'[v] = verdict[v]
      BY <2>3 DEF Goes, IInv, WorkersTyped
    <3>6. EndedWell' => Reporting(w)'
      BY <3>1, <3>3, <3>4, <3>5 DEF EndedWell, Reporting, Advances
    <3> QED
      BY <1>1, <3>4, <3>5, <3>6, WorkAttempts
  <2> QED
    BY <1>7, <2>1, <2>2, <2>3 DEF AdvanceAppend
<1> QED
  BY <1>5, <1>6, <1>7

\* A report, or the death of a worker: it is idle again.
LEMMA ReleaseAttempts ==
  ASSUME IInv, AttemptsCounted, NEW w \in Workers, Report(w) \/ Crash(w)
  PROVE  AttemptsCounted'
<1>1. /\ Goes(w, "idle", "none") /\ UNCHANGED case /\ QueueTyped
      /\ EndedWell' <=> EndedWell
  BY DEF Report, Crash, IInv, EndedWell
<1>2. /\ phase'[w] = "idle"
      /\ \A v \in Workers : v # w => phase'[v] = phase[v] /\ verdict'[v] = verdict[v]
  BY <1>1 DEF Goes, IInv, WorkersTyped
<1>3. CASE Crash(w)
  <2>1. job' = job
    BY <1>1, <1>3, CrashQueue DEF Crash
  <2> QED
    BY <1>1, <1>2, <2>1 DEF AttemptsCounted, Attempts, Reporting
<1>4. CASE Report(w)
  <2>1. phase[w] = "report" /\ verdict[w] \in Queue!Outcomes /\ Queue!Finish(w, verdict[w])
    BY <1>4 DEF Report, IInv, Told, Queue!Outcomes
  <2>2. PICK result \in Queue!Outcomes : result = verdict[w]
    BY <2>1
  <2>3. /\ job'[TheJob].state \in {job[TheJob].state, result, "failed"}
        /\ result \in Completable => job'[TheJob].state \in {job[TheJob].state, result}
        /\ Attempts' = Attempts
    BY <1>1, <2>1, <2>2, FinishQueue DEF Attempts
  <2>4. ASSUME Attempts <= 1
        PROVE  /\ \A v \in Workers : phase'[v] = "idle"
               /\ job'[TheJob].state = "failed" => ~EndedWell
    <3>1. \A v \in Workers : phase'[v] = "idle"
      BY <1>2, <2>1, <2>4 DEF AttemptsCounted
    <3>2. ASSUME EndedWell
          PROVE  job'[TheJob].state # "failed"
      <4>1. result \in {"succeeded", "rolled_back"} /\ job[TheJob].state # "failed"
        BY <2>1, <2>2, <2>4, <3>2 DEF AttemptsCounted, Reporting
      <4> QED
        BY <2>3, <4>1, JobAssumption
    <3> QED
      BY <3>1, <3>2
  <2> QED
    BY <1>1, <1>2, <2>1, <2>3, <2>4 DEF AttemptsCounted
<1> QED
  BY <1>3, <1>4

LEMMA AttemptsInvariance == Spec => []AttemptsCounted
<1>1. Init => AttemptsCounted
  <2> SUFFICES ASSUME Init PROVE AttemptsCounted
    OBVIOUS
  <2>1. case.state = "open"
    BY DEF Init, OpenCase
  <2>2. job[TheJob].state = "absent" /\ \A w \in Workers : phase[w] = "idle"
    BY JobAssumption DEF Init, Queue!Init, Queue!Absent
  <2> QED
    BY <2>1, <2>2 DEF AttemptsCounted, EndedWell, Queue!Outcomes
<1>2. ASSUME IInv, AttemptsCounted, [Next]_vars
      PROVE  AttemptsCounted'
  <2>1. ASSUME NEW t \in PipelineTransitions \cup {"add_finding"}, Others(t)
        PROVE  AttemptsCounted'
    <3>1. /\ case.state \in Released => case'.state = case.state
          /\ case.state \notin Released => case'.state \notin Released
      BY <1>2, <2>1, PipelineStep DEF IInv
    <3> QED
      BY <1>2, <2>1, <3>1, OthersAttempts
      DEF Others, queue, workers, EndedWell, Attempts, Released, TerminalStates
  <2>2. CASE SchedulePut
    BY <1>2, <2>2, OthersAttempts, JobAssumption
    DEF SchedulePut, workers, EndedWell, Attempts, Queue!Put, IInv, QueueTyped
  <2>3. CASE ScheduleAdvance
    <3>1. case' = case \/ (case.state = "approved" /\ case'.state = "approved")
      BY <1>2, <2>3, ScheduleStep DEF IInv
    <3> QED
      BY <1>2, <2>3, <3>1, OthersAttempts
      DEF ScheduleAdvance, queue, workers, EndedWell, Attempts
  <2>4. CASE Tick \/ UNCHANGED vars
    BY <1>2, <2>4, OthersAttempts
    DEF Tick, Queue!Tick, vars, queue, workers, EndedWell, Attempts
  <2>5. ASSUME NEW w \in Workers, Work(w) \/ Crash(w)
        PROVE  AttemptsCounted'
    BY <1>2, <2>5, ClaimAttempts, ExecuteAttempts, ReleaseAttempts DEF Work
  <2> QED
    BY <1>2, <2>1, <2>2, <2>3, <2>4, <2>5 DEF Next
<1> QED
  BY <1>1, <1>2, Invariance, PTL DEF Spec

\* The queue and the case agree on how an execution ended, whichever worker reported it and
\* whichever results the job store accepts; a job that was claimed once is not recorded as
\* failed while its case ended well (run_once, complete).
THEOREM JobsAgree == Spec => []JobAgreesWithCase
<1>1. IInv /\ AttemptsCounted => JobAgreesWithCase
  BY DEF IInv, ReportsAgree, AttemptsCounted, EndedWell, Attempts, JobAgreesWithCase
<1> QED
  BY <1>1, Invariance, AttemptsInvariance, PTL

------------------------------------------------------------------------------
(***************************************************************************)
(* What a worker about to start rests on: the approval of the case exactly *)
(* while the case names a schedule, which it does not get twice.           *)
(***************************************************************************)
Rests(w) ==
  phase[w] = "start_execution" =>
    /\ scheduler = "over"
    /\ basis[w] <= case.version
    /\ case.state \notin BeforeApproval =>
         (case.record_ids["schedule_id"] # NoId <=> basis[w] = case.record_ids["approval_id"])

Vouched ==
  /\ basis \in [Workers -> Nat] /\ executed \in Nat
  /\ \A w \in Workers : Rests(w)
  /\ case.record_ids["schedule_id"] # NoId => scheduler = "over"
  /\ case.record_ids["execution_id"] # NoId => case.state \in Released
  /\ ReleaseTellsThePlan

\* The steps that leave the case alone and let no worker start.
LEMMA StaysVouched ==
  ASSUME Vouched, UNCHANGED <<case, executed>>, basis' \in [Workers -> Nat],
         scheduler' = scheduler \/ (scheduler = "idle" /\ scheduler' = "put"),
         \A w \in Workers : phase'[w] = "start_execution" =>
                              phase[w] = "start_execution" /\ basis'[w] = basis[w]
  PROVE  Vouched'
BY DEF Vouched, Rests, ReleaseTellsThePlan

LEMMA OthersVouched ==
  ASSUME IInv, Vouched, NEW t \in PipelineTransitions \cup {"add_finding"}, Others(t)
  PROVE  Vouched'
<1>1. UNCHANGED <<scheduler, phase, basis, executed>>
  BY DEF Others, workers
<1>2. /\ case'.version = case.version + 1 /\ case.version \in Nat
      /\ case.state \in Released => case'.state = case.state
      /\ case'.record_ids["execution_id"] = case.record_ids["execution_id"]
      /\ case'.record_ids["schedule_id"] \in {NoId, case.record_ids["schedule_id"]}
      /\ case.state \in Released =>
           /\ case'.record_ids["schedule_id"] = case.record_ids["schedule_id"]
           /\ case'.record_ids["approval_id"] = case.record_ids["approval_id"]
      /\ case.state \notin Released /\ case'.state \notin BeforeApproval =>
           /\ case'.record_ids["schedule_id"] = NoId
           /\ case'.record_ids["approval_id"] = case.version + 1
  BY PipelineStep DEF IInv, CaseTyped
<1>3. ASSUME NEW w \in Workers PROVE Rests(w)'
  <2>1. basis[w] \in Nat /\ Rests(w)
    BY DEF Vouched
  <2>2. case.state \in Released => case.state \notin BeforeApproval
    BY DEF Released, TerminalStates, BeforeApproval
  <2>3. CASE case.state \in Released
    BY <1>1, <1>2, <2>1, <2>2, <2>3 DEF Rests
  <2>4. CASE case.state \notin Released
    BY <1>1, <1>2, <2>1, <2>4 DEF Rests
  <2> QED
    BY <2>3, <2>4
<1> QED
  BY <1>1, <1>2, <1>3 DEF Vouched, ReleaseTellsThePlan

LEMMA ScheduleVouched ==
  ASSUME IInv, Vouched, ScheduleAdvance
  PROVE  Vouched'
<1>1. /\ scheduler = "put" /\ scheduler' = "over" /\ UNCHANGED <<phase, basis, executed>>
  BY DEF ScheduleAdvance, workers
<1>2. /\ case.record_ids["schedule_id"] = NoId
      /\ \A w \in Workers : phase[w] # "start_execution"
  BY <1>1 DEF Vouched, Rests
<1>3. CASE case' = case
  BY <1>1, <1>2, <1>3 DEF Vouched, Rests, ReleaseTellsThePlan
<1>4. CASE /\ case.state = "approved"
           /\ case'.record_ids["execution_id"] = case.record_ids["execution_id"]
  <2>1. case'.record_ids["execution_id"] = NoId
    BY <1>4 DEF Vouched, Released, TerminalStates
  <2> QED
    BY <1>1, <1>2, <2>1 DEF Vouched, Rests, ReleaseTellsThePlan
<1> QED
  BY <1>3, <1>4, ScheduleStep DEF IInv

LEMMA CheckVouched ==
  ASSUME IInv, Vouched, NEW w \in Workers, Check(w)
  PROVE  Vouched'
<1>1. /\ UNCHANGED <<case, scheduler, executed>>
      /\ phase \in [Workers -> Phases] /\ basis \in [Workers -> Nat]
      /\ case.record_ids["approval_id"] \in Nat /\ case.version \in Nat
  BY DEF Check, IInv, WorkersTyped, Vouched, CaseTyped, RecordNames
<1>2. CASE Raises(w)
  <2>1. basis' \in [Workers -> Nat]
    BY <1>1, <1>2 DEF Raises, Goes, NoId
  <2> QED
    BY <1>1, <1>2, <2>1, StaysVouched DEF Raises, Goes
<1>3. CASE Releasable(w) /\ Goes(w, "start_execution", "none")
  <2>1. /\ basis' = [basis EXCEPT ![w] = case.record_ids["approval_id"]]
        /\ \A v \in Workers : v # w => phase'[v] = phase[v]
        /\ case.record_ids["schedule_id"] # NoId
    BY <1>1, <1>3 DEF Goes, Releasable
  <2>2. Rests(w)'
    BY <1>1, <2>1 DEF Rests, Vouched, IInv, ReleaseFollowsApproval
  <2>3. \A v \in Workers : v # w => Rests(v)'
    BY <1>1, <2>1 DEF Rests, Vouched
  <2> QED
    BY <1>1, <2>1, <2>2, <2>3 DEF Vouched, ReleaseTellsThePlan
<1> QED
  BY <1>2, <1>3 DEF Check

LEMMA AppendVouched ==
  ASSUME IInv, Vouched, NEW w \in Workers, AdvanceAppend(w)
  PROVE  Vouched'
<1>1. /\ phase[w] \in Advances /\ got[w] # NoVersion /\ scheduler' = scheduler
      /\ phase \in [Workers -> Phases] /\ basis \in [Workers -> Nat] /\ executed \in Nat
  BY DEF AdvanceAppend, IInv, WorkersTyped, Vouched
<1>2. CASE Raises(w) /\ UNCHANGED <<case, executed>>
  <2>1. basis' \in [Workers -> Nat]
    BY <1>1, <1>2 DEF Raises, Goes, NoId
  <2> QED
    BY <1>1, <1>2, <2>1, StaysVouched DEF Raises, Goes
<1>3. ASSUME NEW next, NEW result, Unmoved(w), case' = Apply(case, AdvanceRequest(w, case)),
             executed' = IF phase[w] = "start_execution" THEN basis[w] ELSE executed,
             <<next, result>> = Following(phase[w], verdict[w]), Goes(w, next, result)
      PROVE  Vouched'
  <2>1. Held(w) /\ Read(w) /\ Known(w) /\ Rests(w)
    BY DEF IInv, Vouched
  <2>2. /\ phase[w] = "start_execution" => case.state = "approved"
        /\ case.state \in {"approved", "executing", "verifying", "rolling_back"}
    BY <1>1, <1>3, <2>1 DEF Advances, Held, Read, Unmoved
  <2>3. case.state \notin BeforeApproval
    BY <2>2 DEF BeforeApproval
  <2>4. /\ case'.version = case.version + 1 /\ case.version \in Nat
        /\ phase[w] = "start_execution" => case'.state = "executing"
        /\ phase[w] = "start_verification" => case'.state = "verifying"
        /\ phase[w] = "complete_remediation" => case'.state = "remediated"
        /\ phase[w] = "start_rollback" => case'.state = "rolling_back"
        /\ phase[w] = "complete_rollback" => case'.state = "rolled_back"
        /\ phase[w] \in {"block_failed", "block_contained"} => case'.state = "blocked"
        /\ case'.record_ids["approval_id"] = case.record_ids["approval_id"]
        /\ case'.record_ids["schedule_id"] = case.record_ids["schedule_id"]
        /\ phase[w] # "start_execution" =>
             case'.record_ids["execution_id"] = case.record_ids["execution_id"]
    BY <1>1, <1>3, <2>3, ExecuteStep DEF IInv, CaseTyped
  <2>5. case'.state \in Released
    BY <1>1, <2>4 DEF Advances, Released, TerminalStates
  <2>6. next # "start_execution"
    BY <1>1, <1>3, <2>1 DEF Following, Advances, Known
  <2>7. /\ basis' = [basis EXCEPT ![w] = NoId] /\ phase'[w] # "start_execution"
        /\ \A v \in Workers : v # w => phase'[v] = phase[v] /\ basis'[v] = basis[v]
    BY <1>1, <1>3, <2>6 DEF Goes
  <2>8. ASSUME NEW v \in Workers PROVE Rests(v)'
    <3>1. Rests(v) /\ basis[v] \in Nat
      BY DEF Vouched
    <3> QED
      BY <1>1, <2>3, <2>4, <2>7, <3>1 DEF Rests
  <2>9. ReleaseTellsThePlan'
    BY <1>3, <2>1, <2>3, <2>4 DEF Vouched, Rests, ReleaseTellsThePlan
  <2> QED
    BY <1>1, <1>3, <2>4, <2>5, <2>7, <2>8, <2>9 DEF Vouched, NoId
<1>4. \E next, result : <<next, result>> = Following(phase[w], verdict[w])
  BY <1>1 DEF IInv, Known, Following, Advances
<1> QED
  BY <1>2, <1>3, <1>4 DEF AdvanceAppend

LEMMA VouchedInvariance == Spec => []Vouched
<1>1. Init => Vouched
  <2> SUFFICES ASSUME Init PROVE Vouched
    OBVIOUS
  <2>1. \A n \in RecordNames : case.record_ids[n] = NoId
    BY DEF Init, OpenCase, NoRecords
  <2>2. /\ case.record_ids["schedule_id"] = NoId /\ case.record_ids["execution_id"] = NoId
        /\ basis \in [Workers -> Nat] /\ executed \in Nat
        /\ \A w \in Workers : phase[w] = "idle"
    BY <2>1 DEF Init, RecordNames, NoId
  <2> QED
    BY <2>2 DEF Vouched, Rests, ReleaseTellsThePlan
<1>2. ASSUME IInv, Vouched, [Next]_vars
      PROVE  Vouched'
  <2>1. ASSUME NEW t \in PipelineTransitions \cup {"add_finding"}, Others(t)
        PROVE  Vouched'
    BY <1>2, <2>1, OthersVouched
  <2>2. CASE Tick \/ SchedulePut \/ UNCHANGED vars
    <3>1. /\ UNCHANGED <<case, executed, basis, phase>>
          /\ scheduler' = scheduler \/ (scheduler = "idle" /\ scheduler' = "put")
      BY <2>2 DEF Tick, SchedulePut, vars, workers
    <3> QED
      BY <1>2, <3>1, StaysVouched DEF Vouched
  <2>3. CASE ScheduleAdvance
    BY <1>2, <2>3, ScheduleVouched
  <2>4. ASSUME NEW w \in Workers, Claim(w) PROVE Vouched'
    <3>1. /\ UNCHANGED <<case, executed, basis, scheduler>>
          /\ \A v \in Workers : phase'[v] = "start_execution" => phase[v] = "start_execution"
      BY <1>2, <2>4 DEF Claim, IInv, WorkersTyped
    <3> QED
      BY <1>2, <3>1, StaysVouched DEF Vouched
  <2>5. ASSUME NEW w \in Workers, NEW next, NEW result, next # "start_execution",
               Goes(w, next, result), UNCHANGED <<case, executed, scheduler>>
        PROVE  Vouched'
    <3>1. /\ basis' \in [Workers -> Nat]
          /\ \A v \in Workers : phase'[v] = "start_execution" =>
                                  phase[v] = "start_execution" /\ basis'[v] = basis[v]
      BY <1>2, <2>5 DEF Goes, IInv, WorkersTyped, Vouched, NoId
    <3> QED
      BY <1>2, <2>5, <3>1, StaysVouched
  <2>6. ASSUME NEW w \in Workers,
               Deploy(w) \/ Verify(w) \/ Rollback(w) \/ Report(w) \/ Crash(w)
        PROVE  Vouched'
    BY <2>5, <2>6 DEF Deploy, Verify, Rollback, Report, Crash
  <2>7. ASSUME NEW w \in Workers, AdvanceRead(w) PROVE Vouched'
    <3>1. CASE Raises(w)
      BY <2>5, <2>7, <3>1 DEF AdvanceRead, Raises
    <3>2. CASE UNCHANGED <<phase, basis>>
      BY <1>2, <2>7, <3>2, StaysVouched DEF AdvanceRead, Vouched
    <3> QED
      BY <2>7, <3>1, <3>2 DEF AdvanceRead
  <2> QED
    BY <1>2, <2>1, <2>2, <2>3, <2>4, <2>6, <2>7, CheckVouched, AppendVouched DEF Next, Work
<1> QED
  BY <1>1, <1>2, Invariance, PTL DEF Spec

\* A case names the schedule that released it exactly when what was executed is what its
\* approval approves: one reopened and approved again while its execution was about to
\* start has lost the schedule (execute; transition_case, ADD_FINDING).
THEOREM ReleasesTell == Spec => []ReleaseTellsThePlan
<1>1. Vouched => ReleaseTellsThePlan
  BY DEF Vouched
<1> QED
  BY <1>1, VouchedInvariance, PTL

------------------------------------------------------------------------------
\* What the scheduler and the workers do with the queue is what JobQueue lets them: its
\* theorems hold for the queue of this composition.
THEOREM QueueImplemented == Spec => Queue!Spec
<1>1. Init => Queue!Init
  BY DEF Init
<1>2. IInv /\ [Next]_vars => [Queue!Next]_Queue!vars
  <2> SUFFICES ASSUME IInv, [Next]_vars PROVE Queue!Next \/ UNCHANGED Queue!vars
    OBVIOUS
  <2>1. CASE UNCHANGED queue
    BY <2>1 DEF queue, Queue!vars
  <2>2. CASE Tick
    BY <2>2 DEF Tick, Queue!Next
  <2>3. CASE SchedulePut
    BY <2>3, JobAssumption DEF SchedulePut, Queue!Next
  <2>4. ASSUME NEW w \in Workers, Claim(w) PROVE Queue!Next
    BY <2>4 DEF Claim, Queue!Next
  <2>5. ASSUME NEW w \in Workers, Crash(w) PROVE Queue!Next
    BY <2>5 DEF Crash, Queue!Next
  <2>6. ASSUME NEW w \in Workers, Report(w) PROVE Queue!Next
    <3>1. verdict[w] \in Queue!Outcomes
      BY <2>6 DEF Report, IInv, Told, Queue!Outcomes
    <3> QED
      BY <2>6, <3>1 DEF Report, Queue!Next
  <2>7. ASSUME NEW w \in Workers,
               \/ Check(w) \/ Deploy(w) \/ Verify(w) \/ Rollback(w)
               \/ AdvanceRead(w) \/ AdvanceAppend(w)
        PROVE  UNCHANGED queue
    BY <2>7 DEF Check, Deploy, Verify, Rollback, AdvanceRead, AdvanceAppend
  <2>8. ASSUME NEW t \in PipelineTransitions \cup {"add_finding"}, Others(t)
        PROVE  UNCHANGED queue
    BY <2>8 DEF Others
  <2> QED
    BY <2>1, <2>2, <2>3, <2>4, <2>5, <2>6, <2>7, <2>8 DEF Next, Work, ScheduleAdvance, vars
<1> QED
  BY Invariance, <1>1, <1>2, PTL DEF Spec, Queue!Spec
------------------------------------------------------------------------------
(***************************************************************************)
(* What CaseLifecycle and JobQueue promise, of this composition            *)
(***************************************************************************)
\* The lifecycle of this case; nothing bounds its version.
Life == INSTANCE CaseLifecycleProofs WITH MaxVersion <- 0

\* The queue, with its theorems.
Leases == INSTANCE JobQueueProofs

\* The types beyond those IInv needs, the evidence on the case, and that a worker is idle
\* exactly while it executes no job.
Typed ==
  /\ Life!CaseIInv
  /\ scheduler \in {"idle", "put", "over"}
  /\ target \in {"before", "after", "contained"}
  /\ certified \in BOOLEAN
  /\ \A w \in Workers : phase[w] = "idle" <=> executing[w] = NoJob

\* The instance repeats the definitions of Cases; each is the one used here.
LEMMA SameCases ==
  /\ Life!Transitions = Transitions /\ Life!Case = Case
  /\ \A c, r : (Life!Permits(c, r) <=> Permits(c, r)) /\ Life!Apply(c, r) = Apply(c, r)
  /\ \A t : Life!Attached(t) = Attached(t) /\ Life!Additions(t) = Additions(t)
  /\ \A c, t, n, a : Life!RequestOf(c, t, n, a) = RequestOf(c, t, n, a)
  /\ \A fs : Life!OpenCase(fs) = OpenCase(fs)
<1>1. Life!Transitions = Transitions
  BY DEF Life!Transitions, Transitions, Life!Target, Target
<1>2. Life!Case = Case
  BY DEF Life!Case, Case, Life!CaseStates, CaseStates, Life!ActiveStates, ActiveStates,
         Life!ReopenStates, ReopenStates, Life!TerminalStates, TerminalStates, Life!NoState,
         NoState, Life!RecordNames, RecordNames
<1>3. \A c, r : Life!Permits(c, r) <=> Permits(c, r)
  BY DEF Life!Permits, Permits, Life!Sources, Sources, Life!ActiveStates, ActiveStates,
         Life!ReopenStates, ReopenStates, Life!RequiredRecord, RequiredRecord, Life!NoId,
         NoId, Life!NoState, NoState
<1>4. \A c, r : Life!Apply(c, r) = Apply(c, r)
  BY DEF Life!Apply, Apply, Life!StateAfter, StateAfter, Life!BlockedFromAfter,
         BlockedFromAfter, Life!Reopens, Reopens, Life!ReopenStates, ReopenStates,
         Life!Target, Target, Life!PlanAfter, PlanAfter, Life!WindowAfter, WindowAfter,
         Life!OrElse, OrElse, Life!RecordsAfter, RecordsAfter, Life!RecordNames,
         RecordNames, Life!Withdrawn, Withdrawn, Life!NoId, NoId, Life!NoState, NoState
<1>5. \A t : Life!Attached(t) = Attached(t) /\ Life!Additions(t) = Additions(t)
  BY DEF Life!Attached, Attached, Life!RequiredRecord, RequiredRecord, Life!Additions,
         Additions
<1>6. \A c, t, n, a : Life!RequestOf(c, t, n, a) = RequestOf(c, t, n, a)
  BY DEF Life!RequestOf, RequestOf, Life!Request, Request, Life!AttachedId, AttachedId,
         Life!NoId, NoId
<1>7. \A fs : Life!OpenCase(fs) = OpenCase(fs)
  BY DEF Life!OpenCase, OpenCase, Life!NoId, NoId, Life!NoState, NoState, Life!NoRecords,
         NoRecords, Life!RecordNames, RecordNames
<1> QED
  BY <1>1, <1>2, <1>3, <1>4, <1>5, <1>6, <1>7

\* A request as the call sites make it, permitted and applied.
LEMMA Taken ==
  ASSUME NEW t \in Transitions, NEW names \in Attached(t), NEW additions \in Additions(t),
         Permits(case, RequestOf(case, t, names, additions)),
         case' = Apply(case, RequestOf(case, t, names, additions))
  PROVE  \E u \in Life!Transitions : Life!Takes(u)
<1>1. PICK r : r = RequestOf(case, t, names, additions)
  OBVIOUS
<1>2. /\ names \in Life!Attached(t) /\ additions \in Life!Additions(t)
      /\ r = Life!RequestOf(case, t, names, additions)
      /\ Life!Permits(case, r) /\ case' = Life!Apply(case, r)
  BY <1>1, SameCases
<1> QED
  BY <1>2, SameCases DEF Life!Takes

\* An append of execute is permitted on the case it is appended to: the case has not moved
\* since the worker read it, and the worker holds it in a state the transition starts from.
LEMMA AppendTakes ==
  ASSUME IInv, NEW w \in Workers, AdvanceAppend(w)
  PROVE  case' = case \/ \E t \in Life!Transitions : Life!Takes(t)
<1> DEFINE p == phase[w]
           t == IF p \in {"block_failed", "block_contained"} THEN "block" ELSE p
           names == ExecutionNames(p)
<1>1. CASE UNCHANGED case
  BY <1>1
<1>2. CASE Unmoved(w) /\ case' = Apply(case, AdvanceRequest(w, case))
  <2>1. p \in Advances /\ got[w] = case.version /\ got[w] # NoVersion
    BY <1>2 DEF AdvanceAppend, Unmoved
  <2>2. case.version \in Nat
    BY DEF IInv, CaseTyped
  <2>3. t \in {"start_execution", "start_verification", "complete_remediation",
               "start_rollback", "complete_rollback", "block"}
    BY <2>1 DEF Advances
  <2>4. case.state \in Sources[t]
    <3>1. p = "start_execution" => case.state = "approved"
      BY <2>1 DEF IInv, Read
    <3>2. Held(w)
      BY DEF IInv
    <3> QED
      BY <2>1, <3>1, <3>2 DEF Advances, Held, Sources, ActiveStates, ReopenStates
  <2>5. names \in Attached(t)
    BY <2>1 DEF Advances, ExecutionNames, Attached
  <2>6. t \in DOMAIN RequiredRecord => RequiredRecord[t] \in names
    BY <2>3, <2>5 DEF Attached, RequiredRecord
  <2>7. AttachedId(case, t) = case.version + 1
    BY <2>3 DEF AttachedId
  <2>8. t \in Transitions /\ {} \in Additions(t)
    BY <2>3 DEF Transitions, Target, Additions
  <2>9. AdvanceRequest(w, case) = RequestOf(case, t, names, {})
    BY DEF AdvanceRequest
  <2>10. PICK r : r = RequestOf(case, t, names, {})
    OBVIOUS
  <2> HIDE DEF t, names
  <2>11. /\ r.transition = t /\ r.records = [n \in names |-> case.version + 1]
         /\ r.additions = {} /\ r.priority = NoId /\ r.change_plan = NoId
         /\ r.change_window = NoId
    BY <2>3, <2>7, <2>10 DEF RequestOf, Request
  <2>12. Permits(case, r)
    BY <2>2, <2>3, <2>4, <2>6, <2>11 DEF Permits, NoId
  <2> QED
    BY <1>2, <2>5, <2>8, <2>9, <2>10, <2>12, Taken
<1> QED
  BY <1>1, <1>2 DEF AdvanceAppend

\* Every step takes the case the way the lifecycle lets it, or leaves it.
LEMMA NextTakes ==
  ASSUME IInv, [Next]_vars
  PROVE  case' = case \/ \E t \in Life!Transitions : Life!Takes(t)
<1>1. ASSUME NEW t \in PipelineTransitions \cup {"add_finding"}, Others(t)
      PROVE  \E u \in Life!Transitions : Life!Takes(u)
  <2>1. t \in Transitions
    BY DEF PipelineTransitions, Transitions, Target
  <2> QED
    BY <1>1, <2>1, Taken DEF Others
<1>2. CASE ScheduleAdvance
  <2>1. /\ "schedule_execution" \in Transitions /\ {} \in Additions("schedule_execution")
        /\ {"schedule_id", "execution_job_id"} \in Attached("schedule_execution")
    BY DEF Transitions, Additions, Attached
  <2> QED
    BY <1>2, <2>1, Taken DEF ScheduleAdvance
<1>3. ASSUME NEW w \in Workers,
             \/ Claim(w) \/ Check(w) \/ Deploy(w) \/ Verify(w) \/ Rollback(w)
             \/ AdvanceRead(w) \/ Report(w) \/ Crash(w)
      PROVE  case' = case
  BY <1>3 DEF Claim, Check, Deploy, Verify, Rollback, AdvanceRead, Report, Crash
<1>4. ASSUME Tick \/ SchedulePut \/ UNCHANGED vars
      PROVE  case' = case
  BY <1>4 DEF Tick, SchedulePut, vars
<1> QED
  BY <1>1, <1>2, <1>3, <1>4, AppendTakes DEF Next, Work

\* The evidence and the types of the case go on together.
LEMMA CaseIInvKept ==
  ASSUME IInv, Life!CaseIInv, [Next]_vars
  PROVE  Life!CaseIInv'
<1>1. CASE case' = case
  BY <1>1
  DEF Life!CaseIInv, Life!StageTyped, Life!IdsBounded, Life!EvidenceInOrder,
      Life!SupersededEvidenceGone, Life!Stage, Life!Newer
<1>2. ASSUME NEW t \in Life!Transitions, Life!Takes(t)
      PROVE  Life!CaseIInv'
  BY <1>2, Life!TakesCaseIInv
<1> QED
  BY <1>1, <1>2, NextTakes

\* A worker takes a job when it leaves its idle phase, and gives it up when it returns there.
LEMMA IdleKept ==
  ASSUME IInv, \A w \in Workers : phase[w] = "idle" <=> executing[w] = NoJob, [Next]_vars
  PROVE  \A w \in Workers : phase'[w] = "idle" <=> executing'[w] = NoJob
<1>1. /\ phase \in [Workers -> Phases] /\ executing \in [Workers -> Jobs \cup {NoJob}]
  BY DEF IInv, WorkersTyped, QueueTyped
<1>2. CASE phase' = phase /\ executing' = executing
  BY <1>2
<1>3. ASSUME NEW w \in Workers, Claim(w)
      PROVE  \A v \in Workers : phase'[v] = "idle" <=> executing'[v] = NoJob
  <2>1. PICK e : executing' = [executing EXCEPT ![w] = e]
    <3>1. \/ executing' = executing
          \/ \E j \in Queue!FirstDue : executing' = [executing EXCEPT ![w] = j]
      BY <1>3 DEF Claim, Queue!ClaimDue
    <3>2. executing' = executing => executing' = [executing EXCEPT ![w] = executing[w]]
      BY <1>1
    <3> QED
      BY <3>1, <3>2
  <2>2. phase' = [phase EXCEPT ![w] = IF executing'[w] = NoJob THEN "idle" ELSE "check"]
    BY <1>3 DEF Claim
  <2> QED
    BY <1>1, <2>1, <2>2
<1>4. ASSUME NEW w \in Workers, phase[w] # "idle", executing' = executing,
             NEW next \in Phases \ {"idle"}, phase' = [phase EXCEPT ![w] = next]
      PROVE  \A v \in Workers : phase'[v] = "idle" <=> executing'[v] = NoJob
  BY <1>1, <1>4
<1>5. ASSUME NEW w \in Workers, executing' = [executing EXCEPT ![w] = NoJob],
             phase' = [phase EXCEPT ![w] = "idle"]
      PROVE  \A v \in Workers : phase'[v] = "idle" <=> executing'[v] = NoJob
  BY <1>1, <1>5
<1>6. ASSUME NEW w \in Workers, \/ Check(w) \/ Deploy(w) \/ Verify(w) \/ Rollback(w)
      PROVE  \A v \in Workers : phase'[v] = "idle" <=> executing'[v] = NoJob
  <2>1. phase[w] # "idle" /\ executing' = executing
    BY <1>6 DEF Check, Deploy, Verify, Rollback, queue
  <2>2. PICK next \in Phases \ {"idle"} : phase' = [phase EXCEPT ![w] = next]
    BY <1>6 DEF Check, Deploy, Verify, Rollback, Goes, Raises, Phases, HoldingPhases
  <2> QED
    BY <1>4, <2>1, <2>2
<1>7. ASSUME NEW w \in Workers, AdvanceRead(w)
      PROVE  \A v \in Workers : phase'[v] = "idle" <=> executing'[v] = NoJob
  <2>1. phase[w] # "idle" /\ executing' = executing
    BY <1>7 DEF AdvanceRead, Advances, queue
  <2>2. CASE phase' = phase
    BY <1>2, <2>1, <2>2
  <2>3. CASE Raises(w)
    BY <1>4, <2>1, <2>3 DEF Raises, Goes, Phases
  <2> QED
    BY <1>7, <2>2, <2>3 DEF AdvanceRead
<1>8. ASSUME NEW w \in Workers, AdvanceAppend(w)
      PROVE  \A v \in Workers : phase'[v] = "idle" <=> executing'[v] = NoJob
  <2>1. phase[w] \in Advances /\ phase[w] # "idle" /\ executing' = executing
    BY <1>8 DEF AdvanceAppend, Advances, queue
  <2>2. CASE Raises(w)
    BY <1>4, <2>1, <2>2 DEF Raises, Goes, Phases
  <2>3. CASE Goes(w, Following(phase[w], verdict[w])[1], Following(phase[w], verdict[w])[2])
    <3>1. phase[w] = "start_rollback" => verdict[w] \in {"restored", "contained", "failed"}
      BY DEF IInv, Known
    <3>2. PICK next : next = Following(phase[w], verdict[w])[1]
      OBVIOUS
    <3>3. next \in Phases \ {"idle"}
      BY <2>1, <3>1, <3>2 DEF Following, Advances, Phases, HoldingPhases
    <3> QED
      BY <1>4, <2>1, <2>3, <3>2, <3>3 DEF Goes
  <2> QED
    BY <1>8, <2>2, <2>3 DEF AdvanceAppend
<1>9. ASSUME NEW w \in Workers, Report(w) \/ Crash(w)
      PROVE  \A v \in Workers : phase'[v] = "idle" <=> executing'[v] = NoJob
  BY <1>5, <1>9 DEF Report, Crash, Queue!Finish, Queue!Crash, Goes
<1>10. ASSUME \/ Tick \/ SchedulePut \/ ScheduleAdvance \/ UNCHANGED vars
              \/ \E t \in PipelineTransitions \cup {"add_finding"} : Others(t)
       PROVE  phase' = phase /\ executing' = executing
  BY <1>10 DEF Tick, SchedulePut, ScheduleAdvance, Others, vars, queue, workers, Queue!Tick,
               Queue!Put
<1> QED
  BY <1>2, <1>3, <1>6, <1>7, <1>8, <1>9, <1>10 DEF Next, Work

\* The rest of the types.
LEMMA FlagsKept ==
  ASSUME Typed, [Next]_vars
  PROVE  /\ scheduler' \in {"idle", "put", "over"}
         /\ target' \in {"before", "after", "contained"}
         /\ certified' \in BOOLEAN
<1>1. ASSUME NEW w \in Workers, Work(w) \/ Crash(w)
      PROVE  /\ scheduler' = scheduler /\ certified' \in {certified, TRUE}
             /\ target' \in {target, "before", "after", "contained"}
  BY <1>1 DEF Work, Claim, Check, Deploy, Verify, Rollback, AdvanceRead, AdvanceAppend, Report,
              Crash
<1> QED
  BY <1>1 DEF Typed, Next, Others, Tick, SchedulePut, ScheduleAdvance, vars

\* All of it, of every reachable state.
LEMMA TypedInvariance == Spec => []Typed
<1>1. Init => Typed
  <2> SUFFICES ASSUME Init PROVE Typed
    OBVIOUS
  <2>1. PICK f \in Findings : case = OpenCase({f})
    BY DEF Init
  <2>2. case = Life!OpenCase({f}) /\ {f} \in SUBSET Findings
    BY <2>1, SameCases
  <2>3. Life!CaseIInv
    BY <2>2, Life!OpenCaseIInv
  <2> QED
    BY <2>3 DEF Init, Queue!Init, Typed
<1>2. IInv /\ Typed /\ [Next]_vars => Typed'
  <2> SUFFICES ASSUME IInv, Typed, [Next]_vars PROVE Typed'
    OBVIOUS
  <2>1. Life!CaseIInv'
    BY CaseIInvKept DEF Typed
  <2>2. \A w \in Workers : phase'[w] = "idle" <=> executing'[w] = NoJob
    BY IdleKept DEF Typed
  <2> QED
    BY <2>1, <2>2, FlagsKept DEF Typed
<1> QED
  BY <1>1, <1>2, Invariance, PTL DEF Spec

\* The evidence a stage of the case relies on is attached and in the order of the pipeline,
\* whatever late findings, schedules, failed executions and rollbacks the case went through
\* (ExecutionService._context indexes these records).
THEOREM EvidenceOrder == Spec => []Life!EvidenceInOrder
<1>1. Typed => Life!EvidenceInOrder
  BY DEF Typed, Life!CaseIInv
<1> QED
  BY <1>1, TypedInvariance, PTL

\* A late finding during scheduling or approval leaves no approval, schedule, plan or window
\* of the stages it undid on the case (transition_case, ADD_FINDING).
THEOREM SupersededWithdrawn == Spec => []Life!SupersededEvidenceGone
<1>1. Typed => Life!SupersededEvidenceGone
  BY DEF Typed, Life!CaseIInv
<1> QED
  BY <1>1, TypedInvariance, PTL

\* Scheduler, workers, pipeline and intake together take the case only as transition_case
\* permits one of them at a time to.
THEOREM CaseImplemented == Spec => [][\E t \in Life!Transitions : Life!Takes(t)]_case
<1>1. IInv /\ [Next]_vars => [\E t \in Life!Transitions : Life!Takes(t)]_case
  BY NextTakes
<1> QED
  BY <1>1, Invariance, PTL DEF Spec

\* The two instances of JobQueue have the same definitions.
LEMMA SameQueue == Queue!Spec => Leases!Spec
<1>1. Queue!Init <=> Leases!Init
  BY DEF Queue!Init, Leases!Init, Queue!Absent, Leases!Absent
<1>2. \A j \in Jobs : Queue!Put(j) <=> Leases!Put(j)
  BY DEF Queue!Put, Leases!Put, Queue!Absent, Leases!Absent
<1>3. ASSUME NEW w \in Workers
      PROVE  Queue!ClaimDue(w) => Leases!ClaimDue(w)
  BY DEF Queue!ClaimDue, Leases!ClaimDue, Queue!FirstDue, Leases!FirstDue, Queue!Due,
         Leases!Due, Queue!Elapsed, Leases!Elapsed, Queue!Missed, Leases!Missed,
         Queue!Leased, Leases!Leased
<1>4. ASSUME NEW w \in Workers, NEW result \in Queue!Outcomes
      PROVE  Queue!Finish(w, result) => Leases!Finish(w, result)
  BY DEF Queue!Finish, Leases!Finish, Queue!Completed, Leases!Completed, Queue!LeasedTo,
         Leases!LeasedTo, Queue!Reported, Leases!Reported
<1>5. /\ Queue!Tick <=> Leases!Tick
      /\ \A w \in Workers : Queue!Crash(w) <=> Leases!Crash(w)
      /\ Queue!Outcomes = Leases!Outcomes
  BY DEF Queue!Tick, Leases!Tick, Queue!Crash, Leases!Crash, Queue!Outcomes, Leases!Outcomes
<1>6. [Queue!Next]_Queue!vars => [Leases!Next]_Leases!vars
  BY <1>2, <1>3, <1>4, <1>5 DEF Queue!Next, Leases!Next, Queue!vars, Leases!vars
<1> QED
  BY <1>1, <1>6, PTL DEF Queue!Spec, Leases!Spec

\* Two workers of the composition execute the job at once only when the first has outlived
\* its lease, every execution was claimed inside the approved window, and a window reported
\* as missed was missed before anything was executed in it (claim_due).
THEOREM LeasesHold ==
  Spec => /\ []Queue!TypeOK
          /\ []Queue!OneExecutionPerLease
          /\ []Queue!StartedInsideWindow
          /\ []Queue!MissedMeansUntouched
<1>1. Leases!QueueAssumption
  BY JobAssumption DEF Leases!QueueAssumption
<1>2. Leases!Spec => /\ []Leases!TypeOK /\ []Leases!OneExecutionPerLease
                     /\ []Leases!StartedInsideWindow /\ []Leases!MissedMeansUntouched
  BY <1>1, Leases!TypeCorrect, Leases!LeaseExclusion, Leases!InsideWindow,
     Leases!MissedUntouched
<1>3. /\ Leases!TypeOK => Queue!TypeOK
      /\ Leases!OneExecutionPerLease => Queue!OneExecutionPerLease
      /\ Leases!StartedInsideWindow => Queue!StartedInsideWindow
      /\ Leases!MissedMeansUntouched => Queue!MissedMeansUntouched
  BY DEF Leases!TypeOK, Queue!TypeOK, Leases!JobStates, Queue!JobStates, Leases!Outcomes,
         Queue!Outcomes, Leases!OneExecutionPerLease, Queue!OneExecutionPerLease,
         Leases!StartedInsideWindow, Queue!StartedInsideWindow,
         Leases!MissedMeansUntouched, Queue!MissedMeansUntouched
<1> QED
  BY <1>2, <1>3, QueueImplemented, SameQueue, PTL

\* What the job store records is what the worker's execution of the last claim came to,
\* where complete accepts every outcome; a worker that lost its lease changes nothing
\* (run_once, complete).
THEOREM OutcomeRecorded ==
  ASSUME Queue!Outcomes \subseteq Completable
  PROVE  Spec => []Queue!RecordedIsOutcome
<1>1. Leases!QueueAssumption
  BY JobAssumption DEF Leases!QueueAssumption
<1>2. Leases!Outcomes \subseteq Completable
  BY DEF Leases!Outcomes, Queue!Outcomes
<1>3. Leases!Spec => []Leases!RecordedIsOutcome
  BY <1>1, <1>2, Leases!OutcomeRecorded
<1>4. Leases!RecordedIsOutcome => Queue!RecordedIsOutcome
  BY DEF Leases!RecordedIsOutcome, Queue!RecordedIsOutcome, Leases!Outcomes, Queue!Outcomes
<1> QED
  BY <1>3, <1>4, QueueImplemented, SameQueue, PTL

\* A stored case, the rows of execution_jobs and the workers keep their types, and a worker
\* is idle exactly while it executes no job.
THEOREM TypeCorrect == Spec => []TypeOK
<1>1. IInv /\ Vouched /\ Typed /\ Queue!TypeOK => TypeOK
  BY SameCases DEF IInv, Vouched, WorkersTyped, Phases, HoldingPhases, Advances, Typed,
                   Life!CaseIInv, TypeOK
<1> QED
  BY <1>1, Invariance, VouchedInvariance, TypedInvariance, LeasesHold, PTL
=============================================================================
