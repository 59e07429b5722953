---------------------------- MODULE JobQueueProofs ----------------------------
(***************************************************************************)
(* Theorems about JobQueue, for any jobs, workers, windows and lease.      *)
(* OneExecutionPerLease is inductive once a running job is known to be     *)
(* leased for longer than any execution of it that is under way, and a job *)
(* that was never claimed is known not to be executed at all.              *)
(***************************************************************************)
EXTENDS JobQueue, TLAPS

\* A job that was not claimed yet, or was missed, has no attempt and no execution.
UnclaimedIsUntouched ==
  \A j \in Jobs : job[j].state \in {"absent", "scheduled", "missed"} =>
    /\ job[j].attempts = 0
    /\ \A w \in Workers : executing[w] # j

\* The lease of a running job covers the lease of each claim whose worker is still
\* executing it, the claims that were outlived included.
LeaseCovers ==
  \A j \in Jobs, w \in Workers : job[j].state = "running" /\ executing[w] = j =>
    claimedAt[w] + Lease <= job[j].until

IInv ==
  /\ TypeOK
  /\ UnclaimedIsUntouched
  /\ LeaseCovers
  /\ StartedInsideWindow
  /\ OneExecutionPerLease

\* The rows of execution_jobs.
Row == [state : JobStates \cup {"absent"}, attempts : Nat,
        owner : Workers \cup {NoWorker}, until : Nat]

USE QueueAssumption

\* The empty queue satisfies the invariant.
LEMMA InitIInv == Init => IInv
BY DEF Init, IInv, TypeOK, UnclaimedIsUntouched, LeaseCovers, StartedInsideWindow,
       OneExecutionPerLease, Absent, JobStates, Outcomes

\* The clock disturbs nothing.
LEMMA TickIInv == ASSUME IInv, Tick PROVE IInv'
BY DEF Tick, IInv, TypeOK, UnclaimedIsUntouched, LeaseCovers, StartedInsideWindow,
       OneExecutionPerLease

\* put: the row that is added was not there, so nobody executes it.
LEMMA PutIInv == ASSUME IInv, NEW j \in Jobs, Put(j) PROVE IInv'
<1>1. /\ job' = [job EXCEPT ![j] = [Absent EXCEPT !.state = "scheduled"]]
      /\ job[j] = Absent
      /\ UNCHANGED <<now, executing, claimedAt, outcome>>
  BY DEF Put, IInv, TypeOK
<1>2. /\ job'[j].state = "scheduled" /\ job'[j].attempts = 0
      /\ job'[j].owner = NoWorker /\ job'[j] \in Row
      /\ \A k \in Jobs : k # j => job'[k] = job[k]
  BY <1>1 DEF IInv, TypeOK, Absent, Row, JobStates, Outcomes
<1>3. TypeOK'
  <2>1. job' \in [Jobs -> Row]
    BY <1>1, <1>2 DEF IInv, TypeOK, Row
  <2>2. \A k \in Jobs : job'[k].state = "running" <=> job'[k].owner # NoWorker
    BY <1>2 DEF IInv, TypeOK
  <2> QED
    BY <2>1, <2>2, <1>1 DEF IInv, TypeOK, Row
<1>4. UnclaimedIsUntouched'
  <2>1. job[j].state = "absent"
    BY <1>1 DEF Absent
  <2> QED
    BY <2>1, <1>1, <1>2 DEF IInv, UnclaimedIsUntouched
<1>5. LeaseCovers'
  BY <1>1, <1>2 DEF IInv, LeaseCovers
<1>6. StartedInsideWindow' /\ OneExecutionPerLease'
  BY <1>1 DEF IInv, StartedInsideWindow, OneExecutionPerLease
<1> QED
  BY <1>3, <1>4, <1>5, <1>6 DEF IInv

\* What the sweep of claim_due does to a row: it is missed if it had elapsed, and stays
\* as it is if not.
Swept(j) == IF Elapsed(j) THEN Missed(job[j]) ELSE job[j]

\* A swept row is a row of the table, was untouched if it is missed, and is a running
\* one only if it was the same before.
LEMMA SweptRow ==
  ASSUME TypeOK, NEW j \in Jobs
  PROVE  /\ Swept(j) \in Row
         /\ Swept(j).state = "running" <=> Swept(j).owner # NoWorker
         /\ Swept(j).state = "running" => Swept(j) = job[j]
         /\ Swept(j).state \in {"absent", "scheduled", "missed"} =>
              /\ job[j].state \in {"absent", "scheduled", "missed"}
              /\ Swept(j).attempts = job[j].attempts
         /\ Due(j) => Swept(j) = job[j]
<1>1. job[j] \in Row
  BY DEF TypeOK, Row
<1>2. CASE Elapsed(j)
  <2>1. job[j].state = "scheduled" /\ job[j].owner = NoWorker /\ ~Due(j)
    BY <1>2 DEF Elapsed, TypeOK, Due
  <2>2. /\ Swept(j).state = "missed" /\ Swept(j).owner = NoWorker
        /\ Swept(j).attempts = job[j].attempts /\ Swept(j) \in Row
    BY <1>1, <1>2, <2>1 DEF Swept, Missed, Row, JobStates
  <2> QED
    BY <2>1, <2>2
<1>3. CASE ~Elapsed(j)
  BY <1>1, <1>3 DEF Swept, TypeOK
<1> QED
  BY <1>2, <1>3

\* claim_due when no job is due: the sweep is all it does.
LEMMA SweepIInv ==
  ASSUME IInv, UNCHANGED <<now, executing, claimedAt, outcome>>,
         job' = [j \in Jobs |-> Swept(j)]
  PROVE  IInv'
<1>1. \A j \in Jobs : job'[j] = Swept(j)
  OBVIOUS
<1>2. TypeOK'
  <2>1. job' \in [Jobs -> Row] /\ \A j \in Jobs : job'[j].state = "running" <=>
                                                 job'[j].owner # NoWorker
    BY SweptRow DEF IInv
  <2> QED
    BY <2>1 DEF IInv, TypeOK, Row
<1>3. UnclaimedIsUntouched'
  BY <1>1, SweptRow DEF IInv, UnclaimedIsUntouched
<1>4. LeaseCovers'
  BY <1>1, SweptRow DEF IInv, LeaseCovers
<1>5. StartedInsideWindow' /\ OneExecutionPerLease'
  BY DEF IInv, StartedInsideWindow, OneExecutionPerLease
<1> QED
  BY <1>2, <1>3, <1>4, <1>5 DEF IInv

\* claim_due when a job is due: its old lease, if it had one, is over, so each
\* execution of it that is still under way has outlived its own.
LEMMA LeaseIInv ==
  ASSUME IInv, NEW w \in Workers, NEW j \in Jobs, Due(j), executing[w] = NoJob,
         job' = [k \in Jobs |-> IF k = j THEN Leased(Swept(j), w) ELSE Swept(k)],
         executing' = [executing EXCEPT ![w] = j],
         claimedAt' = [claimedAt EXCEPT ![w] = now],
         outcome' = [outcome EXCEPT ![j] = "none"], now' = now
  PROVE  IInv'
<1>1. Swept(j) = job[j] /\ job[j] \in Row /\ now \in Nat
  BY SweptRow DEF IInv, TypeOK, Row
<1>2. /\ job'[j].state = "running" /\ job'[j].owner = w /\ job'[j].until = now + Lease
      /\ job'[j] \in Row
      /\ \A k \in Jobs : k # j => job'[k] = Swept(k)
  BY <1>1 DEF Leased, Row, JobStates
<1>3. /\ executing'[w] = j /\ claimedAt'[w] = now
      /\ \A v \in Workers : v # w => /\ executing'[v] = executing[v]
                                     /\ claimedAt'[v] = claimedAt[v]
  BY DEF IInv, TypeOK
<1>4. \A v \in Workers : executing[v] = j => claimedAt[v] + Lease <= now
  <2> SUFFICES ASSUME NEW v \in Workers, executing[v] = j
               PROVE  claimedAt[v] + Lease <= now
    OBVIOUS
  <2>1. job[j].state = "running" /\ job[j].until <= now
    BY DEF Due, IInv, UnclaimedIsUntouched
  <2>2. claimedAt[v] + Lease <= job[j].until /\ job[j].until \in Nat /\ claimedAt[v] \in Nat
    BY <2>1, <1>1 DEF IInv, LeaseCovers, TypeOK, Row
  <2> QED
    BY <2>1, <2>2, <1>1
<1>5. TypeOK'
  <2>1. job' \in [Jobs -> Row]
    BY <1>2, SweptRow DEF IInv
  <2>2. \A k \in Jobs : job'[k].state = "running" <=> job'[k].owner # NoWorker
    BY <1>2, SweptRow DEF IInv
  <2>3. /\ executing' \in [Workers -> Jobs \cup {NoJob}]
        /\ claimedAt' \in [Workers -> 0..MaxTime]
        /\ outcome' \in [Jobs -> Outcomes \cup {"none"}]
    BY DEF IInv, TypeOK
  <2> QED
    BY <2>1, <2>2, <2>3 DEF IInv, TypeOK, Row
<1>6. UnclaimedIsUntouched'
  BY <1>2, <1>3, SweptRow DEF IInv, UnclaimedIsUntouched
<1>7. LeaseCovers'
  <2> SUFFICES ASSUME NEW k \in Jobs, NEW v \in Workers, job'[k].state = "running",
                      executing'[v] = k
               PROVE  claimedAt'[v] + Lease <= job'[k].until
    BY DEF LeaseCovers
  <2>1. CASE k = j /\ v = w
    BY <2>1, <1>1, <1>2, <1>3
  <2>2. CASE k = j /\ v # w
    <3>1. claimedAt[v] + Lease <= now /\ claimedAt[v] \in Nat
      BY <2>2, <1>3, <1>4 DEF IInv, TypeOK
    <3> QED
      BY <3>1, <2>2, <1>1, <1>2, <1>3
  <2>3. CASE k # j
    <3>1. v # w /\ job'[k] = job[k]
      BY <2>3, <1>2, <1>3, SweptRow DEF IInv
    <3> QED
      BY <3>1, <1>3 DEF IInv, LeaseCovers
  <2> QED
    BY <2>1, <2>2, <2>3
<1>8. StartedInsideWindow'
  BY <1>1, <1>3 DEF IInv, StartedInsideWindow, Due
<1>9. OneExecutionPerLease'
  BY <1>3, <1>4 DEF IInv, OneExecutionPerLease
<1> QED
  BY <1>5, <1>6, <1>7, <1>8, <1>9 DEF IInv

\* claim_due, as it is: the sweep, and a lease on a job that is due.
LEMMA ClaimDueIs ==
  ASSUME IInv, NEW w \in Workers, ClaimDue(w)
  PROVE  /\ executing[w] = NoJob /\ now' = now
         /\ \/ /\ job' = [j \in Jobs |-> Swept(j)]
               /\ UNCHANGED <<now, executing, claimedAt, outcome>>
            \/ \E j \in Jobs :
                 /\ Due(j)
                 /\ job' = [k \in Jobs |-> IF k = j THEN Leased(Swept(j), w)
                                                    ELSE Swept(k)]
                 /\ executing' = [executing EXCEPT ![w] = j]
                 /\ claimedAt' = [claimedAt EXCEPT ![w] = now]
                 /\ outcome' = [outcome EXCEPT ![j] = "none"]
BY DEF ClaimDue, FirstDue, Swept

\* claim_due preserves the invariant.
LEMMA ClaimDueIInv == ASSUME IInv, NEW w \in Workers, ClaimDue(w) PROVE IInv'
BY ClaimDueIs, SweepIInv, LeaseIInv

\* What complete makes of a row.
LEMMA DecidedRow ==
  ASSUME NEW row \in Row, NEW state \in Outcomes
  PROVE  LET decided == [row EXCEPT !.state = state, !.owner = NoWorker, !.until = 0] IN
         decided \in Row /\ decided.state = state /\ decided.owner = NoWorker
BY DEF Row, JobStates

\* complete decides a running row of the worker that holds its lease, or touches none.
LEMMA FinishIs ==
  ASSUME IInv, NEW w \in Workers, NEW result \in Outcomes, Finish(w, result)
  PROVE  /\ executing[w] \in Jobs
         /\ Reported(result) \in Outcomes
         /\ \A k \in Jobs :
              \/ /\ k = executing[w]
                 /\ job[k].state = "running"
                 /\ job'[k].state = Reported(result) /\ job'[k].owner = NoWorker
                 /\ outcome'[k] = result
              \/ job'[k] = job[k] /\ outcome'[k] = outcome[k]
         /\ job' \in [Jobs -> Row]
         /\ outcome' \in [Jobs -> Outcomes \cup {"none"}]
<1> DEFINE j == executing[w]
<1>1. j \in Jobs /\ job[j] \in Row
  BY DEF Finish, IInv, TypeOK, Row
<1>2. Reported(result) \in Outcomes
  BY DEF Reported, Outcomes
<1>3. job[j].owner = w => job[j].state = "running"
  BY <1>1 DEF IInv, TypeOK
<1> DEFINE decided ==
      [job[j] EXCEPT !.state = Reported(result), !.owner = NoWorker, !.until = 0]
<1>4. decided \in Row /\ decided.state = Reported(result) /\ decided.owner = NoWorker
  BY <1>1, <1>2, DecidedRow
<1>5. CASE job[j].owner = w
  <2>1. job' = [job EXCEPT ![j] = decided] /\ outcome' = [outcome EXCEPT ![j] = result]
    BY <1>3, <1>5 DEF Finish, Completed, LeasedTo
  <2> HIDE DEF decided
  <2> QED
    BY <2>1, <1>1, <1>2, <1>3, <1>4, <1>5 DEF IInv, TypeOK, Row
<1>6. CASE job[j].owner # w
  BY <1>1, <1>2, <1>6 DEF Finish, Completed, LeasedTo, IInv, TypeOK, Row
<1> QED
  BY <1>5, <1>6

\* complete preserves the invariant, whether or not the worker has the lease.
LEMMA FinishIInv ==
  ASSUME IInv, NEW w \in Workers, NEW result \in Outcomes, Finish(w, result)
  PROVE  IInv'
<1>1. /\ executing'[w] = NoJob
      /\ executing' \in [Workers -> Jobs \cup {NoJob}]
      /\ \A v \in Workers : v # w => executing'[v] = executing[v]
      /\ UNCHANGED <<now, claimedAt>>
  BY DEF Finish, IInv, TypeOK
<1>2. \A k \in Jobs : \/ job'[k].state \in Outcomes /\ job'[k].owner = NoWorker
                      \/ job'[k] = job[k]
  BY FinishIs
<1>3. TypeOK'
  <2>1. \A k \in Jobs : job'[k].state = "running" <=> job'[k].owner # NoWorker
    BY <1>2 DEF IInv, TypeOK, Outcomes
  <2> QED
    BY <2>1, <1>1, FinishIs DEF IInv, TypeOK, Row
<1>4. UnclaimedIsUntouched' /\ LeaseCovers'
  BY <1>1, <1>2 DEF IInv, UnclaimedIsUntouched, LeaseCovers, Outcomes
<1>5. StartedInsideWindow' /\ OneExecutionPerLease'
  BY <1>1 DEF IInv, StartedInsideWindow, OneExecutionPerLease
<1> QED
  BY <1>3, <1>4, <1>5 DEF IInv

\* The death of a worker leaves the row leased and ends one execution.
LEMMA CrashIInv == ASSUME IInv, NEW w \in Workers, Crash(w) PROVE IInv'
<1>1. /\ executing'[w] = NoJob
      /\ executing' \in [Workers -> Jobs \cup {NoJob}]
      /\ \A v \in Workers : v # w => executing'[v] = executing[v]
      /\ UNCHANGED <<now, job, claimedAt, outcome>>
  BY DEF Crash, IInv, TypeOK
<1> QED
  BY <1>1 DEF IInv, TypeOK, UnclaimedIsUntouched, LeaseCovers, StartedInsideWindow,
              OneExecutionPerLease

\* Every step preserves the invariant.
LEMMA StepIInv == IInv /\ [Next]_vars => IInv'
<1> SUFFICES ASSUME IInv, [Next]_vars PROVE IInv'
  OBVIOUS
<1>1. CASE UNCHANGED vars
  BY <1>1 DEF vars, IInv, TypeOK, UnclaimedIsUntouched, LeaseCovers, StartedInsideWindow,
              OneExecutionPerLease
<1> QED
  BY <1>1, TickIInv, PutIInv, ClaimDueIInv, CrashIInv, FinishIInv DEF Next

\* The invariant of the queue.
LEMMA Invariance == Spec => []IInv
BY InitIInv, StepIInv, PTL DEF Spec

\* The rows and the workers have their types, and exactly the running rows an owner
\* (claim_due, complete).
THEOREM TypeCorrect == Spec => []TypeOK
<1>1. IInv => TypeOK
  BY DEF IInv
<1> QED
  BY <1>1, Invariance, PTL

\* claim_due starts an execution only inside the window of its job.
THEOREM InsideWindow == Spec => []StartedInsideWindow
<1>1. IInv => StartedInsideWindow
  BY DEF IInv
<1> QED
  BY <1>1, Invariance, PTL

\* However many workers poll and die, a job has two executions at once only when the
\* one has outlived the lease claim_due gave it before the other was claimed.
THEOREM LeaseExclusion == Spec => []OneExecutionPerLease
<1>1. IInv => OneExecutionPerLease
  BY DEF IInv
<1> QED
  BY <1>1, Invariance, PTL

\* claim_due marks as missed only what no worker has ever claimed.
THEOREM MissedUntouched == Spec => []MissedMeansUntouched
<1>1. IInv => MissedMeansUntouched
  BY DEF IInv, UnclaimedIsUntouched, MissedMeansUntouched
<1> QED
  BY <1>1, Invariance, PTL

\* A decided row is never written again, by claim_due or by a late complete.
THEOREM DecisionsStay == Spec => DecidedIsFinal
<1>1. IInv /\ [Next]_vars =>
        [\A j \in Jobs : job[j].state \in Final => job'[j] = job[j]]_job
  <2> SUFFICES ASSUME IInv, [Next]_vars, NEW j \in Jobs, job[j].state \in Final
               PROVE  job'[j] = job[j]
    OBVIOUS
  <2>1. /\ job[j].state \notin {"absent", "scheduled", "running"}
        /\ Swept(j) = job[j] /\ ~Due(j)
    BY DEF Final, Outcomes, Swept, Elapsed, Due
  <2>2. ASSUME NEW k \in Jobs, Put(k) PROVE job'[j] = job[j]
    BY <2>1, <2>2 DEF Put, Absent, IInv, TypeOK
  <2>3. ASSUME NEW w \in Workers, ClaimDue(w) PROVE job'[j] = job[j]
    BY <2>1, <2>3, ClaimDueIs
  <2>4. ASSUME NEW w \in Workers, NEW result \in Outcomes, Finish(w, result)
        PROVE  job'[j] = job[j]
    BY <2>1, <2>4, FinishIs
  <2> QED
    BY <2>2, <2>3, <2>4 DEF Next, Tick, Crash, vars
<1> QED
  BY <1>1, Invariance, PTL DEF Spec, DecidedIsFinal

\* A store whose complete accepts every outcome (SqliteExecutionJobStore) records what
\* the execution of the last claim came to.
THEOREM OutcomeRecorded ==
  ASSUME Outcomes \subseteq Completable
  PROVE  Spec => []RecordedIsOutcome
<1>1. Init => RecordedIsOutcome
  BY DEF Init, Absent, RecordedIsOutcome, Outcomes
<1>2. IInv /\ RecordedIsOutcome /\ [Next]_vars => RecordedIsOutcome'
  <2> SUFFICES ASSUME IInv, RecordedIsOutcome, [Next]_vars,
                      NEW j \in Jobs, job'[j].state \in Outcomes
               PROVE  job'[j].state = outcome'[j]
    BY DEF RecordedIsOutcome
  <2>1. ASSUME NEW k \in Jobs, Put(k) PROVE job'[j].state = outcome'[j]
    BY <2>1 DEF Put, Absent, IInv, TypeOK, RecordedIsOutcome, Outcomes
  <2>2. ASSUME NEW w \in Workers, ClaimDue(w) PROVE job'[j].state = outcome'[j]
    <3>1. Swept(j).state \in Outcomes => Swept(j) = job[j]
      <4>1. CASE Elapsed(j)
        <5>1. Swept(j).state = "missed"
          BY <4>1 DEF Swept, Missed, Elapsed, IInv, TypeOK
        <5> QED
          BY <5>1 DEF Outcomes
      <4> QED
        BY <4>1 DEF Swept
    <3>2. \A v, row : Leased(row, v).state = "running"
      BY DEF Leased
    <3> QED
      BY <3>1, <3>2, <2>2, ClaimDueIs DEF RecordedIsOutcome, Outcomes, IInv, TypeOK
  <2>3. ASSUME NEW w \in Workers, NEW result \in Outcomes, Finish(w, result)
        PROVE  job'[j].state = outcome'[j]
    <3>1. Reported(result) = result
      BY DEF Reported
    <3> QED
      BY <3>1, <2>3, FinishIs DEF RecordedIsOutcome
  <2> QED
    BY <2>1, <2>2, <2>3 DEF Next, Tick, Crash, vars, RecordedIsOutcome
<1> QED
  BY <1>1, <1>2, Invariance, PTL DEF Spec
===============================================================================
