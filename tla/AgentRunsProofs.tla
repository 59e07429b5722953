---------------------------- MODULE AgentRunsProofs ----------------------------
(***************************************************************************)
(* Theorems about AgentRuns, for any number of workers, tasks and calls,   *)
(* any policy and any number of overrides and deaths.  Every limit has the *)
(* same argument: the calls it counts and the runs that have passed their  *)
(* checks and are about to call are together within the bound, because a   *)
(* run passes its checks only while there is room, and putting its call    *)
(* moves it from the second count to the first (CallFits).                 *)
(***************************************************************************)
EXTENDS AgentRuns, FiniteSetTheorems, SequenceTheorems, TLAPS

\* The runs for one of the tasks that have passed their checks.
CallingFor(tasks) ==
  {w \in Workers : call[w].stage = "calling" /\ call[w].task \in tasks}

Later(i) == {j \in DOMAIN invocations : j > i}

\* The calls counted and the runs that may still add to them.
Within(calls, tasks, bound) ==
  Cardinality(calls) + Cardinality(CallingFor(tasks)) <= bound

CallsTyped ==
  /\ DOMAIN call = Workers
  /\ \A w \in Workers :
       /\ call[w].stage \in {"idle", "stopping", "calling", "running", "failed"}
       /\ call[w].stage = "calling" =>
            call[w].task \in Tasks /\ call[w].attempt \in 1..MaxAttempts
  /\ \A r \in terminals : r.after \in 0..Len(invocations) /\ r.racing \in Nat
  /\ \A i \in DOMAIN invocations :
       invocations[i].after \in 0..Len(invocations) /\ invocations[i].at <= now

\* Once a call has reached a limit, only the runs that were abreast of it call.
CallsWithin ==
  \A i \in DOMAIN invocations : i >= MaxCalls =>
    Within(Later(i), Tasks, invocations[i].abreast)

AttemptsWithin ==
  \A p \in Packages : \A i \in OfPackage(p) :
    Cardinality(FirstOfPackage(p, i)) >= MaxAttempts =>
      Within(NextOfPackage(p, i), Concerned(p), invocations[i].rivals)

\* The time of the case is over.
Overdue == 1 \in DOMAIN invocations /\ now - invocations[1].at >= MaxElapsed

LateWithin == IF Overdue THEN Within(Late, Tasks, overdue) ELSE Late = {}

\* Until an incomplete call is overridden, only the runs that raced with it call.
PendingWithin ==
  Incomplete \notin overrides => \A i \in Pending : Within(Later(i), Tasks, Slack)

StopsWithin ==
  \A r \in terminals : r.id \notin overrides =>
    Within(CallsPast(r), Concerned(r.id.package), r.racing)

SuccessWithin ==
  \A i \in DOMAIN invocations : invocations[i].outcome = Success =>
    Within(Repeats(i), {invocations[i].task}, invocations[i].racing)

\* A call without an outcome has its worker, or its worker died.
PendingHeld ==
  \A i \in Pending :
    i \in died \/ \E w \in Workers : call[w].stage = "running" /\ call[w].of = i

\* No two workers wait for the answer to one call.
RunsApart ==
  \A v, w \in Workers :
    v # w /\ call[v].stage = "running" /\ call[w].stage = "running" => call[v].of # call[w].of

Limits == CallsWithin /\ AttemptsWithin

IInv ==
  /\ TypeOK /\ CallsTyped /\ Limits /\ LateWithin /\ PendingWithin /\ StopsWithin /\ SuccessWithin
  /\ PendingHeld /\ RunsApart /\ RepeatedFailuresStop

\* A step that puts no call and lets no run pass its checks.
Quiet ==
  /\ DOMAIN invocations' = DOMAIN invocations
  /\ \A i \in DOMAIN invocations :
       /\ invocations'[i].task = invocations[i].task
       /\ invocations'[i].at = invocations[i].at
       /\ invocations'[i].abreast = invocations[i].abreast
       /\ invocations'[i].rivals = invocations[i].rivals
       /\ invocations'[i].outcome = Unknown => invocations[i].outcome = Unknown
  /\ \A w \in Workers : call'[w].stage = "calling" => call'[w] = call[w]
  /\ overrides \subseteq overrides'

USE PolicyAssumption

------------------------------------------------------------------------------
(***************************************************************************)
(* Counting                                                                *)
(***************************************************************************)
\* Any set of workers or of calls is finite.
LEMMA WorkersCounted ==
  ASSUME NEW K \in SUBSET Workers
  PROVE  /\ IsFiniteSet(K) /\ Cardinality(K) \in Nat /\ Cardinality(Workers) \in Nat
         /\ Cardinality(K) <= Cardinality(Workers)
         /\ \A w \in Workers \ K : Cardinality(K) <= Slack
<1>1. IsFiniteSet(Workers)
  BY DEF PolicyAssumption
<1>2. IsFiniteSet(K) /\ Cardinality(K) <= Cardinality(Workers)
  BY <1>1, FS_Subset
<1>3. Cardinality(K) \in Nat /\ Cardinality(Workers) \in Nat
  BY <1>1, <1>2, FS_CardinalityType
<1>4. ASSUME NEW w \in Workers \ K PROVE Cardinality(K) <= Slack
  <2>1. /\ IsFiniteSet(Workers \ {w})
        /\ Cardinality(Workers \ {w}) = Cardinality(Workers) - 1
    BY <1>1, FS_RemoveElement
  <2>2. K \in SUBSET (Workers \ {w})
    BY <1>4
  <2>3. Cardinality(K) <= Cardinality(Workers \ {w})
    BY <2>1, <2>2, FS_Subset
  <2> QED
    BY <2>1, <2>3 DEF Slack
<1> QED
  BY <1>2, <1>3, <1>4

\* The first n calls, and those after the i-th of them.
LEMMA UpTo ==
  ASSUME NEW n \in Nat
  PROVE  /\ IsFiniteSet(1..n) /\ Cardinality(1..n) = n
         /\ \A i \in 1..n : Cardinality((i + 1)..n) = n - i
<1>1. \A a, b \in Int : /\ IsFiniteSet(a..b)
                        /\ Cardinality(a..b) = IF a > b THEN 0 ELSE b - a + 1
  BY FS_Interval, Zenon
<1>2. 1 \in Int /\ n \in Int
  OBVIOUS
<1>3. IsFiniteSet(1..n) /\ Cardinality(1..n) = IF 1 > n THEN 0 ELSE n - 1 + 1
  BY <1>1, <1>2, Zenon
<1>4. ASSUME NEW i \in 1..n PROVE Cardinality((i + 1)..n) = n - i
  <2>1. i + 1 \in Int
    OBVIOUS
  <2>2. Cardinality((i + 1)..n) = IF i + 1 > n THEN 0 ELSE n - (i + 1) + 1
    BY <1>1, <1>2, <2>1, Zenon
  <2> QED
    BY <2>2
<1> QED
  BY <1>3, <1>4

LEMMA CallsCounted ==
  ASSUME NEW s \in Seq(Invocation), NEW C \in SUBSET (DOMAIN s)
  PROVE  IsFiniteSet(C) /\ Cardinality(C) \in Nat /\ Cardinality(C) <= Len(s)
<1>1. DOMAIN s = 1..Len(s) /\ Len(s) \in Nat
  BY LenProperties
<1>2. IsFiniteSet(1..Len(s)) /\ Cardinality(1..Len(s)) = Len(s)
  BY <1>1, UpTo
<1>3. IsFiniteSet(C) /\ Cardinality(C) <= Len(s)
  BY <1>1, <1>2, FS_Subset
<1> QED
  BY <1>3, FS_CardinalityType

\* The calls after the i-th, and all of them.
LEMMA LaterCount ==
  ASSUME NEW s \in Seq(Invocation)
  PROVE  /\ Cardinality(DOMAIN s) = Len(s)
         /\ \A i \in DOMAIN s : Cardinality({j \in DOMAIN s : j > i}) = Len(s) - i
<1>1. DOMAIN s = 1..Len(s) /\ Len(s) \in Nat
  BY LenProperties
<1>2. Cardinality(1..Len(s)) = Len(s)
  BY <1>1, UpTo
<1>3. ASSUME NEW i \in DOMAIN s
      PROVE  Cardinality({j \in DOMAIN s : j > i}) = Len(s) - i
  <2>1. {j \in DOMAIN s : j > i} = (i + 1)..Len(s)
    BY <1>1
  <2>2. Cardinality((i + 1)..Len(s)) = Len(s) - i
    BY <1>1, UpTo
  <2> QED
    BY <2>1, <2>2
<1> QED
  BY <1>1, <1>2, <1>3

\* Fewer calls and fewer runs.
LEMMA Fewer ==
  ASSUME NEW C, NEW K, IsFiniteSet(C), IsFiniteSet(K), NEW C2 \in SUBSET C,
         NEW K2 \in SUBSET K, NEW b \in Int, Cardinality(C) + Cardinality(K) <= b
  PROVE  Cardinality(C2) + Cardinality(K2) <= b
<1>1. Cardinality(C2) <= Cardinality(C) /\ Cardinality(K2) <= Cardinality(K)
  BY FS_Subset
<1>2. IsFiniteSet(C2) /\ IsFiniteSet(K2)
  BY FS_Subset
<1>3. /\ Cardinality(C) \in Nat /\ Cardinality(K) \in Nat
      /\ Cardinality(C2) \in Nat /\ Cardinality(K2) \in Nat
  BY <1>2, FS_CardinalityType
<1> QED
  BY <1>1, <1>3

\* One call more and one run less.
LEMMA CallFits ==
  ASSUME NEW C, NEW K, IsFiniteSet(C), IsFiniteSet(K), NEW n, NEW w \in K,
         NEW C2 \in SUBSET (C \cup {n}), NEW b \in Int,
         Cardinality(C) + Cardinality(K) <= b
  PROVE  Cardinality(C2) + Cardinality(K \ {w}) <= b
<1>1. /\ IsFiniteSet(C \cup {n}) /\ IsFiniteSet(K \ {w})
      /\ Cardinality(C \cup {n}) \in {Cardinality(C), Cardinality(C) + 1}
      /\ Cardinality(K \ {w}) = Cardinality(K) - 1
  BY FS_AddElement, FS_RemoveElement
<1>2. IsFiniteSet(C2) /\ Cardinality(C2) <= Cardinality(C \cup {n})
  BY <1>1, FS_Subset
<1>3. /\ Cardinality(C) \in Nat /\ Cardinality(K) \in Nat
      /\ Cardinality(C2) \in Nat
  BY <1>2, FS_CardinalityType
<1> QED
  BY <1>1, <1>2, <1>3

\* What the invariant says of the sets that are counted.
LEMMA Countable ==
  ASSUME TypeOK, NEW C \in SUBSET (DOMAIN invocations), NEW T
  PROVE  /\ IsFiniteSet(C) /\ Cardinality(C) \in Nat
         /\ IsFiniteSet(CallingFor(T)) /\ Cardinality(CallingFor(T)) \in Nat
         /\ Cardinality(CallingFor(T)) <= Cardinality(Workers)
         /\ Cardinality(Workers) \in Nat /\ Slack \in Int
         /\ DOMAIN invocations = 1..Len(invocations) /\ Len(invocations) \in Nat
<1>1. invocations \in Seq(Invocation)
  BY DEF TypeOK
<1>2. IsFiniteSet(C) /\ Cardinality(C) \in Nat
  BY <1>1, CallsCounted
<1>3. CallingFor(T) \in SUBSET Workers
  BY DEF CallingFor
<1>4. DOMAIN invocations = 1..Len(invocations) /\ Len(invocations) \in Nat
  BY <1>1, LenProperties
<1> QED
  BY <1>2, <1>3, <1>4, WorkersCounted DEF Slack

\* What an invocation has counted when it was put, and when it was put.
LEMMA Counts ==
  ASSUME TypeOK, NEW i \in DOMAIN invocations
  PROVE  /\ invocations[i].abreast \in Nat /\ invocations[i].rivals \in Nat
         /\ invocations[i].at \in 0..MaxTime /\ invocations[i].racing \in Nat
<1>1. invocations \in Seq(Invocation) /\ DOMAIN invocations = 1..Len(invocations)
  BY LenProperties DEF TypeOK
<1>2. invocations[i] \in Invocation
  BY <1>1, ElementOfSeq
<1> QED
  BY <1>2 DEF Invocation

------------------------------------------------------------------------------
(***************************************************************************)
(* The steps that put no call                                              *)
(***************************************************************************)
\* Whatever is counted, a quiet step keeps it within its bound.
LEMMA QuietWithin ==
  ASSUME TypeOK, CallsTyped, Quiet, NEW C \in SUBSET (DOMAIN invocations),
         NEW C2 \in SUBSET C, NEW T, NEW b \in Int, Within(C, T, b)
  PROVE  Cardinality(C2) + Cardinality(CallingFor(T)') <= b
<1>1. CallingFor(T)' \in SUBSET CallingFor(T)
  BY DEF Quiet, CallingFor
<1>2. IsFiniteSet(C) /\ IsFiniteSet(CallingFor(T))
  BY Countable
<1>3. Cardinality(C) + Cardinality(CallingFor(T)) <= b
  BY DEF Within
<1> HIDE DEF CallingFor, Within
<1> QED
  BY <1>1, <1>2, <1>3, Fewer

\* The limits of the case and of its packages.
LEMMA QuietLimits ==
  ASSUME IInv, Quiet
  PROVE  Limits'
<1>1. TypeOK /\ CallsTyped /\ Limits
  BY DEF IInv
<1>2. \A i \in DOMAIN invocations :
        invocations[i].abreast \in Int /\ invocations[i].rivals \in Int
  BY <1>1, Counts
<1>3. CallsWithin'
  <2> SUFFICES ASSUME NEW i \in DOMAIN invocations, i >= MaxCalls
               PROVE  Cardinality(Later(i)') + Cardinality(CallingFor(Tasks)')
                        <= invocations[i].abreast
    BY DEF CallsWithin, Within, Quiet
  <2>1. Later(i) \in SUBSET DOMAIN invocations /\ Later(i)' \in SUBSET Later(i)
    BY DEF Later, Quiet
  <2>2. Within(Later(i), Tasks, invocations[i].abreast)
    BY <1>1 DEF Limits, CallsWithin
  <2> QED
    BY <1>1, <1>2, <2>1, <2>2, QuietWithin
<1>4. AttemptsWithin'
  <2>1. \A p : OfPackage(p)' = OfPackage(p)
    BY DEF OfPackage, Quiet
  <2>2. \A p, i : /\ FirstOfPackage(p, i)' = FirstOfPackage(p, i)
                  /\ NextOfPackage(p, i)' = NextOfPackage(p, i)
    BY <2>1 DEF FirstOfPackage, NextOfPackage
  <2> SUFFICES ASSUME NEW p \in Packages, NEW i \in OfPackage(p),
                      Cardinality(FirstOfPackage(p, i)) >= MaxAttempts
               PROVE  Cardinality(NextOfPackage(p, i)) + Cardinality(CallingFor(Concerned(p))')
                        <= invocations'[i].rivals
    BY <2>1, <2>2 DEF AttemptsWithin, Within, Concerned, Packages
  <2>3. i \in DOMAIN invocations /\ NextOfPackage(p, i) \in SUBSET DOMAIN invocations
    BY DEF OfPackage, NextOfPackage
  <2>4. Within(NextOfPackage(p, i), Concerned(p), invocations[i].rivals)
    BY <1>1 DEF Limits, AttemptsWithin
  <2>5. Cardinality(NextOfPackage(p, i)) + Cardinality(CallingFor(Concerned(p))')
          <= invocations[i].rivals
    BY <1>1, <1>2, <2>3, <2>4, QuietWithin
  <2> QED
    BY <2>3, <2>5 DEF Quiet
<1> QED
  BY <1>3, <1>4 DEF Limits

\* The calls after the time, while the clock stands.
LEMMA QuietLate ==
  ASSUME IInv, Quiet, UNCHANGED <<now, overdue>>
  PROVE  LateWithin'
<1>1. TypeOK /\ CallsTyped /\ LateWithin
  BY DEF IInv
<1>2. DOMAIN invocations = 1..Len(invocations) /\ overdue \in Int
  BY <1>1, Countable DEF TypeOK
<1>3. Late' = Late /\ Late \in SUBSET DOMAIN invocations
  BY <1>2 DEF Late, Quiet
<1>4. Overdue' <=> Overdue
  BY DEF Overdue, Quiet
<1>5. ASSUME Overdue
      PROVE  Cardinality(Late) + Cardinality(CallingFor(Tasks)') <= overdue
  <2>1. Within(Late, Tasks, overdue)
    BY <1>1, <1>5 DEF LateWithin
  <2> QED
    BY <1>1, <1>2, <1>3, <2>1, QuietWithin
<1> QED
  BY <1>1, <1>3, <1>4, <1>5 DEF LateWithin, Within

\* The calls after an incomplete one.
LEMMA QuietPending ==
  ASSUME IInv, Quiet
  PROVE  PendingWithin'
<1>1. TypeOK /\ CallsTyped /\ PendingWithin
  BY DEF IInv
<1> SUFFICES ASSUME Incomplete \notin overrides', NEW i \in Pending'
             PROVE  Cardinality(Later(i)') + Cardinality(CallingFor(Tasks)') <= Slack
  BY DEF PendingWithin, Within, Incomplete, Terminal, Slack, CaseScope
<1>2. i \in Pending /\ Incomplete \notin overrides
  BY DEF Pending, Quiet
<1>3. Later(i) \in SUBSET DOMAIN invocations /\ Later(i)' \in SUBSET Later(i)
  BY DEF Later, Quiet
<1>4. Slack \in Int
  BY <1>1, Countable
<1> QED
  BY <1>1, <1>2, <1>3, <1>4, QuietWithin DEF PendingWithin

\* A stop that was put by this step: nothing was called after it, and the runs that had
\* passed their checks are the ones it has counted.
FreshStop(r) ==
  /\ r.after = Len(invocations) /\ r.racing \in Nat
  /\ Cardinality(CallingFor(Concerned(r.id.package))') <= r.racing

\* The calls after a stop.
LEMMA QuietStops ==
  ASSUME IInv, Quiet, \A r \in terminals' : r \in terminals \/ FreshStop(r)
  PROVE  StopsWithin'
<1>1. TypeOK /\ CallsTyped /\ StopsWithin
  BY DEF IInv
<1> SUFFICES ASSUME NEW r \in terminals', r.id \notin overrides'
             PROVE  Cardinality(CallsPast(r)')
                      + Cardinality(CallingFor(Concerned(r.id.package))') <= r.racing
  BY DEF StopsWithin, Within, Concerned
<1>2. /\ DOMAIN invocations = 1..Len(invocations) /\ Len(invocations) \in Nat
      /\ Cardinality(CallingFor(Concerned(r.id.package))) \in Nat
  BY <1>1, Countable
<1>3. CallsPast(r) \in SUBSET DOMAIN invocations /\ CallsPast(r)' \in SUBSET CallsPast(r)
  BY DEF CallsPast, Concerned, Quiet
<1>4. CASE r \in terminals
  <2>1. /\ r.racing \in Int
        /\ Within(CallsPast(r), Concerned(r.id.package), r.racing)
    BY <1>1, <1>4 DEF StopsWithin, CallsTyped, Quiet
  <2> QED
    BY <1>1, <1>3, <2>1, QuietWithin
<1>5. CASE FreshStop(r)
  <2>1. CallsPast(r) = {}
    BY <1>2, <1>5 DEF CallsPast, FreshStop
  <2>2. CallsPast(r)' = {} /\ Cardinality(CallsPast(r)') = 0
    BY <1>3, <2>1, FS_EmptySet
  <2>3. CallingFor(Concerned(r.id.package))' \in SUBSET Workers
    BY DEF CallingFor
  <2>4. Cardinality(CallingFor(Concerned(r.id.package))') \in Nat
    BY <2>3, WorkersCounted
  <2> QED
    BY <2>2, <2>4, <1>5 DEF FreshStop
<1> QED
  BY <1>4, <1>5

\* A success of this step, of task t.
FreshSuccess(i, t) ==
  /\ t = invocations[i].task
  /\ invocations'[i].after = Len(invocations) /\ invocations'[i].racing \in Nat
  /\ Cardinality(CallingFor({t})') <= invocations'[i].racing

\* The calls after a success.
LEMMA QuietSuccesses ==
  ASSUME IInv, Quiet,
         \A i \in DOMAIN invocations :
           \/ invocations'[i] = invocations[i]
           \/ invocations'[i].outcome # Success
           \/ \E t : FreshSuccess(i, t)
  PROVE  SuccessWithin'
<1>1. TypeOK /\ CallsTyped /\ SuccessWithin
  BY DEF IInv
<1> SUFFICES ASSUME NEW i \in DOMAIN invocations, invocations'[i].outcome = Success,
                    NEW t, t = invocations[i].task
             PROVE  Cardinality(Repeats(i)') + Cardinality(CallingFor({t})')
                      <= invocations'[i].racing
  BY DEF SuccessWithin, Within, Quiet
<1>2. DOMAIN invocations = 1..Len(invocations) /\ Len(invocations) \in Nat
  BY <1>1, Countable
<1>3. CASE invocations'[i] = invocations[i]
  <2>1. Repeats(i) \in SUBSET DOMAIN invocations /\ Repeats(i)' \in SUBSET Repeats(i)
    BY <1>3 DEF Repeats, Quiet
  <2>2. Within(Repeats(i), {t}, invocations[i].racing)
    BY <1>1, <1>3 DEF SuccessWithin
  <2>3. invocations[i].racing \in Int
    <3>1. invocations[i] \in Invocation
      BY <1>1, <1>2, ElementOfSeq DEF TypeOK
    <3> QED
      BY <3>1 DEF Invocation
  <2>4. Cardinality(Repeats(i)') + Cardinality(CallingFor({t})') <= invocations[i].racing
    BY <1>1, <2>1, <2>2, <2>3, QuietWithin
  <2> QED
    BY <1>3, <2>4
<1>4. CASE FreshSuccess(i, t)
  <2>1. Repeats(i)' = {}
    BY <1>2, <1>4 DEF Repeats, FreshSuccess, Quiet
  <2>2. Cardinality(Repeats(i)') = 0
    BY <2>1, FS_EmptySet
  <2>3. CallingFor({t})' \in SUBSET Workers
    BY DEF CallingFor
  <2>4. Cardinality(CallingFor({t})') \in Nat
    BY <2>3, WorkersCounted
  <2> QED
    BY <2>2, <2>4, <1>4 DEF FreshSuccess
<1> QED
  BY <1>3, <1>4 DEF FreshSuccess

\* The failures of a package with a signature, when the step records none.
LEMMA FailuresStay ==
  ASSUME IInv, terminals \subseteq terminals', died \subseteq died',
         \A v \in Workers : call[v].stage = "failed" =>
           call'[v] = call[v] \/ call[v].of \in died',
         \A p \in Packages, s \in Signatures : Failures(p, s)' = Failures(p, s)
  PROVE  RepeatedFailuresStop'
<1> SUFFICES ASSUME NEW p \in Packages, NEW s \in Signatures,
                    Cardinality(Failures(p, s)') >= Threshold
             PROVE  \/ \E r \in terminals' :
                         r.id = Terminal("equivalent_failure_circuit_open", p, s)
                    \/ Failures(p, s)' \cap died' # {}
                    \/ \E w \in Workers :
                         call'[w].stage = "failed" /\ call'[w].of \in Failures(p, s)'
  BY DEF RepeatedFailuresStop, Terminal, Packages
<1>1. Failures(p, s)' = Failures(p, s)
  OBVIOUS
<1>2. \/ \E r \in terminals : r.id = Terminal("equivalent_failure_circuit_open", p, s)
      \/ Failures(p, s) \cap died # {}
      \/ \E w \in Workers : call[w].stage = "failed" /\ call[w].of \in Failures(p, s)
  BY <1>1 DEF IInv, RepeatedFailuresStop
<1> QED
  BY <1>1, <1>2

\* Together.
LEMMA QuietStep ==
  ASSUME IInv, Quiet,
         \A r \in terminals' : r \in terminals \/ FreshStop(r),
         \A i \in DOMAIN invocations :
           \/ invocations'[i] = invocations[i]
           \/ invocations'[i].outcome # Success
           \/ \E t : FreshSuccess(i, t)
  PROVE  Limits' /\ PendingWithin' /\ StopsWithin' /\ SuccessWithin'
BY QuietLimits, QuietPending, QuietStops, QuietSuccesses

\* The clock.
LEMMA TickIInv ==
  ASSUME IInv, Tick
  PROVE  IInv'
<1>1. /\ now < MaxTime /\ now' = now + 1
      /\ UNCHANGED <<invocations, terminals, call, overrides, died>>
      /\ overdue' = IF now' = invocations[1].at + MaxElapsed
                    THEN Cardinality(CallingFor(Tasks)) ELSE overdue
  BY DEF Tick, Callers, CallingFor
<1>2. Quiet
  BY <1>1 DEF Quiet
<1>3. Limits' /\ PendingWithin' /\ StopsWithin' /\ SuccessWithin'
  BY <1>1, <1>2, QuietStep
<1>4. now \in 0..MaxTime /\ now' \in 0..MaxTime
  BY <1>1 DEF IInv, TypeOK, PolicyAssumption
<1>5. TypeOK'
  <2>1. overdue' \in 0..Cardinality(Workers)
    <3>1. /\ Cardinality(CallingFor(Tasks)) \in Nat /\ Cardinality(Workers) \in Nat
          /\ Cardinality(CallingFor(Tasks)) <= Cardinality(Workers)
      <4>1. CallingFor(Tasks) \in SUBSET Workers
        BY DEF CallingFor
      <4> QED
        BY <4>1, WorkersCounted
    <3> QED
      BY <1>1, <3>1 DEF IInv, TypeOK
  <2> QED
    BY <1>1, <1>4, <2>1 DEF IInv, TypeOK, Pending, Slack, Invocation
<1>6. CallsTyped'
  <2>1. \A i \in DOMAIN invocations : invocations[i].at \in 0..MaxTime
    BY Counts DEF IInv
  <2> QED
    BY <1>1, <1>4, <2>1 DEF IInv, CallsTyped
<1>7. PendingHeld' /\ RunsApart' /\ RepeatedFailuresStop'
  <2>1. \A p, s : Failures(p, s)' = Failures(p, s)
    BY <1>1 DEF Failures, OfPackage
  <2> QED
    BY <1>1, <2>1, FailuresStay DEF IInv, PendingHeld, Pending, RunsApart
<1>8. LateWithin'
  <2>1. /\ now \in Int /\ MaxElapsed \in Int
        /\ \A i \in DOMAIN invocations : invocations[i].at \in Int /\ invocations[i].at <= now
    BY <1>4, Counts DEF IInv, CallsTyped, PolicyAssumption
  <2>2. CallingFor(Tasks)' = CallingFor(Tasks)
    BY <1>1 DEF CallingFor
  <2>3. CASE now' = invocations[1].at + MaxElapsed /\ 1 \in DOMAIN invocations
    <3>1. Late = {} /\ Late' = Late /\ Overdue'
      BY <1>1, <2>1, <2>3 DEF Late, Overdue
    <3>2. Cardinality(Late') = 0 /\ Cardinality(CallingFor(Tasks)) \in Nat
      BY <3>1, FS_EmptySet, Countable DEF IInv
    <3> QED
      BY <1>1, <2>2, <2>3, <3>1, <3>2 DEF LateWithin, Within
  <2>4. CASE now' # invocations[1].at + MaxElapsed /\ 1 \in DOMAIN invocations
    <3>1. Late' = Late /\ (Overdue' <=> Overdue) /\ overdue' = overdue
      BY <1>1, <2>1, <2>4 DEF Late, Overdue
    <3> QED
      BY <2>2, <3>1 DEF IInv, LateWithin, Within
  <2>5. CASE 1 \notin DOMAIN invocations
    <3>1. ~Overdue' /\ ~Overdue /\ Late' = Late
      BY <1>1, <2>5 DEF Late, Overdue
    <3> QED
      BY <3>1 DEF IInv, LateWithin
  <2> QED
    BY <2>3, <2>4, <2>5
<1> QED
  BY <1>3, <1>5, <1>6, <1>7, <1>8 DEF IInv

\* An override.
LEMMA OverrideIInv ==
  ASSUME IInv, Override
  PROVE  IInv'
<1>1. /\ UNCHANGED <<now, invocations, terminals, call, died, overdue>>
      /\ \E r \in terminals : overrides' = overrides \cup {r.id}
  BY DEF Override
<1>2. Quiet
  BY <1>1 DEF Quiet
<1>3. Limits' /\ LateWithin' /\ PendingWithin' /\ StopsWithin' /\ SuccessWithin'
  BY <1>1, <1>2, QuietStep, QuietLate
<1>4. TypeOK' /\ CallsTyped'
  BY <1>1 DEF IInv, TypeOK, CallsTyped, Pending, Slack, Invocation
<1>5. PendingHeld' /\ RunsApart' /\ RepeatedFailuresStop'
  <2>1. \A p, s : Failures(p, s)' = Failures(p, s)
    BY <1>1 DEF Failures, OfPackage
  <2> QED
    BY <1>1, <2>1, FailuresStay DEF IInv, PendingHeld, Pending, RunsApart
<1> QED
  BY <1>3, <1>4, <1>5 DEF IInv

\* A worker that ends its run, or is about to put a stop, with no call of its own left
\* without an outcome.
LEMMA RestingIInv ==
  ASSUME IInv, NEW w \in Workers, NEW c, c.stage \in {"idle", "stopping"}, Calls(w, c),
         UNCHANGED <<now, invocations, overrides, overdue>>, terminals \subseteq terminals',
         \A r \in terminals' : r \in terminals \/ FreshStop(r),
         died \subseteq died', died' \subseteq DOMAIN invocations,
         call[w].stage = "running" => call[w].of \in died',
         RepeatedFailuresStop'
  PROVE  IInv'
<1>1. call' = [call EXCEPT ![w] = c] /\ DOMAIN call = Workers
  BY DEF Calls, IInv, CallsTyped
<1>2. /\ DOMAIN call' = Workers /\ call'[w] = c
      /\ \A v \in Workers : v # w => call'[v] = call[v]
  BY <1>1
<1>3. Quiet
  BY <1>2 DEF Quiet
<1>4. Limits' /\ LateWithin' /\ PendingWithin' /\ StopsWithin' /\ SuccessWithin'
  BY <1>3, QuietStep, QuietLate
<1>5. TypeOK'
  <2>1. TypeOK
    BY DEF IInv
  <2>2. /\ now' \in 0..MaxTime /\ (invocations \in Seq(Invocation))'
        /\ overrides' \subseteq {r.id : r \in terminals'} /\ died' \subseteq DOMAIN invocations
        /\ overdue' \in 0..Cardinality(Workers)
    BY <2>1 DEF TypeOK, Invocation, Slack
  <2>3. \A v \in Workers : call'[v].stage \in {"running", "failed"} =>
          /\ call'[v].of \in DOMAIN invocations
          /\ call'[v].stage = "running" <=> call'[v].of \in Pending
    BY <1>2, <2>1 DEF TypeOK
  <2>4. Pending' = Pending
    BY DEF Pending
  <2> QED
    BY <2>1, <2>2, <2>3, <2>4 DEF TypeOK
<1>6. CallsTyped'
  <2>1. Len(invocations) \in Nat
    BY Countable DEF IInv
  <2>2. \A r \in terminals' : r.after \in 0..Len(invocations) /\ r.racing \in Nat
    BY <2>1 DEF IInv, CallsTyped, FreshStop
  <2> QED
    BY <1>2, <2>2 DEF IInv, CallsTyped
<1>7. PendingHeld' /\ RunsApart'
  BY <1>2 DEF IInv, PendingHeld, Pending, RunsApart
<1> QED
  BY <1>4, <1>5, <1>6, <1>7 DEF IInv

\* A terminal record that is put counts the runs that race with it.
LEMMA PutTerminalIs ==
  ASSUME IInv, NEW w \in Workers, NEW id, PutTerminal(w, id), Calls(w, Idle)
  PROVE  /\ terminals \subseteq terminals'
         /\ \A r \in terminals' : r \in terminals \/ FreshStop(r)
         /\ \E r \in terminals' : r.id = id
<1> DEFINE T == Concerned(id.package)
           K == {v \in Workers \ {w} : call[v].stage = "calling" /\ call[v].task \in T}
           new == [id |-> id, after |-> Len(invocations), racing |-> Cardinality(K)]
<1>1. terminals' = IF \E r \in terminals : r.id = id THEN terminals ELSE terminals \cup {new}
  BY DEF PutTerminal, Callers
<1>2. FreshStop(new)
  <2>1. /\ call'[w].stage = "idle" /\ \A v \in Workers : v # w => call'[v] = call[v]
    BY DEF Calls, Idle, IInv, CallsTyped
  <2>2. CallingFor(T)' \in SUBSET K
    BY <2>1 DEF CallingFor, Concerned
  <2>3. K \in SUBSET Workers
    OBVIOUS
  <2>4. IsFiniteSet(K) /\ Cardinality(K) \in Nat
    <3> HIDE DEF K
    <3> QED
      BY <2>3, WorkersCounted
  <2>5. Cardinality(CallingFor(T)') <= Cardinality(K)
    <3> HIDE DEF K, T
    <3> QED
      BY <2>2, <2>4, FS_Subset
  <2>6. new.id = id /\ new.after = Len(invocations) /\ new.racing = Cardinality(K)
    OBVIOUS
  <2> QED
    BY <2>4, <2>5, <2>6 DEF FreshStop
<1> HIDE DEF new
<1>3. new.id = id
  BY DEF new
<1> QED
  BY <1>1, <1>2, <1>3

\* The run puts its stop.
LEMMA StopIInv ==
  ASSUME IInv, NEW w \in Workers, Stop(w)
  PROVE  IInv'
<1>1. /\ call[w].stage = "stopping" /\ PutTerminal(w, call[w].id) /\ Calls(w, Idle)
      /\ UNCHANGED <<now, invocations, overrides, died, overdue>>
  BY DEF Stop
<1>2. /\ terminals \subseteq terminals'
      /\ \A r \in terminals' : r \in terminals \/ FreshStop(r)
  BY <1>1, PutTerminalIs
<1>3. \A v \in Workers : v # w => call'[v] = call[v]
  BY <1>1 DEF Calls, IInv, CallsTyped
<1>4. RepeatedFailuresStop'
  <2>1. \A p, s : Failures(p, s)' = Failures(p, s)
    BY <1>1 DEF Failures, OfPackage
  <2> QED
    BY <1>1, <1>2, <1>3, <2>1, FailuresStay
<1>5. Idle.stage \in {"idle", "stopping"} /\ died \subseteq DOMAIN invocations
  BY DEF Idle, IInv, TypeOK
<1> QED
  BY <1>1, <1>2, <1>4, <1>5, RestingIInv

\* The invocation was put by another worker.
LEMMA InvokeLostIInv ==
  ASSUME IInv, NEW w \in Workers, InvokeLost(w)
  PROVE  IInv'
<1>1. /\ call[w].stage = "calling" /\ Calls(w, Idle)
      /\ UNCHANGED <<now, invocations, overrides, died, overdue>>
      /\ UNCHANGED terminals \/ PutTerminal(w, Incomplete)
  BY DEF InvokeLost
<1>2. /\ terminals \subseteq terminals'
      /\ \A r \in terminals' : r \in terminals \/ FreshStop(r)
  BY <1>1, PutTerminalIs
<1>3. \A v \in Workers : v # w => call'[v] = call[v]
  BY <1>1 DEF Calls, IInv, CallsTyped
<1>4. RepeatedFailuresStop'
  <2>1. \A p, s : Failures(p, s)' = Failures(p, s)
    BY <1>1 DEF Failures, OfPackage
  <2> QED
    BY <1>1, <1>2, <1>3, <2>1, FailuresStay
<1>5. Idle.stage \in {"idle", "stopping"} /\ died \subseteq DOMAIN invocations
  BY DEF Idle, IInv, TypeOK
<1> QED
  BY <1>1, <1>2, <1>4, <1>5, RestingIInv

\* A death: the call of a worker that dies with one is remembered.
LEMMA CrashIInv ==
  ASSUME IInv, NEW w \in Workers, Crash(w)
  PROVE  IInv'
<1>1. /\ Calls(w, Idle) /\ UNCHANGED <<now, invocations, terminals, overrides, overdue>>
      /\ \/ call[w].stage \notin {"running", "failed"} /\ died' = died
         \/ call[w].stage \in {"running", "failed"} /\ died' = died \cup {call[w].of}
  BY DEF Crash
<1>2. \A v \in Workers : v # w => call'[v] = call[v]
  BY <1>1 DEF Calls, IInv, CallsTyped
<1>3. died \subseteq died' /\ died' \subseteq DOMAIN invocations
  BY <1>1 DEF IInv, TypeOK
<1>4. RepeatedFailuresStop'
  <2>1. \A p, s : Failures(p, s)' = Failures(p, s)
    BY <1>1 DEF Failures, OfPackage
  <2> QED
    BY <1>1, <1>2, <1>3, <2>1, FailuresStay
<1>5. Idle.stage \in {"idle", "stopping"}
  BY DEF Idle
<1> QED
  BY <1>1, <1>3, <1>4, <1>5, RestingIInv

\* The circuit is judged on all failures that were recorded.
LEMMA ConcludeIInv ==
  ASSUME IInv, NEW w \in Workers, Conclude(w)
  PROVE  IInv'
<1> DEFINE i == call[w].of
           q == PackageOf[invocations[i].task]
           o == invocations[i].outcome
           id == Terminal("equivalent_failure_circuit_open", q, o)
<1>1. /\ call[w].stage = "failed" /\ Calls(w, Idle)
      /\ UNCHANGED <<now, invocations, overrides, died, overdue>>
      /\ IF CircuitOpen(q, o) THEN PutTerminal(w, id) ELSE UNCHANGED terminals
  BY DEF Conclude
<1>2. /\ terminals \subseteq terminals'
      /\ \A r \in terminals' : r \in terminals \/ FreshStop(r)
      /\ CircuitOpen(q, o) => \E r \in terminals' : r.id = id
  <2> HIDE DEF id
  <2> QED
    BY <1>1, PutTerminalIs
<1>3. \A v \in Workers : v # w => call'[v] = call[v]
  BY <1>1 DEF Calls, IInv, CallsTyped
<1>4. RepeatedFailuresStop'
  <2> SUFFICES ASSUME NEW p \in Packages, NEW s \in Signatures,
                      Cardinality(Failures(p, s)') >= Threshold
               PROVE  \/ \E r \in terminals' :
                           r.id = Terminal("equivalent_failure_circuit_open", p, s)
                      \/ Failures(p, s)' \cap died' # {}
                      \/ \E v \in Workers :
                           call'[v].stage = "failed" /\ call'[v].of \in Failures(p, s)'
    BY DEF RepeatedFailuresStop, Terminal, Packages
  <2>1. Failures(p, s)' = Failures(p, s)
    BY <1>1 DEF Failures, OfPackage
  <2>2. \/ \E r \in terminals : r.id = Terminal("equivalent_failure_circuit_open", p, s)
        \/ Failures(p, s) \cap died # {}
        \/ \E v \in Workers : call[v].stage = "failed" /\ call[v].of \in Failures(p, s)
    BY <2>1 DEF IInv, RepeatedFailuresStop
  <2>3. CASE i \in Failures(p, s)
    <3>1. q = p /\ o = s
      BY <2>3 DEF Failures, OfPackage
    <3>2. CircuitOpen(q, o)
      BY <2>1, <3>1 DEF CircuitOpen
    <3> QED
      BY <1>2, <3>1, <3>2
  <2>4. CASE i \notin Failures(p, s)
    BY <1>1, <1>2, <1>3, <2>1, <2>2, <2>4
  <2> QED
    BY <2>3, <2>4
<1>5. Idle.stage \in {"idle", "stopping"} /\ died \subseteq DOMAIN invocations
  BY DEF Idle, IInv, TypeOK
<1> QED
  BY <1>1, <1>2, <1>4, <1>5, RestingIInv

------------------------------------------------------------------------------
(***************************************************************************)
(* The step that passes the checks                                         *)
(***************************************************************************)
\* What is not about the task of the run is counted as before.
LEMMA OtherTasks ==
  ASSUME NEW w \in Workers, NEW t, NEW T, t \notin T,
         call'[w].stage = "calling" /\ call'[w].task = t, call[w].stage = "idle",
         \A v \in Workers : v # w => call'[v] = call[v]
  PROVE  CallingFor(T)' = CallingFor(T)
BY DEF CallingFor

\* A run that may call: none of the counts was at its limit.
LEMMA CallingIInv ==
  ASSUME IInv, NEW w \in Workers, NEW t \in Tasks, call[w] = Idle,
         ~Replayable(t), ~Stopped(PackageOf[t]), Allowed(PackageOf[t]),
         Calls(w, [stage |-> "calling", task |-> t,
                   attempt |-> Cardinality(OfPackage(PackageOf[t])) + 1]),
         UNCHANGED <<now, invocations, terminals, overrides, died, overdue>>
  PROVE  IInv'
<1> DEFINE p == PackageOf[t]
<1>1. /\ call[w].stage = "idle" /\ call'[w].stage = "calling" /\ call'[w].task = t
      /\ call'[w].attempt = Cardinality(OfPackage(p)) + 1
      /\ DOMAIN call' = Workers /\ \A v \in Workers : v # w => call'[v] = call[v]
  BY DEF Calls, Idle, IInv, CallsTyped
<1>2. TypeOK /\ CallsTyped /\ Limits /\ LateWithin /\ StopsWithin /\ SuccessWithin
  BY DEF IInv
<1>3. /\ \A T : CallingFor(T)' \in SUBSET Workers
      /\ \A T : /\ Cardinality(CallingFor(T)') \in Nat
                /\ Cardinality(CallingFor(T)') <= Cardinality(Workers)
  <2>1. \A T : CallingFor(T)' \in SUBSET Workers
    BY DEF CallingFor
  <2> QED
    BY <2>1, WorkersCounted
<1>4. /\ \A C \in SUBSET (DOMAIN invocations) : Cardinality(C) \in Nat
      /\ DOMAIN invocations = 1..Len(invocations) /\ Len(invocations) \in Nat
      /\ Cardinality(DOMAIN invocations) = Len(invocations)
      /\ Cardinality(Workers) \in Nat
  BY <1>2, Countable, LaterCount DEF TypeOK
<1>5. MaxCalls \in Nat /\ MaxAttempts \in Nat /\ MaxElapsed \in Nat \ {0}
  BY DEF PolicyAssumption
<1>6. \A T : t \notin T => CallingFor(T)' = CallingFor(T)
  BY <1>1, OtherTasks
<1>7. CallsWithin'
  <2>1. Len(invocations) < MaxCalls
    BY DEF Allowed, CallsLeft
  <2>2. \A i \in DOMAIN invocations : ~(i >= MaxCalls)
    BY <1>4, <1>5, <2>1
  <2> QED
    BY <2>2 DEF CallsWithin
<1>8. AttemptsWithin'
  <2>1. \A q : OfPackage(q)' = OfPackage(q)
    BY DEF OfPackage
  <2>2. \A q, i : /\ FirstOfPackage(q, i)' = FirstOfPackage(q, i)
                  /\ NextOfPackage(q, i)' = NextOfPackage(q, i)
    BY <2>1 DEF FirstOfPackage, NextOfPackage
  <2> SUFFICES ASSUME NEW q \in Packages, NEW i \in OfPackage(q),
                      Cardinality(FirstOfPackage(q, i)) >= MaxAttempts
               PROVE  Cardinality(NextOfPackage(q, i)) + Cardinality(CallingFor(Concerned(q))')
                        <= invocations[i].rivals
    BY <2>1, <2>2 DEF AttemptsWithin, Within, Concerned, Packages
  <2>3. CASE q = p
    <3>1. OfPackage(q) \in SUBSET DOMAIN invocations
      BY DEF OfPackage
    <3>2. FirstOfPackage(q, i) \in SUBSET OfPackage(q)
      BY DEF FirstOfPackage
    <3>3. IsFiniteSet(OfPackage(q))
      BY <1>2, <3>1, Countable
    <3>4. Cardinality(FirstOfPackage(q, i)) <= Cardinality(OfPackage(q))
      BY <3>2, <3>3, FS_Subset
    <3>5. Cardinality(OfPackage(q)) < MaxAttempts
      BY <2>3 DEF Allowed, AttemptsLeft
    <3>6. /\ Cardinality(OfPackage(q)) \in Nat /\ Cardinality(FirstOfPackage(q, i)) \in Nat
      BY <1>4, <3>1, <3>2
    <3> QED
      BY <1>5, <3>4, <3>5, <3>6
  <2>4. CASE q # p
    <3>1. t \notin Concerned(q)
      BY <2>4 DEF Concerned, Packages, PolicyAssumption
    <3> QED
      BY <3>1, <1>2, <1>6 DEF Limits, AttemptsWithin, Within
  <2> QED
    BY <2>3, <2>4
<1>9. LateWithin'
  <2>1. ~Overdue
    <3>1. 1 \in DOMAIN invocations => invocations # <<>>
      OBVIOUS
    <3>2. invocations # <<>> => now - invocations[1].at < MaxElapsed
      BY DEF Allowed, TimeLeft
    <3>3. 1 \in DOMAIN invocations => now - invocations[1].at \in Int
      <4>1. now \in Int
        BY <1>2 DEF TypeOK, PolicyAssumption
      <4> QED
        BY <1>2, <4>1, Counts
    <3> QED
      BY <1>5, <3>1, <3>2, <3>3 DEF Overdue
  <2> QED
    BY <2>1, <1>2 DEF LateWithin, Overdue, Late
<1>10. PendingWithin'
  <2>1. Incomplete \in overrides \/ Pending = {}
    BY DEF Allowed, NothingPending
  <2> QED
    BY <2>1 DEF PendingWithin, Pending, Incomplete, Terminal, CaseScope
<1>11. StopsWithin'
  <2> SUFFICES ASSUME NEW r \in terminals, r.id \notin overrides
               PROVE  Cardinality(CallsPast(r))
                        + Cardinality(CallingFor(Concerned(r.id.package))') <= r.racing
    BY DEF StopsWithin, Within, Concerned, CallsPast
  <2>1. t \notin Concerned(r.id.package)
    BY DEF Stopped, Concerned
  <2> QED
    BY <2>1, <1>2, <1>6 DEF StopsWithin, Within
<1>12. SuccessWithin'
  <2> SUFFICES ASSUME NEW i \in DOMAIN invocations, invocations[i].outcome = Success,
                      NEW u, u = invocations[i].task
               PROVE  Cardinality(Repeats(i)) + Cardinality(CallingFor({u})')
                        <= invocations[i].racing
    BY DEF SuccessWithin, Within, Repeats
  <2>1. t \notin {u}
    BY DEF Replayable, Succeeded
  <2> QED
    BY <2>1, <1>2, <1>6 DEF SuccessWithin, Within
<1>13. TypeOK'
  <2>1. \A v \in Workers : call'[v].stage \in {"running", "failed"} =>
          /\ call'[v].of \in DOMAIN invocations
          /\ call'[v].stage = "running" <=> call'[v].of \in Pending
    BY <1>1, <1>2 DEF TypeOK
  <2>2. Pending' = Pending /\ (invocations \in Seq(Invocation))'
    BY <1>2 DEF Pending, Invocation, Slack, TypeOK
  <2> QED
    BY <1>2, <2>1, <2>2 DEF TypeOK
<1>14. CallsTyped'
  <2>1. /\ Cardinality(OfPackage(p)) < MaxAttempts /\ Cardinality(OfPackage(p)) \in Nat
    BY <1>4 DEF Allowed, AttemptsLeft, OfPackage
  <2>2. call'[w].attempt \in 1..MaxAttempts
    BY <1>1, <1>5, <2>1
  <2> QED
    BY <1>1, <1>2, <2>2 DEF CallsTyped
<1>15. PendingHeld' /\ RunsApart'
  BY <1>1 DEF IInv, PendingHeld, Pending, RunsApart
<1>16. RepeatedFailuresStop'
  <2>1. \A q, s : Failures(q, s)' = Failures(q, s)
    BY DEF Failures, OfPackage
  <2> QED
    BY <1>1, <2>1, FailuresStay
<1> QED
  BY <1>7, <1>8, <1>9, <1>10, <1>11, <1>12, <1>13, <1>14, <1>15, <1>16 DEF IInv, Limits

\* The checks of a run.
LEMMA BeginIInv ==
  ASSUME IInv, NEW w \in Workers, NEW t \in Tasks, Begin(w, t)
  PROVE  IInv'
<1>1. call[w] = Idle /\ UNCHANGED <<now, invocations, terminals, overrides, died, overdue>>
  BY DEF Begin
<1>2. ASSUME NEW id, Calls(w, [stage |-> "stopping", id |-> id]) PROVE IInv'
  <2>1. call[w].stage = "idle" /\ \A v \in Workers : v # w => call'[v] = call[v]
    BY <1>1, <1>2 DEF Calls, Idle, IInv, CallsTyped
  <2>2. RepeatedFailuresStop'
    <3>1. \A p, s : Failures(p, s)' = Failures(p, s)
      BY <1>1 DEF Failures, OfPackage
    <3> QED
      BY <1>1, <2>1, <3>1, FailuresStay
  <2>3. /\ [stage |-> "stopping", id |-> id].stage \in {"idle", "stopping"}
        /\ died \subseteq DOMAIN invocations
    BY DEF IInv, TypeOK
  <2> QED
    BY <1>1, <1>2, <2>1, <2>2, <2>3, RestingIInv
<1> QED
  BY <1>1, <1>2, CallingIInv DEF Begin

------------------------------------------------------------------------------
(***************************************************************************)
(* The answer of the model                                                 *)
(***************************************************************************)
\* What an outcome record changes of the invocations.
LEMMA PutOutcomeIs ==
  ASSUME IInv, NEW w \in Workers, NEW c, NEW o \in Signatures \cup {Success},
         call[w].stage = "running", PutOutcome(call[w].of, o), Calls(w, c),
         NEW t, t = invocations[call[w].of].task,
         c.stage \in {"idle", "failed"}, UNCHANGED overrides
  PROVE  LET i == call[w].of IN
         /\ i \in DOMAIN invocations /\ invocations[i].outcome = Unknown
         /\ invocations' \in Seq(Invocation) /\ Len(invocations') = Len(invocations)
         /\ DOMAIN invocations' = DOMAIN invocations
         /\ \A j \in DOMAIN invocations : j # i => invocations'[j] = invocations[j]
         /\ invocations'[i].task = invocations[i].task
         /\ invocations'[i].attempt = invocations[i].attempt
         /\ invocations'[i].at = invocations[i].at
         /\ invocations'[i].abreast = invocations[i].abreast
         /\ invocations'[i].rivals = invocations[i].rivals
         /\ invocations'[i].outcome = o
         /\ invocations'[i].after \in 0..Len(invocations)
         /\ Quiet
         /\ o = Success => FreshSuccess(i, t)
<1> DEFINE i == call[w].of
           K == {v \in Workers : call[v].stage = "calling" /\ call[v].task \in {t}}
           e == [invocations[i] EXCEPT
                   !.outcome = o,
                   !.after = IF o = Success THEN Len(invocations) ELSE 0,
                   !.racing = IF o = Success THEN Cardinality(K) ELSE 0]
<1>1. /\ i \in DOMAIN invocations /\ invocations[i].outcome = Unknown
  BY DEF IInv, TypeOK, Pending
<1>2. /\ DOMAIN invocations = 1..Len(invocations) /\ Len(invocations) \in Nat
      /\ invocations \in Seq(Invocation)
  BY Countable DEF IInv, TypeOK
<1>3. invocations' = [invocations EXCEPT ![i] = e]
  BY <1>1, <1>2 DEF PutOutcome, Callers
<1>4. invocations[i] \in Invocation
  BY <1>1, <1>2, ElementOfSeq
<1>5. Cardinality(K) \in 0..Slack
  <2>1. K \in SUBSET Workers /\ w \in Workers \ K
    OBVIOUS
  <2> HIDE DEF K
  <2>2. Cardinality(K) \in Nat /\ Cardinality(K) <= Slack
    BY <2>1, WorkersCounted
  <2>3. Slack \in Int
    BY Countable DEF IInv
  <2> QED
    BY <2>2, <2>3
<1> HIDE DEF K
<1>6. /\ e.task = t /\ e.attempt = invocations[i].attempt /\ e.at = invocations[i].at
      /\ e.outcome = o /\ e.after = (IF o = Success THEN Len(invocations) ELSE 0)
      /\ e.racing = (IF o = Success THEN Cardinality(K) ELSE 0)
      /\ e.abreast = invocations[i].abreast /\ e.rivals = invocations[i].rivals
  BY <1>4 DEF Invocation
<1>7. e \in Invocation
  <2>1. 0 \in 0..Slack
    BY <1>5, Countable DEF IInv
  <2> QED
    BY <1>2, <1>4, <1>5, <2>1 DEF Invocation
<1> HIDE DEF e
<1>8. /\ invocations' \in Seq(Invocation) /\ Len(invocations') = Len(invocations)
      /\ \A j \in 1..Len(invocations) :
           invocations'[j] = IF j = i THEN e ELSE invocations[j]
  BY <1>1, <1>2, <1>3, <1>7, ExceptSeq
<1>9. DOMAIN invocations' = DOMAIN invocations
  BY <1>2, <1>8, LenProperties
<1>10. /\ invocations'[i] = e
       /\ \A j \in DOMAIN invocations : j # i => invocations'[j] = invocations[j]
  BY <1>1, <1>2, <1>8
<1>11. call'[w] = c /\ \A v \in Workers : v # w => call'[v] = call[v]
  BY DEF Calls, IInv, CallsTyped
<1>12. Quiet
  <2>1. \A v \in Workers : call'[v].stage = "calling" => call'[v] = call[v]
    BY <1>11
  <2>2. \A j \in DOMAIN invocations :
          /\ invocations'[j].task = invocations[j].task
          /\ invocations'[j].at = invocations[j].at
          /\ invocations'[j].abreast = invocations[j].abreast
          /\ invocations'[j].rivals = invocations[j].rivals
          /\ invocations'[j].outcome = Unknown => invocations[j].outcome = Unknown
    BY <1>1, <1>6, <1>10
  <2> QED
    BY <1>9, <2>1, <2>2 DEF Quiet
<1>13. ASSUME o = Success PROVE FreshSuccess(i, t)
  <2>1. CallingFor({t})' \in SUBSET K
    BY <1>11 DEF CallingFor, K
  <2>2. IsFiniteSet(K)
    <3>1. K \in SUBSET Workers
      BY DEF K
    <3> QED
      BY <3>1, WorkersCounted
  <2>3. Cardinality(CallingFor({t})') <= Cardinality(K)
    BY <2>1, <2>2, FS_Subset
  <2> QED
    BY <1>5, <1>6, <1>10, <1>13, <2>3 DEF FreshSuccess
<1>14. invocations'[i].after \in 0..Len(invocations)
  BY <1>2, <1>6, <1>10
<1> QED
  BY <1>1, <1>6, <1>8, <1>9, <1>10, <1>12, <1>13, <1>14

\* The model has answered, or the call has failed.
LEMMA AnswerIInv ==
  ASSUME IInv, NEW w \in Workers, Answer(w)
  PROVE  IInv'
<1> DEFINE i == call[w].of
<1>1. call[w].stage = "running" /\ UNCHANGED <<now, terminals, overrides, died, overdue>>
  BY DEF Answer
<1>2. PICK o \in Signatures \cup {Success},
               c \in {Idle, [stage |-> "failed", of |-> i]} :
        /\ PutOutcome(i, o) /\ Calls(w, c)
        /\ \/ o = Success /\ c = Idle
           \/ o \in Signatures /\ c = [stage |-> "failed", of |-> i]
  BY DEF Answer
<1>3. /\ c.stage \in {"idle", "failed"} /\ (c.stage = "failed" => c.of = i)
      /\ o # Unknown /\ (o = Success <=> c.stage = "idle")
  BY <1>2 DEF Idle, PolicyAssumption, Unknown, Success
<1>4. /\ i \in DOMAIN invocations /\ invocations[i].outcome = Unknown
      /\ invocations' \in Seq(Invocation) /\ Len(invocations') = Len(invocations)
      /\ DOMAIN invocations' = DOMAIN invocations
      /\ \A j \in DOMAIN invocations : j # i => invocations'[j] = invocations[j]
      /\ invocations'[i].task = invocations[i].task
      /\ invocations'[i].attempt = invocations[i].attempt
      /\ invocations'[i].at = invocations[i].at
      /\ invocations'[i].outcome = o
      /\ invocations'[i].after \in 0..Len(invocations)
      /\ Quiet
      /\ o = Success => \E t : FreshSuccess(i, t)
  BY <1>1, <1>2, <1>3, PutOutcomeIs
<1>5. /\ DOMAIN call' = Workers /\ call'[w] = c
      /\ \A v \in Workers : v # w => call'[v] = call[v]
  BY <1>2 DEF Calls, IInv, CallsTyped
<1>6. Limits' /\ LateWithin' /\ PendingWithin' /\ StopsWithin' /\ SuccessWithin'
  <2>1. \A j \in DOMAIN invocations :
          \/ invocations'[j] = invocations[j]
          \/ invocations'[j].outcome # Success
          \/ \E t : FreshSuccess(j, t)
    BY <1>4
  <2>2. \A r \in terminals' : r \in terminals \/ FreshStop(r)
    BY <1>1
  <2> QED
    BY <1>1, <1>4, <2>1, <2>2, QuietStep, QuietLate
<1>7. Pending' = Pending \ {i}
  BY <1>3, <1>4 DEF Pending
<1>8. TypeOK'
  <2>1. TypeOK
    BY DEF IInv
  <2>2. (invocations \in Seq(Invocation))'
    BY <1>4 DEF Invocation, Slack
  <2>3. \A v \in Workers : call'[v].stage \in {"running", "failed"} =>
          /\ call'[v].of \in DOMAIN invocations
          /\ call'[v].stage = "running" <=> call'[v].of \in Pending'
    <3> SUFFICES ASSUME NEW v \in Workers, call'[v].stage \in {"running", "failed"}
                 PROVE  /\ call'[v].of \in DOMAIN invocations
                        /\ call'[v].stage = "running" <=> call'[v].of \in Pending'
      OBVIOUS
    <3>1. CASE v = w
      BY <1>3, <1>4, <1>5, <1>7, <3>1
    <3>2. CASE v # w
      <4>1. call'[v] = call[v] /\ (call[v].stage = "running" => call[v].of # i)
        BY <1>1, <1>5, <3>2 DEF IInv, RunsApart
      <4>2. call[v].stage = "failed" => call[v].of # i
        BY <1>4, <2>1 DEF TypeOK, Pending
      <4> QED
        BY <1>7, <2>1, <4>1, <4>2 DEF TypeOK
    <3> QED
      BY <3>1, <3>2
  <2>4. \A j, k \in DOMAIN invocations :
          /\ invocations'[j].task = invocations'[k].task
          /\ invocations'[j].attempt = invocations'[k].attempt
          => j = k
    BY <1>4, <2>1 DEF TypeOK
  <2> QED
    BY <1>1, <1>4, <2>1, <2>2, <2>3, <2>4 DEF TypeOK
<1>9. CallsTyped'
  <2>1. \A j \in DOMAIN invocations :
          invocations'[j].after \in 0..Len(invocations) /\ invocations'[j].at <= now
    BY <1>4 DEF IInv, CallsTyped
  <2> QED
    BY <1>1, <1>3, <1>4, <1>5, <2>1 DEF IInv, CallsTyped
<1>10. PendingHeld' /\ RunsApart'
  BY <1>1, <1>3, <1>5, <1>7 DEF IInv, PendingHeld, RunsApart
<1>11. RepeatedFailuresStop'
  <2> SUFFICES ASSUME NEW p \in Packages, NEW s \in Signatures,
                      Cardinality(Failures(p, s)') >= Threshold
               PROVE  \/ \E r \in terminals' :
                           r.id = Terminal("equivalent_failure_circuit_open", p, s)
                      \/ Failures(p, s)' \cap died' # {}
                      \/ \E v \in Workers :
                           call'[v].stage = "failed" /\ call'[v].of \in Failures(p, s)'
    BY DEF RepeatedFailuresStop, Terminal, Packages
  <2>1. CASE o = s /\ PackageOf[invocations[i].task] = p
    <3>1. i \in Failures(p, s)' /\ o # Success
      BY <1>4, <2>1 DEF Failures, OfPackage, PolicyAssumption
    <3> QED
      BY <1>3, <1>5, <3>1
  <2>2. CASE ~(o = s /\ PackageOf[invocations[i].task] = p)
    <3>1. Failures(p, s)' = Failures(p, s)
      BY <1>4, <2>2 DEF Failures, OfPackage, PolicyAssumption
    <3>2. \/ \E r \in terminals : r.id = Terminal("equivalent_failure_circuit_open", p, s)
          \/ Failures(p, s) \cap died # {}
          \/ \E v \in Workers : call[v].stage = "failed" /\ call[v].of \in Failures(p, s)
      BY <3>1 DEF IInv, RepeatedFailuresStop
    <3> QED
      BY <1>1, <1>5, <3>1, <3>2
  <2> QED
    BY <2>1, <2>2
<1> QED
  BY <1>6, <1>8, <1>9, <1>10, <1>11 DEF IInv

------------------------------------------------------------------------------
(***************************************************************************)
(* The step that puts a call                                               *)
(***************************************************************************)
\* The invocation and what it leaves of the runs.
LEMMA InvokeIs ==
  ASSUME IInv, NEW w \in Workers, Invoke(w)
  PROVE  LET n == Len(invocations) + 1 IN
         /\ Len(invocations) \in Nat /\ DOMAIN invocations = 1..Len(invocations)
         /\ invocations' \in Seq(Invocation) /\ DOMAIN invocations' = 1..n
         /\ Len(invocations') = n
         /\ \A i \in DOMAIN invocations : invocations'[i] = invocations[i]
         /\ call[w].task \in Tasks /\ invocations'[n].task = call[w].task
         /\ invocations'[n].attempt = call[w].attempt
         /\ invocations'[n].at = now /\ invocations'[n].outcome = Unknown
         /\ invocations'[n].after = 0
         /\ DOMAIN call' = Workers
         /\ call'[w].stage = "running" /\ call'[w].of = n
         /\ \A v \in Workers : v # w => call'[v] = call[v]
         /\ \A T : CallingFor(T)' = CallingFor(T) \ {w}
         /\ invocations'[n].abreast = Cardinality(CallingFor(Tasks) \ {w})
         /\ invocations'[n].rivals = Cardinality(CallingFor(Rivals(w)) \ {w})
<1> DEFINE n == Len(invocations) + 1
           e == [task |-> call[w].task, attempt |-> call[w].attempt, at |-> now,
                 outcome |-> Unknown, after |-> 0, racing |-> 0,
                 abreast |-> Callers(Workers \ {w}, Tasks),
                 rivals |-> Callers(Workers \ {w}, Rivals(w))]
<1>1. /\ call[w].stage = "calling" /\ invocations' = Append(invocations, e)
      /\ Calls(w, [stage |-> "running", of |-> n])
  BY DEF Invoke
<1>2. /\ invocations \in Seq(Invocation) /\ Len(invocations) \in Nat
      /\ DOMAIN invocations = 1..Len(invocations) /\ Slack \in Int
  BY Countable DEF IInv, TypeOK
<1>3. call[w].task \in Tasks /\ call[w].attempt \in 1..MaxAttempts /\ now \in 0..MaxTime
  BY <1>1 DEF IInv, CallsTyped, TypeOK
<1>4. 0 \in 0..Slack
  <2>1. {} \in SUBSET Workers /\ w \in Workers \ {}
    OBVIOUS
  <2>2. Cardinality({}) <= Slack
    BY <2>1, WorkersCounted
  <2> QED
    BY <1>2, <2>2, FS_EmptySet
<1>5. \A T : /\ Callers(Workers \ {w}, T) = Cardinality(CallingFor(T) \ {w})
             /\ Callers(Workers \ {w}, T) \in 0..Slack
  <2> SUFFICES ASSUME NEW T
               PROVE  /\ Callers(Workers \ {w}, T) = Cardinality(CallingFor(T) \ {w})
                      /\ Callers(Workers \ {w}, T) \in 0..Slack
    OBVIOUS
  <2> DEFINE K == CallingFor(T) \ {w}
  <2>1. {v \in Workers \ {w} : call[v].stage = "calling" /\ call[v].task \in T} = K
    BY DEF CallingFor
  <2>2. K \in SUBSET Workers /\ w \in Workers \ K
    BY DEF CallingFor
  <2>3. Callers(Workers \ {w}, T) = Cardinality(K)
    BY <2>1 DEF Callers
  <2> HIDE DEF K
  <2>4. Cardinality(K) \in Nat /\ Cardinality(K) <= Slack
    BY <2>2, WorkersCounted
  <2> QED
    BY <1>2, <2>3, <2>4 DEF K
<1>6. e \in Invocation
  <2>1. /\ Callers(Workers \ {w}, Tasks) \in 0..Slack
        /\ Callers(Workers \ {w}, Rivals(w)) \in 0..Slack
    BY <1>5
  <2> QED
    BY <1>3, <1>4, <2>1 DEF Invocation, PolicyAssumption
<1>7. /\ e.task = call[w].task /\ e.attempt = call[w].attempt /\ e.at = now
      /\ e.outcome = Unknown /\ e.after = 0
      /\ e.abreast = Callers(Workers \ {w}, Tasks)
      /\ e.rivals = Callers(Workers \ {w}, Rivals(w))
  OBVIOUS
<1> HIDE DEF e
<1>8. /\ invocations' \in Seq(Invocation) /\ Len(invocations') = n
      /\ \A i \in 1..Len(invocations) : invocations'[i] = invocations[i]
      /\ invocations'[n] = e
  BY <1>1, <1>2, <1>6, AppendProperties
<1>9. DOMAIN invocations' = 1..n
  BY <1>8, LenProperties
<1>10. /\ DOMAIN call' = Workers /\ call'[w].stage = "running" /\ call'[w].of = n
      /\ \A v \in Workers : v # w => call'[v] = call[v]
  BY <1>1 DEF Calls, IInv, CallsTyped
<1>11. \A T : CallingFor(T)' = CallingFor(T) \ {w}
  BY <1>10 DEF CallingFor
<1> QED
  BY <1>2, <1>3, <1>7, <1>8, <1>9, <1>10, <1>11, <1>5

\* Whatever is counted, putting the call moves the run from one count to the other.
LEMMA InvokeWithin ==
  ASSUME IInv, NEW w \in Workers, Invoke(w), NEW C \in SUBSET (DOMAIN invocations),
         NEW T, NEW C2 \in SUBSET (C \cup {Len(invocations) + 1}),
         Len(invocations) + 1 \in C2 => call[w].task \in T,
         NEW b \in Int, Within(C, T, b)
  PROVE  Cardinality(C2) + Cardinality(CallingFor(T)') <= b
<1>1. call[w].stage = "calling" /\ CallingFor(T)' = CallingFor(T) \ {w}
  BY InvokeIs DEF Invoke
<1>2. IsFiniteSet(C) /\ IsFiniteSet(CallingFor(T))
  BY Countable DEF IInv
<1>3. Cardinality(C) + Cardinality(CallingFor(T)) <= b
  BY DEF Within
<1>4. CASE call[w].task \in T
  <2>1. w \in CallingFor(T)
    BY <1>1, <1>4 DEF CallingFor
  <2> HIDE DEF CallingFor
  <2> QED
    BY <1>1, <1>2, <1>3, <2>1, CallFits
<1>5. CASE call[w].task \notin T
  <2>1. C2 \in SUBSET C /\ CallingFor(T)' \in SUBSET CallingFor(T)
    BY <1>1, <1>5
  <2> HIDE DEF CallingFor
  <2> QED
    BY <1>2, <1>3, <2>1, Fewer
<1> QED
  BY <1>4, <1>5

LEMMA InvokeLimits ==
  ASSUME IInv, NEW w \in Workers, Invoke(w)
  PROVE  Limits'
<1> DEFINE n == Len(invocations) + 1
<1>1. TypeOK /\ Limits
  BY DEF IInv
<1>2. \A i \in DOMAIN invocations :
        invocations[i].abreast \in Int /\ invocations[i].rivals \in Int
  BY <1>1, Counts
<1>3. /\ Len(invocations) \in Nat /\ DOMAIN invocations = 1..Len(invocations)
      /\ DOMAIN invocations' = 1..n
      /\ \A i \in DOMAIN invocations : invocations'[i] = invocations[i]
      /\ call[w].task \in Tasks /\ invocations'[n].task = call[w].task
      /\ invocations'[n].abreast = Cardinality(CallingFor(Tasks) \ {w})
      /\ invocations'[n].rivals = Cardinality(CallingFor(Rivals(w)) \ {w})
      /\ \A T : CallingFor(T)' = CallingFor(T) \ {w}
  BY InvokeIs
<1>4. Cardinality({}) = 0 /\ \A T : Cardinality(CallingFor(T) \ {w}) \in Nat
  <2>1. \A T : CallingFor(T) \ {w} \in SUBSET Workers
    BY DEF CallingFor
  <2> QED
    BY <2>1, WorkersCounted, FS_EmptySet
<1>5. CallsWithin'
  <2> SUFFICES ASSUME NEW i \in 1..n, i >= MaxCalls
               PROVE  Cardinality(Later(i)') + Cardinality(CallingFor(Tasks)')
                        <= invocations'[i].abreast
    BY <1>3 DEF CallsWithin, Within
  <2>1. CASE i = n
    <3>1. Later(i)' = {}
      BY <1>3, <2>1 DEF Later
    <3>2. Cardinality(Later(i)') = 0
      BY <1>4, <3>1
    <3>3. CallingFor(Tasks)' = CallingFor(Tasks) \ {w}
      BY <1>3
    <3>4. Cardinality(CallingFor(Tasks)') = invocations'[i].abreast
      BY <1>3, <2>1, <3>3
    <3>5. Cardinality(CallingFor(Tasks)') \in Nat
      BY <1>4, <3>3
    <3> QED
      BY <3>2, <3>4, <3>5
  <2>2. CASE i # n
    <3>1. i \in DOMAIN invocations /\ invocations'[i] = invocations[i]
      BY <1>3, <2>2
    <3>2. Within(Later(i), Tasks, invocations[i].abreast)
      BY <1>1, <3>1 DEF Limits, CallsWithin
    <3>3. /\ Later(i) \in SUBSET DOMAIN invocations
          /\ Later(i)' \in SUBSET (Later(i) \cup {n})
      BY <1>3 DEF Later
    <3>4. invocations[i].abreast \in Int
      BY <1>2, <3>1
    <3>5. Cardinality(Later(i)') + Cardinality(CallingFor(Tasks)') <= invocations[i].abreast
      BY <1>3, <3>2, <3>3, <3>4, InvokeWithin
    <3> QED
      BY <3>1, <3>5
  <2> QED
    BY <2>1, <2>2
<1>6. AttemptsWithin'
  <2> SUFFICES ASSUME NEW p \in Packages, NEW i \in OfPackage(p)',
                      Cardinality(FirstOfPackage(p, i)') >= MaxAttempts
               PROVE  Cardinality(NextOfPackage(p, i)') + Cardinality(CallingFor(Concerned(p))')
                        <= invocations'[i].rivals
    BY DEF AttemptsWithin, Within, Concerned, Packages
  <2>1. i \in 1..n /\ PackageOf[invocations'[i].task] = p
    BY <1>3 DEF OfPackage
  <2>2. CASE i = n
    <3>1. NextOfPackage(p, i)' = {}
      BY <1>3, <2>2 DEF NextOfPackage, OfPackage
    <3>2. Rivals(w) = Concerned(p)
      BY <1>3, <2>1, <2>2 DEF Rivals
    <3>3. Cardinality(NextOfPackage(p, i)') = 0
      BY <1>4, <3>1
    <3>4. CallingFor(Concerned(p))' = CallingFor(Concerned(p)) \ {w}
      <4>1. Concerned(p)' = Concerned(p)
        BY DEF Concerned
      <4> QED
        BY <1>3, <4>1
    <3>5. Cardinality(CallingFor(Concerned(p))') = invocations'[i].rivals
      BY <1>3, <2>2, <3>2, <3>4
    <3>6. Cardinality(CallingFor(Concerned(p))') \in Nat
      BY <1>4, <3>4
    <3> QED
      BY <3>3, <3>5, <3>6
  <2>3. CASE i # n
    <3>1. i \in DOMAIN invocations /\ invocations'[i] = invocations[i] /\ i \in OfPackage(p)
      BY <1>3, <2>1, <2>3 DEF OfPackage
    <3>2. FirstOfPackage(p, i)' = FirstOfPackage(p, i)
      BY <1>3, <3>1 DEF FirstOfPackage, OfPackage
    <3>3. Within(NextOfPackage(p, i), Concerned(p), invocations[i].rivals)
      BY <1>1, <3>1, <3>2 DEF Limits, AttemptsWithin
    <3>4. /\ NextOfPackage(p, i) \in SUBSET DOMAIN invocations
          /\ NextOfPackage(p, i)' \in SUBSET (NextOfPackage(p, i) \cup {n})
          /\ n \in NextOfPackage(p, i)' => call[w].task \in Concerned(p)
      BY <1>3 DEF NextOfPackage, OfPackage, Concerned
    <3>5. invocations[i].rivals \in Int
      BY <1>2, <3>1
    <3>6. Cardinality(NextOfPackage(p, i)') + Cardinality(CallingFor(Concerned(p))')
            <= invocations[i].rivals
      BY <3>3, <3>4, <3>5, InvokeWithin
    <3> QED
      BY <3>1, <3>6
  <2> QED
    BY <2>2, <2>3
<1> QED
  BY <1>5, <1>6 DEF Limits

\* The calls after the time: the first call begins it.
LEMMA InvokeLate ==
  ASSUME IInv, NEW w \in Workers, Invoke(w)
  PROVE  LateWithin'
<1> DEFINE n == Len(invocations) + 1
<1>1. TypeOK /\ LateWithin /\ MaxElapsed \in Nat \ {0}
  BY DEF IInv, PolicyAssumption
<1>2. /\ Len(invocations) \in Nat /\ DOMAIN invocations = 1..Len(invocations)
      /\ DOMAIN invocations' = 1..n /\ UNCHANGED <<now, overdue>>
      /\ \A i \in DOMAIN invocations : invocations'[i] = invocations[i]
      /\ call[w].task \in Tasks /\ invocations'[n].at = now
  BY InvokeIs DEF Invoke
<1>3. now \in Int /\ overdue \in Int
  BY <1>1, Countable DEF TypeOK, PolicyAssumption
<1>4. CASE DOMAIN invocations = {}
  <2>1. n = 1
    BY <1>2, <1>4
  <2>2. ~Overdue' /\ Late' = {}
    BY <1>1, <1>2, <1>3, <2>1 DEF Overdue, Late
  <2> QED
    BY <2>2 DEF LateWithin
<1>5. CASE DOMAIN invocations # {}
  <2>1. 1 \in DOMAIN invocations /\ 1 \in DOMAIN invocations' /\ n # 1
    BY <1>2, <1>5
  <2>2. Overdue' <=> Overdue
    BY <1>2, <2>1 DEF Overdue
  <2>3. Late \in SUBSET DOMAIN invocations /\ Late' \in SUBSET (Late \cup {n})
    BY <1>2, <2>1 DEF Late
  <2>4. CASE Overdue
    <3>1. Within(Late, Tasks, overdue)
      BY <1>1, <2>4 DEF LateWithin
    <3>2. Cardinality(Late') + Cardinality(CallingFor(Tasks)') <= overdue
      BY <1>2, <1>3, <2>3, <3>1, InvokeWithin
    <3> QED
      BY <1>2, <2>2, <2>4, <3>2 DEF LateWithin, Within
  <2>5. CASE ~Overdue
    <3>1. Late = {}
      BY <1>1, <2>5 DEF LateWithin
    <3>2. n \notin Late'
      BY <1>2, <2>1, <2>5 DEF Late, Overdue
    <3> QED
      BY <2>2, <2>3, <2>5, <3>1, <3>2 DEF LateWithin
  <2> QED
    BY <2>4, <2>5
<1> QED
  BY <1>4, <1>5

\* The counts that begin at a call, at a stop and at a success.
LEMMA InvokeSince ==
  ASSUME IInv, NEW w \in Workers, Invoke(w)
  PROVE  PendingWithin' /\ StopsWithin' /\ SuccessWithin'
<1> DEFINE n == Len(invocations) + 1
<1>1. /\ TypeOK /\ CallsTyped /\ PendingWithin /\ StopsWithin /\ SuccessWithin
      /\ Slack \in Int
  BY Countable DEF IInv
<1>2. UNCHANGED <<terminals, overrides>>
  BY DEF Invoke
<1>3. /\ Len(invocations) \in Nat /\ DOMAIN invocations = 1..Len(invocations)
      /\ DOMAIN invocations' = 1..n
      /\ \A i \in DOMAIN invocations : invocations'[i] = invocations[i]
      /\ call[w].task \in Tasks /\ invocations'[n].task = call[w].task
      /\ invocations'[n].outcome = Unknown
      /\ \A T : CallingFor(T)' = CallingFor(T) \ {w}
  BY InvokeIs
<1>4. PendingWithin'
  <2> SUFFICES ASSUME Incomplete \notin overrides', NEW i \in Pending'
               PROVE  Cardinality(Later(i)') + Cardinality(CallingFor(Tasks)') <= Slack
    BY DEF PendingWithin, Within, Incomplete, Terminal, Slack, CaseScope
  <2>1. CASE i = n
    <3>1. Later(i)' = {}
      BY <1>3, <2>1 DEF Later
    <3>2. Cardinality(Later(i)') = 0
      BY <3>1, FS_EmptySet
    <3>3. CallingFor(Tasks)' \in SUBSET Workers /\ w \in Workers \ CallingFor(Tasks)'
      BY <1>3 DEF CallingFor
    <3>4. Cardinality(CallingFor(Tasks)') \in Nat /\ Cardinality(CallingFor(Tasks)') <= Slack
      BY <3>3, WorkersCounted
    <3> QED
      BY <1>1, <3>2, <3>4
  <2>2. CASE i # n
    <3>1. i \in Pending /\ i \in DOMAIN invocations
      BY <1>3, <2>2 DEF Pending
    <3>2. Within(Later(i), Tasks, Slack)
      BY <1>1, <1>2, <3>1 DEF PendingWithin
    <3>3. /\ Later(i) \in SUBSET DOMAIN invocations
          /\ Later(i)' \in SUBSET (Later(i) \cup {n})
      BY <1>3 DEF Later
    <3> QED
      BY <1>1, <1>3, <3>2, <3>3, InvokeWithin
  <2> QED
    BY <2>1, <2>2
<1>5. StopsWithin'
  <2> SUFFICES ASSUME NEW r \in terminals, r.id \notin overrides
               PROVE  Cardinality(CallsPast(r)')
                        + Cardinality(CallingFor(Concerned(r.id.package))') <= r.racing
    BY <1>2 DEF StopsWithin, Within, Concerned
  <2>1. /\ r.racing \in Int /\ Within(CallsPast(r), Concerned(r.id.package), r.racing)
    BY <1>1 DEF StopsWithin, CallsTyped
  <2>2. /\ CallsPast(r) \in SUBSET DOMAIN invocations
        /\ CallsPast(r)' \in SUBSET (CallsPast(r) \cup {n})
        /\ n \in CallsPast(r)' => call[w].task \in Concerned(r.id.package)
    BY <1>3 DEF CallsPast, Concerned
  <2> QED
    BY <2>1, <2>2, InvokeWithin
<1>6. SuccessWithin'
  <2> SUFFICES ASSUME NEW i \in DOMAIN invocations', invocations'[i].outcome = Success,
                      NEW t, t = invocations'[i].task
               PROVE  Cardinality(Repeats(i)') + Cardinality(CallingFor({t})')
                        <= invocations'[i].racing
    BY DEF SuccessWithin, Within
  <2>1. i \in DOMAIN invocations /\ invocations'[i] = invocations[i]
    BY <1>3 DEF Unknown, Success
  <2>2. Within(Repeats(i), {t}, invocations[i].racing)
    BY <1>1, <2>1 DEF SuccessWithin
  <2>3. invocations[i] \in Invocation
    BY <1>1, <1>3, <2>1, ElementOfSeq DEF TypeOK
  <2>4. invocations[i].racing \in Int
    BY <2>3 DEF Invocation
  <2>5. /\ Repeats(i) \in SUBSET DOMAIN invocations
        /\ Repeats(i)' \in SUBSET (Repeats(i) \cup {n})
        /\ n \in Repeats(i)' => call[w].task \in {t}
    BY <1>3, <2>1 DEF Repeats
  <2>6. Cardinality(Repeats(i)') + Cardinality(CallingFor({t})') <= invocations[i].racing
    BY <2>2, <2>4, <2>5, InvokeWithin
  <2> QED
    BY <2>1, <2>6
<1> QED
  BY <1>4, <1>5, <1>6

LEMMA InvokeIInv ==
  ASSUME IInv, NEW w \in Workers, Invoke(w)
  PROVE  IInv'
<1> DEFINE n == Len(invocations) + 1
<1>1. /\ Len(invocations) \in Nat /\ DOMAIN invocations = 1..Len(invocations)
      /\ invocations' \in Seq(Invocation) /\ DOMAIN invocations' = 1..n
      /\ Len(invocations') = n
      /\ \A i \in DOMAIN invocations : invocations'[i] = invocations[i]
      /\ invocations'[n].task = call[w].task
      /\ invocations'[n].attempt = call[w].attempt
      /\ invocations'[n].at = now /\ invocations'[n].outcome = Unknown
      /\ invocations'[n].after = 0
      /\ DOMAIN call' = Workers /\ call'[w].stage = "running" /\ call'[w].of = n
      /\ \A v \in Workers : v # w => call'[v] = call[v]
  BY InvokeIs
<1>2. /\ call[w].stage = "calling" /\ Holders(w) = {}
      /\ UNCHANGED <<now, terminals, overrides, died, overdue>>
  BY DEF Invoke
<1>3. TypeOK /\ CallsTyped
  BY DEF IInv
<1>4. Pending' = Pending \cup {n} /\ n \notin DOMAIN invocations
  BY <1>1 DEF Pending
<1>5. TypeOK'
  <2>1. (invocations \in Seq(Invocation))'
    BY <1>1 DEF Invocation, Slack
  <2>2. \A v \in Workers : call'[v].stage \in {"running", "failed"} =>
          /\ call'[v].of \in DOMAIN invocations'
          /\ call'[v].stage = "running" <=> call'[v].of \in Pending'
    <3> SUFFICES ASSUME NEW v \in Workers, call'[v].stage \in {"running", "failed"}
                 PROVE  /\ call'[v].of \in DOMAIN invocations'
                        /\ call'[v].stage = "running" <=> call'[v].of \in Pending'
      OBVIOUS
    <3>1. CASE v = w
      BY <1>1, <1>4, <3>1
    <3>2. CASE v # w
      BY <1>1, <1>3, <1>4, <3>2 DEF TypeOK
    <3> QED
      BY <3>1, <3>2
  <2>3. \A i, j \in DOMAIN invocations' :
          /\ invocations'[i].task = invocations'[j].task
          /\ invocations'[i].attempt = invocations'[j].attempt
          => i = j
    BY <1>1, <1>2, <1>3 DEF TypeOK, Holders
  <2>4. died \subseteq DOMAIN invocations'
    BY <1>1, <1>3 DEF TypeOK
  <2> QED
    BY <1>2, <1>3, <2>1, <2>2, <2>3, <2>4 DEF TypeOK
<1>6. CallsTyped'
  <2>1. now \in Nat
    BY <1>3 DEF TypeOK, PolicyAssumption
  <2>2. \A i \in DOMAIN invocations' :
          invocations'[i].after \in 0..Len(invocations') /\ invocations'[i].at <= now
    BY <1>1, <1>3, <2>1 DEF CallsTyped
  <2>3. \A r \in terminals : r.after \in 0..Len(invocations') /\ r.racing \in Nat
    BY <1>1, <1>3 DEF CallsTyped
  <2> QED
    BY <1>1, <1>2, <1>3, <2>2, <2>3 DEF CallsTyped
<1>7. PendingHeld'
  <2> SUFFICES ASSUME NEW i \in Pending'
               PROVE  \/ i \in died'
                      \/ \E v \in Workers : call'[v].stage = "running" /\ call'[v].of = i
    BY DEF PendingHeld
  <2>1. CASE i = n
    BY <1>1, <2>1
  <2>2. CASE i # n
    BY <1>1, <1>2, <1>4, <2>2 DEF IInv, PendingHeld
  <2> QED
    BY <2>1, <2>2
<1>8. RunsApart'
  BY <1>1, <1>3, <1>4 DEF IInv, RunsApart, TypeOK
<1>9. RepeatedFailuresStop'
  <2>1. \A p, s : s # Unknown => Failures(p, s)' = Failures(p, s)
    BY <1>1 DEF Failures, OfPackage
  <2>2. \A s \in Signatures : s # Unknown
    BY DEF PolicyAssumption
  <2> QED
    BY <1>1, <1>2, <2>1, <2>2, FailuresStay
<1> QED
  BY <1>5, <1>6, <1>7, <1>8, <1>9, InvokeLimits, InvokeLate, InvokeSince DEF IInv

------------------------------------------------------------------------------
(***************************************************************************)
(* The theorems                                                            *)
(***************************************************************************)
LEMMA InitIInv == Init => IInv
<1> SUFFICES ASSUME Init PROVE IInv
  OBVIOUS
<1>1. /\ now = 0 /\ invocations = <<>> /\ terminals = {} /\ overrides = {} /\ died = {}
      /\ overdue = 0
      /\ call = [w \in Workers |-> Idle]
  BY DEF Init
<1>2. invocations \in Seq(Invocation) /\ DOMAIN invocations = {} /\ Len(invocations) = 0
  BY <1>1
<1>3. \A w \in Workers : call[w].stage = "idle"
  BY <1>1 DEF Idle
<1>4. TypeOK
  <2>1. Cardinality(Workers) \in Nat
    BY FS_CardinalityType DEF PolicyAssumption
  <2> QED
    BY <1>1, <1>2, <1>3, <2>1 DEF TypeOK, PolicyAssumption
<1>5. CallsTyped /\ PendingHeld /\ RunsApart
  BY <1>1, <1>2, <1>3 DEF CallsTyped, PendingHeld, RunsApart, Pending
<1>6. PendingWithin /\ StopsWithin /\ SuccessWithin
  BY <1>1, <1>2 DEF PendingWithin, StopsWithin, SuccessWithin, Pending
<1>7. Limits /\ LateWithin
  BY <1>2 DEF Limits, CallsWithin, AttemptsWithin, LateWithin, OfPackage, Overdue, Late
<1>8. RepeatedFailuresStop
  <2>1. \A p, s : Failures(p, s) = {}
    BY <1>2 DEF Failures, OfPackage
  <2>2. Cardinality({}) = 0 /\ Threshold \in Nat \ {0}
    BY FS_EmptySet DEF PolicyAssumption
  <2> SUFFICES ASSUME NEW p \in Packages, NEW s \in Signatures
               PROVE  ~(Cardinality(Failures(p, s)) >= Threshold)
    BY DEF RepeatedFailuresStop
  <2>3. Failures(p, s) = {}
    BY <2>1
  <2> QED
    BY <2>2, <2>3
<1> QED
  BY <1>4, <1>5, <1>6, <1>7, <1>8 DEF IInv

\* Every step preserves the invariant, action by action.
LEMMA NextIInv == IInv /\ [Next]_vars => IInv'
<1> SUFFICES ASSUME IInv, [Next]_vars PROVE IInv'
  OBVIOUS
<1>1. CASE Next
  BY <1>1, TickIInv, OverrideIInv, BeginIInv, StopIInv, InvokeIInv, InvokeLostIInv,
     AnswerIInv, ConcludeIInv, CrashIInv DEF Next
<1>2. CASE UNCHANGED vars
  <2>1. UNCHANGED <<now, invocations, terminals, call, overrides, died, overdue>>
    BY <1>2 DEF vars
  <2>2. Quiet
    BY <2>1 DEF Quiet
  <2>3. Limits' /\ LateWithin' /\ PendingWithin' /\ StopsWithin' /\ SuccessWithin'
    BY <2>1, <2>2, QuietStep, QuietLate
  <2>4. TypeOK' /\ CallsTyped'
    BY <2>1 DEF IInv, TypeOK, CallsTyped, Pending, Slack, Invocation
  <2>5. PendingHeld' /\ RunsApart' /\ RepeatedFailuresStop'
    <3>1. \A p, s : Failures(p, s)' = Failures(p, s)
      BY <2>1 DEF Failures, OfPackage
    <3> QED
      BY <2>1, <3>1, FailuresStay DEF IInv, PendingHeld, Pending, RunsApart
  <2> QED
    BY <2>3, <2>4, <2>5 DEF IInv
<1> QED
  BY <1>1, <1>2

\* The invariant holds in every reachable state of the records and the workers.
THEOREM Invariance == Spec => []IInv
  BY InitIInv, NextIInv, PTL DEF Spec

\* The records of a case have their types; no two invocations share an id, and exactly the
\* calls without an outcome are those a worker waits for or died with.
THEOREM TypeCorrect == Spec => []TypeOK
<1>1. IInv => TypeOK
  BY DEF IInv
<1> QED
  BY <1>1, Invariance, PTL

\* run, the four budget checks: however many workers judge stale records at once, a limit
\* is passed only by the calls of the runs abreast of the call that reached it, or about to
\* call when the time was over.
THEOREM Budgets == Spec => []BudgetsHold
<1>1. IInv => BudgetsHold
  <2> SUFFICES ASSUME IInv PROVE BudgetsHold
    OBVIOUS
  <2>1. TypeOK /\ Limits /\ LateWithin
    BY DEF IInv
  <2>2. ASSUME NEW C \in SUBSET (DOMAIN invocations), NEW T, NEW b \in Nat, Within(C, T, b)
        PROVE  Cardinality(C) <= b
    <3>1. Cardinality(C) \in Nat /\ Cardinality(CallingFor(T)) \in Nat
      BY <2>1, Countable
    <3> QED
      BY <2>2, <3>1 DEF Within
  <2>3. \A i \in DOMAIN invocations :
          invocations[i].abreast \in Nat /\ invocations[i].rivals \in Nat
    BY <2>1, Counts
  <2>4. ASSUME NEW i \in DOMAIN invocations, i >= MaxCalls
        PROVE  Len(invocations) - i <= invocations[i].abreast
    <3>1. Later(i) \in SUBSET DOMAIN invocations
      BY DEF Later
    <3>2. Within(Later(i), Tasks, invocations[i].abreast)
      BY <2>1, <2>4 DEF Limits, CallsWithin
    <3>3. Cardinality(Later(i)) <= invocations[i].abreast
      BY <2>2, <2>3, <3>1, <3>2
    <3>4. Cardinality(Later(i)) = Len(invocations) - i
      BY <2>1, LaterCount DEF Later, TypeOK
    <3> QED
      BY <3>3, <3>4
  <2>5. ASSUME NEW p \in Packages, NEW i \in OfPackage(p),
               Cardinality(FirstOfPackage(p, i)) >= MaxAttempts
        PROVE  Cardinality(NextOfPackage(p, i)) <= invocations[i].rivals
    <3>1. NextOfPackage(p, i) \in SUBSET DOMAIN invocations /\ i \in DOMAIN invocations
      BY DEF NextOfPackage, OfPackage
    <3>2. Within(NextOfPackage(p, i), Concerned(p), invocations[i].rivals)
      BY <2>1, <2>5 DEF Limits, AttemptsWithin
    <3> QED
      BY <2>2, <2>3, <3>1, <3>2
  <2>6. Cardinality(Late) <= overdue
    <3>1. Late \in SUBSET DOMAIN invocations /\ overdue \in Nat
      BY <2>1, Countable DEF Late, TypeOK
    <3>2. CASE Overdue
      BY <2>1, <2>2, <3>1, <3>2 DEF LateWithin
    <3>3. CASE ~Overdue
      <4>1. Cardinality(Late) = 0
        BY <2>1, <3>3, FS_EmptySet DEF LateWithin
      <4> QED
        BY <3>1, <4>1
    <3> QED
      BY <3>2, <3>3
  <2> QED
    BY <2>4, <2>5, <2>6 DEF BudgetsHold
<1> QED
  BY <1>1, Invariance, PTL

\* The check of pending invocations: a call nobody will account for stops the case until an
\* operator overrides that stop; only runs that raced with the call may follow it.
THEOREM DeadCalls == Spec => []DeadCallStops
<1>1. IInv => DeadCallStops
  <2> SUFFICES ASSUME IInv, NEW i \in Pending,
                      ~\E w \in Workers : call[w].stage = "running" /\ call[w].of = i
               PROVE  /\ i \in died
                      /\ Incomplete \notin overrides => Len(invocations) - i <= Slack
    BY DEF DeadCallStops
  <2>1. i \in died
    BY DEF IInv, PendingHeld
  <2>2. ASSUME Incomplete \notin overrides PROVE Len(invocations) - i <= Slack
    <3>1. Cardinality(Later(i)) + Cardinality(CallingFor(Tasks)) <= Slack
      BY <2>2 DEF IInv, PendingWithin, Within
    <3>2. i \in DOMAIN invocations /\ invocations \in Seq(Invocation)
      BY DEF Pending, IInv, TypeOK
    <3>3. Cardinality(Later(i)) = Len(invocations) - i
      BY <3>2, LaterCount DEF Later
    <3>4. /\ Cardinality(CallingFor(Tasks)) \in Nat /\ Slack \in Int
          /\ DOMAIN invocations = 1..Len(invocations) /\ Len(invocations) \in Nat
      <4>1. {} \in SUBSET (DOMAIN invocations) /\ TypeOK
        BY DEF IInv
      <4> QED
        BY <4>1, Countable
    <3> QED
      BY <3>1, <3>2, <3>3, <3>4
  <2> QED
    BY <2>1, <2>2
<1> QED
  BY <1>1, Invariance, PTL

\* _active_terminal: a stop that is not overridden is passed by no run but those that had
\* judged the records before it was put.
THEOREM Stops == Spec => []StopIsDurable
<1>1. IInv => StopIsDurable
  <2> SUFFICES ASSUME IInv, NEW r \in terminals, r.id \notin overrides
               PROVE  Cardinality(CallsPast(r)) <= r.racing
    BY DEF StopIsDurable
  <2>1. CallsPast(r) \in SUBSET DOMAIN invocations
    BY DEF CallsPast
  <2>2. /\ Cardinality(CallsPast(r)) \in Nat
        /\ Cardinality(CallingFor(Concerned(r.id.package))) \in Nat /\ r.racing \in Nat
    BY <2>1, Countable DEF IInv, CallsTyped
  <2> QED
    BY <2>2 DEF IInv, StopsWithin, Within
<1> QED
  BY <1>1, Invariance, PTL

\* run, the loop over the outcomes: a task that has succeeded is sent to the model again only
\* by runs that had judged the records before the success was put.
THEOREM Replays == Spec => []SuccessIsReplayed
<1>1. IInv => SuccessIsReplayed
  <2> SUFFICES ASSUME IInv, NEW i \in DOMAIN invocations,
                      invocations[i].outcome = Success
               PROVE  Cardinality(Repeats(i)) <= invocations[i].racing
    BY DEF SuccessIsReplayed, Succeeded
  <2>1. Repeats(i) \in SUBSET DOMAIN invocations
    BY DEF Repeats
  <2>2. /\ Cardinality(Repeats(i)) \in Nat
        /\ Cardinality(CallingFor({invocations[i].task})) \in Nat
        /\ invocations \in Seq(Invocation) /\ DOMAIN invocations = 1..Len(invocations)
    BY <2>1, Countable DEF IInv, TypeOK
  <2>3. invocations[i] \in Invocation
    BY <2>2, ElementOfSeq
  <2>4. invocations[i].racing \in Int
    BY <2>3 DEF Invocation
  <2> QED
    BY <2>2, <2>4 DEF IInv, SuccessWithin, Within
<1> QED
  BY <1>1, Invariance, PTL

\* The two threshold checks: as many equal failures as the policy allows have opened the
\* circuit of their package, are being concluded, or cost the worker its life.
THEOREM Circuits == Spec => []RepeatedFailuresStop
<1>1. IInv => RepeatedFailuresStop
  BY DEF IInv
<1> QED
  BY <1>1, Invariance, PTL
==============================================================================
