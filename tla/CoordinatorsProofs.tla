-------------------------- MODULE CoordinatorsProofs --------------------------
(***************************************************************************)
(* Theorems about Coordinators, for any number of processes, cases, assets *)
(* and findings.  Everything rests on what the condition of the append     *)
(* gives: when the version is still the one a process has read, the row is *)
(* the projection it has read (ReadIsPast), so its request was permitted   *)
(* on the row it is appended to.  What create and append then keep of the  *)
(* tables (StoreInv) depends on no caller.                                 *)
(***************************************************************************)
EXTENDS Coordinators, SequenceTheorems, TLAPS

Event == [sequence : Nat, transition : Transitions, from : CaseStates,
          to : CaseStates, additions : SUBSET Findings]

\* The event log is a table of sequences of events.
LogsTyped == log \in [CaseIds -> Seq(Event)]

\* What a process has read of a case is a version the case has had, and the row itself
\* while the version has not moved.
ReadIsPast ==
  \A w \in Writers : reading[w] # NoCase =>
    /\ rows[reading[w]] \in Case
    /\ read[w].version <= rows[reading[w]].version
    /\ read[w].version = rows[reading[w]].version => read[w] = rows[reading[w]]

IInv == TypeOK /\ LogsTyped /\ ReadIsPast /\ ActiveIndexExact /\ LogReplaysToRow

\* What the tables keep, whoever calls the store.
StoreInv == StoreTypeOK /\ LogsTyped /\ ActiveIndexExact /\ LogReplaysToRow

\* A request as far as its types go.
IsRequest(r) ==
  /\ r.transition \in Transitions /\ r.additions \in SUBSET Findings
  /\ \A n \in DOMAIN r.records : r.records[n] \in Nat
  /\ r.priority \in Nat /\ r.change_plan \in Nat /\ r.change_window \in Nat

USE NoCaseAssumption, IssuedAssumption

\* A case that does not exist is no case of the domain, and a new one is.
LEMMA UnopenedIsNoCase ==
  /\ Unopened \notin Case /\ Unopened.version = 0 /\ Unopened.state = "unopened"
  /\ ~IsTerminal(Unopened)
BY DEF Unopened, OpenCase, Case, CaseStates, ActiveStates, ReopenStates, TerminalStates,
       IsTerminal

\* open_case: a new case is open and has no events.
LEMMA OpenCaseIsCase ==
  ASSUME NEW findings \in SUBSET Findings
  PROVE  /\ OpenCase(findings) \in Case /\ OpenCase(findings).version = 0
         /\ ~IsTerminal(OpenCase(findings)) /\ OpenCase(findings) # Unopened
         /\ OpenCase(findings).state = "open"
<1>1. NoRecords \in [RecordNames -> Nat] /\ NoId \in Nat
  BY DEF NoRecords, NoId
<1>2. OpenCase(findings) \in Case /\ OpenCase(findings).version = 0
  BY <1>1 DEF OpenCase, Case, CaseStates, ActiveStates, NoState
<1>3. OpenCase(findings).state = "open"
  BY DEF OpenCase
<1> QED
  BY <1>2, <1>3, UnopenedIsNoCase DEF IsTerminal, TerminalStates

\* transition_case: what a permitted request makes of a case, and its event.
LEMMA ApplyIsCase ==
  ASSUME NEW c \in Case, NEW r, IsRequest(r), Permits(c, r)
  PROVE  /\ ~IsTerminal(c)
         /\ Apply(c, r) \in Case
         /\ Apply(c, r).version = c.version + 1
         /\ Apply(c, r).findings = c.findings \cup r.additions
         /\ EventOf(c, r) \in Event
         /\ EventOf(c, r).sequence = c.version + 1
         /\ EventOf(c, r).transition = r.transition
         /\ EventOf(c, r).from = c.state
         /\ EventOf(c, r).to = Apply(c, r).state
         /\ EventOf(c, r).additions = r.additions
<1> DEFINE t == r.transition
           new == c.version + 1
<1>1. t \in Transitions
  BY DEF IsRequest
<1>2. c.state \in Sources[t] /\ (t = "resume" => c.blocked_from # NoState)
  BY DEF Permits
<1>3. ~IsTerminal(c)
  BY <1>1, <1>2 DEF IsTerminal, TerminalStates, Sources, Transitions, Target, ActiveStates,
              ReopenStates
<1>4. /\ c.version \in Nat /\ new \in Nat /\ c.priority \in Nat /\ c.change_plan \in Nat
      /\ c.change_window \in Nat /\ c.findings \in SUBSET Findings /\ c.state \in CaseStates
      /\ c.blocked_from \in CaseStates \cup {NoState}
      /\ \A n \in RecordNames : c.record_ids[n] \in Nat
  BY DEF Case
<1>5. StateAfter(c, t) \in CaseStates
      /\ BlockedFromAfter(c, t) \in CaseStates \cup {NoState}
  BY <1>1, <1>2, <1>4
  DEF StateAfter, BlockedFromAfter, Reopens, Transitions, Target, CaseStates,
      ActiveStates, ReopenStates, TerminalStates, NoState
<1>6. RecordsAfter(c, r) \in [RecordNames -> Nat]
  BY <1>4 DEF RecordsAfter, NoId, IsRequest
<1>7. /\ OrElse(r.priority, c.priority) \in Nat
      /\ PlanAfter(c, r) \in Nat /\ WindowAfter(c, r) \in Nat
  BY <1>4 DEF PlanAfter, WindowAfter, OrElse, NoId, IsRequest
<1>8. /\ Apply(c, r).version = new /\ Apply(c, r).findings = c.findings \cup r.additions
      /\ Apply(c, r).state = StateAfter(c, t)
  BY DEF Apply
<1>9. Apply(c, r) \in Case
  BY <1>4, <1>5, <1>6, <1>7 DEF Apply, Case, IsRequest
<1>10. EventOf(c, r) = [sequence |-> new, transition |-> t, from |-> c.state,
                        to |-> StateAfter(c, t), additions |-> r.additions]
  BY DEF EventOf
<1>11. EventOf(c, r) \in Event
  BY <1>1, <1>4, <1>5, <1>10 DEF Event, IsRequest
<1> QED
  BY <1>3, <1>8, <1>9, <1>10, <1>11

\* The callers of WorkflowCoordinator.advance make such requests.
LEMMA RequestTyped ==
  ASSUME NEW c \in Case, NEW t \in Transitions, NEW names \in Attached(t),
         NEW adds \in Additions(t)
  PROVE  /\ IsRequest(RequestOf(c, t, names, adds))
         /\ RequestOf(c, t, names, adds).transition = t
         /\ RequestOf(c, t, names, adds).additions = adds
<1> DEFINE r == RequestOf(c, t, names, adds)
           new == c.version + 1
<1>1. /\ r.transition = t /\ r.additions = adds /\ DOMAIN r.records = names
      /\ \A n \in names : r.records[n] = AttachedId(c, t)
      /\ r.priority \in {new, NoId}
      /\ r.change_plan \in {new, NoId} /\ r.change_window \in {new, NoId}
  BY DEF RequestOf, Request
<1>2. new \in Nat /\ AttachedId(c, t) \in Nat
  BY DEF Case, AttachedId, RecordNames
<1>3. adds \in SUBSET Findings
  BY DEF Additions
<1> QED
  BY <1>1, <1>2, <1>3 DEF IsRequest, NoId

\* The empty store satisfies the invariant.
LEMMA InitIInv == Init => IInv
<1> SUFFICES ASSUME Init PROVE IInv
  OBVIOUS
<1>1. /\ \A c \in CaseIds : rows[c] = Unopened /\ linked[c] = {} /\ log[c] = <<>>
      /\ \A a \in Assets : active[a] = NoCase
      /\ \A w \in Writers : reading[w] = NoCase /\ read[w] = Unopened
  BY DEF Init, StoreInit
<1>2. TypeOK
  BY <1>1 DEF TypeOK, StoreTypeOK, Init, StoreInit
<1>3. LogsTyped
  BY DEF LogsTyped, Init, StoreInit
<1>4. ActiveIndexExact
  BY <1>1 DEF ActiveIndexExact, Exists
<1>5. LogReplaysToRow
  BY <1>1, UnopenedIsNoCase DEF LogReplaysToRow, Exists
<1> QED
  BY <1>1, <1>2, <1>3, <1>4, <1>5 DEF IInv, ReadIsPast

\* create: the assets that a new case takes were held by no case.
LEMMA CreateStoreInv ==
  ASSUME StoreInv, NEW c \in CaseIds, NEW findings \in SUBSET Findings,
         NEW assets \in SUBSET Assets, CreateCase(c, findings, assets)
  PROVE  StoreInv'
<1>1. /\ rows' = [rows EXCEPT ![c] = OpenCase(findings)] /\ rows[c] = Unopened
      /\ linked' = [linked EXCEPT ![c] = assets]
      /\ active' = [a \in Assets |-> IF a \in assets THEN c ELSE active[a]]
      /\ \A a \in assets : active[a] = NoCase
      /\ log' = log
  BY DEF CreateCase, CanCreate, Exists, AssetFree
<1>2. /\ rows'[c] = OpenCase(findings) /\ linked'[c] = assets
      /\ \A d \in CaseIds : d # c => rows'[d] = rows[d] /\ linked'[d] = linked[d]
      /\ \A a \in Assets : active'[a] = IF a \in assets THEN c ELSE active[a]
  BY <1>1 DEF StoreInv, StoreTypeOK
<1>3. StoreTypeOK' /\ LogsTyped'
  BY <1>1, OpenCaseIsCase DEF StoreInv, StoreTypeOK, LogsTyped
<1>4. ActiveIndexExact'
  <2> SUFFICES ASSUME NEW d \in CaseIds, NEW a \in Assets
               PROVE  active'[a] = d <=>
                        rows'[d] # Unopened /\ ~IsTerminal(rows'[d]) /\ a \in linked'[d]
    BY DEF ActiveIndexExact, Exists, IsTerminal
  <2>1. active[a] = d <=> rows[d] # Unopened /\ ~IsTerminal(rows[d]) /\ a \in linked[d]
    BY DEF StoreInv, ActiveIndexExact, Exists
  <2>2. CASE d = c
    BY <2>1, <2>2, <1>1, <1>2, OpenCaseIsCase
  <2>3. CASE d # c
    BY <2>1, <2>3, <1>1, <1>2
  <2> QED
    BY <2>2, <2>3
<1>5. LogReplaysToRow'
  <2> SUFFICES ASSUME NEW d \in CaseIds
               PROVE  /\ Len(log[d]) = rows'[d].version
                      /\ \A i \in 1..Len(log[d]) :
                           /\ log[d][i].sequence = i
                           /\ log[d][i].from = IF i = 1 THEN "open" ELSE log[d][i - 1].to
                           /\ log[d][i].additions \subseteq rows'[d].findings
                      /\ Len(log[d]) > 0 => rows'[d].state = log[d][Len(log[d])].to
                      /\ Len(log[d]) = 0 /\ rows'[d] # Unopened => rows'[d].state = "open"
    BY <1>1 DEF LogReplaysToRow, Exists
  <2>1. CASE d = c
    <3>1. Len(log[c]) = 0
      BY <1>1, UnopenedIsNoCase DEF StoreInv, LogReplaysToRow
    <3> QED
      BY <3>1, <2>1, <1>2, OpenCaseIsCase
  <2>2. CASE d # c
    BY <2>2, <1>2 DEF StoreInv, LogReplaysToRow, Exists
  <2> QED
    BY <2>1, <2>2
<1> QED
  BY <1>3, <1>4, <1>5 DEF StoreInv

\* open preserves the invariant.
LEMMA OpenIInv ==
  ASSUME IInv, NEW c \in CaseIds, NEW findings \in SUBSET Findings,
         NEW assets \in SUBSET Assets, Open(c, findings, assets)
  PROVE  IInv'
<1>1. /\ rows' = [rows EXCEPT ![c] = OpenCase(findings)] /\ rows[c] = Unopened
      /\ reading' = reading /\ read' = read
  BY DEF Open, CreateCase, CanCreate, Exists, writers
<1>2. StoreInv'
  BY CreateStoreInv DEF IInv, TypeOK, StoreInv, Open
<1>3. ReadIsPast'
  <2>1. \A w \in Writers : reading[w] # NoCase => reading[w] # c
    BY <1>1, UnopenedIsNoCase DEF IInv, ReadIsPast
  <2>2. \A w \in Writers : reading[w] \in CaseIds \cup {NoCase}
    BY DEF IInv, TypeOK
  <2> QED
    BY <2>1, <2>2, <1>1 DEF IInv, ReadIsPast, TypeOK, StoreTypeOK
<1> QED
  BY <1>1, <1>2, <1>3 DEF IInv, TypeOK, StoreInv

\* The parts of the invariant that are about the store depend on nothing else.
LEMMA StoreIInv ==
  ASSUME IInv, UNCHANGED store
  PROVE  StoreTypeOK' /\ LogsTyped' /\ ActiveIndexExact' /\ LogReplaysToRow'
<1>1. rows' = rows /\ linked' = linked /\ active' = active /\ log' = log
  BY DEF store
<1>2. StoreTypeOK'
  BY <1>1 DEF IInv, TypeOK, StoreTypeOK
<1>3. LogsTyped' /\ ActiveIndexExact' /\ LogReplaysToRow'
  BY <1>1 DEF IInv, LogsTyped, ActiveIndexExact, LogReplaysToRow, Exists
<1> QED
  BY <1>2, <1>3

\* The read of advance preserves the invariant.
LEMMA GetIInv ==
  ASSUME IInv, NEW w \in Writers, NEW c \in CaseIds, Get(w, c)
  PROVE  IInv'
<1>1. /\ reading'[w] = c /\ read'[w] = rows[c] /\ rows[c] \in Case
      /\ \A v \in Writers : v # w => reading'[v] = reading[v] /\ read'[v] = read[v]
      /\ UNCHANGED <<rows, linked, active, log>>
  BY DEF Get, Exists, store, IInv, TypeOK, StoreTypeOK
<1>2. rows[c].version \in Nat
  BY <1>1 DEF Case
<1>3. TypeOK'
  <2>1. /\ reading' \in [Writers -> CaseIds \cup {NoCase}]
        /\ read' \in [Writers -> Case \cup {Unopened}]
    BY <1>1 DEF Get, IInv, TypeOK
  <2>2. \A v \in Writers : reading'[v] = NoCase <=> read'[v] = Unopened
    BY <1>1, UnopenedIsNoCase DEF IInv, TypeOK
  <2> QED
    BY <2>1, <2>2, <1>1, StoreIInv DEF TypeOK, store
<1>4. ReadIsPast'
  BY <1>1, <1>2 DEF IInv, ReadIsPast
<1> QED
  BY <1>1, <1>3, <1>4, StoreIInv DEF IInv, store

\* An advance that is given up leaves the store alone.
LEMMA GiveUpIInv ==
  ASSUME IInv, NEW w \in Writers, GiveUp(w)
  PROVE  IInv'
<1>1. /\ reading' = [reading EXCEPT ![w] = NoCase] /\ read' = [read EXCEPT ![w] = Unopened]
      /\ UNCHANGED store
  BY DEF GiveUp, Idle
<1>2. reading' \in [Writers -> CaseIds \cup {NoCase}]
  BY <1>1 DEF IInv, TypeOK
<1>3. \A v \in Writers : \/ v = w /\ reading'[v] = NoCase /\ read'[v] = Unopened
                         \/ reading'[v] = reading[v] /\ read'[v] = read[v]
  BY <1>1 DEF IInv, TypeOK
<1>4. TypeOK'
  BY <1>1, <1>2, <1>3, StoreIInv DEF IInv, TypeOK
<1>5. ReadIsPast'
  BY <1>1, <1>3 DEF IInv, ReadIsPast, store
<1> QED
  BY <1>1, <1>4, <1>5, StoreIInv DEF IInv

\* The append of advance is an append to what the process has read: the condition on
\* the version is met by no other row.
LEMMA AppendIs ==
  ASSUME IInv, NEW w \in Writers, NEW t \in Issued, AppendOf(w, t)
  PROVE  \E c \in CaseIds, names \in Attached(t), adds \in Additions(t) :
           LET r == RequestOf(rows[c], t, names, adds) IN
           /\ rows[c] \in Case /\ rows[c].version < MaxVersion
           /\ Permits(rows[c], r)
           /\ AppendEvent(c, rows[c], r)
           /\ Idle(w)
<1> DEFINE c == reading[w]
<1>1. PICK names \in Attached(t), adds \in Additions(t) :
        /\ Permits(read[w], RequestOf(read[w], t, names, adds))
        /\ AppendEvent(c, read[w], RequestOf(read[w], t, names, adds))
  BY DEF AppendOf
<1>2. c \in CaseIds /\ read[w].version < MaxVersion /\ Idle(w)
  BY DEF AppendOf, IInv, TypeOK
<1>3. read[w] = rows[c] /\ rows[c] \in Case
  BY <1>1, <1>2 DEF AppendEvent, VersionIs, IInv, ReadIsPast
<1> QED
  BY <1>1, <1>2, <1>3 DEF AppendEvent

\* The event log grows by the event of the append, at its end.
LEMMA AppendedLog ==
  ASSUME NEW events \in Seq(Event), NEW e \in Event
  PROVE  /\ Append(events, e) \in Seq(Event)
         /\ Len(Append(events, e)) = Len(events) + 1
         /\ DOMAIN Append(events, e) = 1..(Len(events) + 1)
         /\ DOMAIN events = 1..Len(events)
         /\ \A i \in 1..Len(events) : Append(events, e)[i] = events[i]
         /\ Append(events, e)[Len(events) + 1] = e
OBVIOUS

\* append: what a permitted request makes of a row, and its event, keep the tables right,
\* whoever makes the request.
LEMMA AppendStoreInv ==
  ASSUME StoreInv, NEW c \in CaseIds, rows[c] \in Case, NEW r, IsRequest(r),
         Permits(rows[c], r), AppendEvent(c, rows[c], r)
  PROVE  StoreInv'
<1> DEFINE next == Apply(rows[c], r)
           e == EventOf(rows[c], r)
           n == Len(log[c])
<1>1. /\ ~IsTerminal(rows[c]) /\ next \in Case /\ next.version = rows[c].version + 1
      /\ next.findings = rows[c].findings \cup r.additions
      /\ e \in Event /\ e.sequence = rows[c].version + 1
      /\ e.from = rows[c].state /\ e.to = next.state /\ e.additions = r.additions
  BY ApplyIsCase
<1>2. /\ rows' = [rows EXCEPT ![c] = next] /\ log' = [log EXCEPT ![c] = Append(log[c], e)]
      /\ active' = ActiveAfter(c, next) /\ linked' = linked
      /\ rows[c] \in Case /\ rows[c] # Unopened /\ next # Unopened
      /\ log[c] \in Seq(Event) /\ rows[c].version \in Nat
  BY <1>1, UnopenedIsNoCase DEF StoreInv, LogsTyped, Case, AppendEvent
<1> HIDE DEF next, e
<1>3. /\ rows'[c] = next /\ log'[c] = Append(log[c], e)
      /\ \A d \in CaseIds : d # c => rows'[d] = rows[d] /\ log'[d] = log[d]
      /\ \A a \in Assets :
           active'[a] = IF IsTerminal(next) /\ active[a] = c THEN NoCase ELSE active[a]
  BY <1>2 DEF StoreInv, StoreTypeOK, LogsTyped, ActiveAfter
<1>4. LogsTyped'
  BY <1>1, <1>2, <1>3, AppendedLog DEF StoreInv, LogsTyped
<1>5. LogReplaysToRow'
  <2> SUFFICES ASSUME NEW d \in CaseIds
               PROVE  /\ Len(log'[d]) = rows'[d].version
                      /\ \A i \in 1..Len(log'[d]) :
                           /\ log'[d][i].sequence = i
                           /\ log'[d][i].from = IF i = 1 THEN "open"
                                                         ELSE log'[d][i - 1].to
                           /\ log'[d][i].additions \subseteq rows'[d].findings
                      /\ Len(log'[d]) > 0 => rows'[d].state = log'[d][Len(log'[d])].to
                      /\ Len(log'[d]) = 0 /\ rows'[d] # Unopened =>
                           rows'[d].state = "open"
    BY DEF LogReplaysToRow, Exists
  <2>1. CASE d # c
    BY <2>1, <1>3 DEF StoreInv, LogReplaysToRow, Exists
  <2>2. CASE d = c
    <3>1. /\ n = rows[c].version
          /\ \A i \in 1..n : /\ log[c][i].sequence = i
                             /\ log[c][i].from = IF i = 1 THEN "open" ELSE log[c][i - 1].to
                             /\ log[c][i].additions \subseteq rows[c].findings
          /\ n > 0 => rows[c].state = log[c][n].to
      BY DEF StoreInv, LogReplaysToRow
    <3>2. n = 0 => rows[c].state = "open"
      BY <1>2 DEF StoreInv, LogReplaysToRow, Exists
    <3>3. /\ n \in Nat /\ Len(log'[c]) = n + 1 /\ log'[c][n + 1] = e
          /\ \A i \in 1..n : log'[c][i] = log[c][i]
      BY <1>1, <1>2, <1>3, AppendedLog
    <3>4. \A i \in 1..(n + 1) : i \in 1..n \/ i = n + 1
      BY <3>3
    <3>5. ASSUME NEW i \in 1..n
          PROVE  /\ log'[c][i].sequence = i
                 /\ log'[c][i].from = IF i = 1 THEN "open" ELSE log'[c][i - 1].to
                 /\ log'[c][i].additions \subseteq rows'[c].findings
      <4>1. log'[c][i] = log[c][i]
        BY <3>3
      <4>2. /\ log[c][i].sequence = i
            /\ log[c][i].from = IF i = 1 THEN "open" ELSE log[c][i - 1].to
            /\ log[c][i].additions \subseteq rows[c].findings
        BY <3>1
      <4>3. log'[c][i].sequence = i
        BY <4>1, <4>2
      <4>4. i # 1 => log'[c][i - 1] = log[c][i - 1]
        <5>1. i # 1 => i - 1 \in 1..n
          BY <3>3
        <5> QED
          BY <5>1, <3>3
      <4>5. log'[c][i].from = IF i = 1 THEN "open" ELSE log'[c][i - 1].to
        BY <4>1, <4>2, <4>4
      <4>6. rows[c].findings \subseteq rows'[c].findings
        <5>1. rows'[c].findings = rows[c].findings \cup r.additions
          BY <1>1, <1>3
        <5> QED
          BY <5>1
      <4>7. log'[c][i].additions \subseteq rows'[c].findings
        BY <4>1, <4>2, <4>6
      <4> QED
        BY <4>3, <4>5, <4>7
    <3>6. /\ e.sequence = n + 1
          /\ e.from = IF n + 1 = 1 THEN "open" ELSE log'[c][n].to
          /\ e.additions \subseteq rows'[c].findings
      <4>1. e.sequence = n + 1
        BY <3>1, <1>1
      <4>2. CASE n = 0
        BY <4>1, <4>2, <3>2, <1>1, <1>3
      <4>3. CASE n # 0
        <5>1. n > 0 /\ n \in 1..n /\ n + 1 # 1
          BY <4>3, <3>3
        <5>2. e.from = log[c][n].to
          BY <5>1, <3>1, <1>1
        <5>3. log'[c][n] = log[c][n]
          BY <5>1, <3>3
        <5>4. e.additions \subseteq rows'[c].findings
          BY <1>1, <1>3
        <5> QED
          BY <4>1, <5>1, <5>2, <5>3, <5>4
      <4> QED
        BY <4>2, <4>3
    <3>7. Len(log'[c]) = rows'[c].version
      BY <3>1, <3>3, <1>1, <1>3
    <3>8. ASSUME NEW i \in 1..Len(log'[c])
          PROVE  /\ log'[c][i].sequence = i
                 /\ log'[c][i].from = IF i = 1 THEN "open" ELSE log'[c][i - 1].to
                 /\ log'[c][i].additions \subseteq rows'[c].findings
      <4>1. CASE i \in 1..n
        BY <4>1, <3>5
      <4>2. CASE i = n + 1
        <5>1. log'[c][i] = e /\ i - 1 = n
          BY <4>2, <3>3
        <5> QED
          BY <4>2, <5>1, <3>6
      <4> QED
        BY <4>1, <4>2, <3>3, <3>4
    <3>9. rows'[c].state = log'[c][Len(log'[c])].to /\ Len(log'[c]) > 0
      BY <3>3, <1>1, <1>3
    <3> QED
      BY <2>2, <3>7, <3>8, <3>9
  <2> QED
    BY <2>1, <2>2
<1>6. StoreTypeOK'
  <2>1. /\ rows' \in [CaseIds -> Case \cup {Unopened}]
        /\ linked' \in [CaseIds -> SUBSET Assets]
        /\ active' \in [Assets -> CaseIds \cup {NoCase}]
    BY <1>1, <1>2 DEF StoreInv, StoreTypeOK, ActiveAfter
  <2>2. ASSUME NEW d \in CaseIds, NEW i \in DOMAIN log'[d]
        PROVE  log'[d][i].transition \in Transitions /\ log'[d][i].sequence >= 1
    <3>1. log'[d] \in Seq(Event)
      BY <1>4 DEF LogsTyped
    <3>2. i \in 1..Len(log'[d]) /\ log'[d][i] \in Event
      BY <3>1
    <3>3. log'[d][i].sequence = i
      BY <3>2, <1>5 DEF LogReplaysToRow
    <3> QED
      BY <3>2, <3>3 DEF Event
  <2> QED
    BY <2>1, <2>2 DEF StoreTypeOK
<1>7. ActiveIndexExact'
  <2> SUFFICES ASSUME NEW d \in CaseIds, NEW a \in Assets
               PROVE  active'[a] = d <=>
                        rows'[d] # Unopened /\ ~IsTerminal(rows'[d]) /\ a \in linked'[d]
    BY DEF ActiveIndexExact, Exists, IsTerminal
  <2>1. active[a] = d <=> rows[d] # Unopened /\ ~IsTerminal(rows[d]) /\ a \in linked[d]
    BY DEF StoreInv, ActiveIndexExact, Exists
  <2> QED
    BY <2>1, <1>1, <1>2, <1>3
<1> QED
  BY <1>4, <1>5, <1>6, <1>7 DEF StoreInv

\* The append of advance preserves the invariant.
LEMMA AppendIInv ==
  ASSUME IInv, NEW w \in Writers, NEW t \in Issued, AppendOf(w, t)
  PROVE  IInv'
<1>1. PICK c \in CaseIds, names \in Attached(t), adds \in Additions(t) :
        LET r == RequestOf(rows[c], t, names, adds) IN
        /\ rows[c] \in Case /\ rows[c].version < MaxVersion
        /\ Permits(rows[c], r)
        /\ AppendEvent(c, rows[c], r)
        /\ Idle(w)
  BY AppendIs
<1>2. PICK r : r = RequestOf(rows[c], t, names, adds)
  OBVIOUS
<1>3. IsRequest(r)
  BY <1>1, <1>2, RequestTyped
<1>4. StoreInv'
  BY <1>1, <1>2, <1>3, AppendStoreInv DEF IInv, TypeOK, StoreInv
<1>5. /\ reading' \in [Writers -> CaseIds \cup {NoCase}]
      /\ read' \in [Writers -> Case \cup {Unopened}]
      /\ \A v \in Writers : \/ reading'[v] = NoCase /\ read'[v] = Unopened
                            \/ reading'[v] = reading[v] /\ read'[v] = read[v]
  BY <1>1 DEF Idle, IInv, TypeOK
<1>6. TypeOK'
  BY <1>4, <1>5 DEF StoreInv, IInv, TypeOK
<1>7. /\ rows'[c] \in Case /\ rows'[c].version = rows[c].version + 1
      /\ rows[c].version \in Nat /\ \A d \in CaseIds : d # c => rows'[d] = rows[d]
  <2>1. /\ Apply(rows[c], r) \in Case
        /\ Apply(rows[c], r).version = rows[c].version + 1
    BY <1>1, <1>2, <1>3, ApplyIsCase
  <2>2. rows' = [rows EXCEPT ![c] = Apply(rows[c], r)]
    BY <1>1, <1>2 DEF AppendEvent
  <2>3. rows[c].version \in Nat
    BY <1>1 DEF Case
  <2> QED
    BY <2>1, <2>2, <2>3 DEF IInv, TypeOK, StoreTypeOK
<1>8. ReadIsPast'
  <2> SUFFICES ASSUME NEW v \in Writers, reading'[v] # NoCase
               PROVE  /\ rows'[reading'[v]] \in Case
                      /\ read'[v].version <= rows'[reading'[v]].version
                      /\ read'[v].version = rows'[reading'[v]].version =>
                           read'[v] = rows'[reading'[v]]
    BY DEF ReadIsPast
  <2>1. /\ reading'[v] = reading[v] /\ read'[v] = read[v] /\ reading[v] \in CaseIds
        /\ read[v] \in Case
    BY <1>5 DEF IInv, TypeOK
  <2>2. /\ rows[reading[v]] \in Case /\ read[v].version <= rows[reading[v]].version
        /\ read[v].version = rows[reading[v]].version => read[v] = rows[reading[v]]
    BY <2>1 DEF IInv, ReadIsPast
  <2>3. read[v].version \in Nat
    BY <2>1 DEF Case
  <2>4. CASE reading[v] = c
    BY <2>1, <2>2, <2>3, <2>4, <1>7
  <2>5. CASE reading[v] # c
    BY <2>1, <2>2, <2>5, <1>7
  <2> QED
    BY <2>4, <2>5
<1> QED
  BY <1>4, <1>6, <1>8 DEF IInv, StoreInv

\* Every step of the processes preserves the invariant.
LEMMA StepIInv == IInv /\ [Next]_vars => IInv'
<1> SUFFICES ASSUME IInv, [Next]_vars PROVE IInv'
  OBVIOUS
<1>1. CASE UNCHANGED vars
  <2>1. UNCHANGED store /\ reading' = reading /\ read' = read
    BY <1>1 DEF vars, writers
  <2> QED
    BY <2>1, StoreIInv DEF IInv, TypeOK, ReadIsPast, store
<1>2. CASE \E c \in CaseIds, findings \in SUBSET Findings, assets \in SUBSET Assets :
             findings # {} /\ Open(c, findings, assets)
  BY <1>2, OpenIInv
<1>3. CASE \E w \in Writers, c \in CaseIds : Get(w, c)
  BY <1>3, GetIInv
<1>4. CASE \E w \in Writers, t \in Issued : AppendOf(w, t)
  BY <1>4, AppendIInv
<1>5. CASE \E w \in Writers : GiveUp(w)
  BY <1>5, GiveUpIInv
<1> QED
  BY <1>1, <1>2, <1>3, <1>4, <1>5 DEF Next

\* The invariant of the store and its processes.
LEMMA Invariance == Spec => []IInv
BY InitIInv, StepIInv, PTL DEF Spec

\* The tables of the store keep their types (schema of SqliteCaseStore), and what a
\* process has read is a case.
THEOREM TypeCorrect == Spec => []TypeOK
<1>1. IInv => TypeOK
  BY DEF IInv
<1> QED
  BY <1>1, Invariance, PTL

\* The events of each case replay to its row, whoever appended them
\* (SqliteCaseStore.append writes both in one transaction).
THEOREM LogReplays == Spec => []LogReplaysToRow
<1>1. IInv => LogReplaysToRow
  BY DEF IInv
<1> QED
  BY <1>1, Invariance, PTL

\* active_case_assets lists the assets of the cases that are not terminal and no other:
\* find_active_by_asset finds a case to correlate with exactly when there is one.
THEOREM ActiveIndex == Spec => []ActiveIndexExact
<1>1. IInv => ActiveIndexExact
  BY DEF IInv
<1> QED
  BY <1>1, Invariance, PTL

\* No writer, however stale what it has read, writes a terminal case again.
LEMMA TerminalStep ==
  ASSUME IInv, [Next]_vars, NEW d \in CaseIds, IsTerminal(rows[d])
  PROVE  UNCHANGED <<rows[d], linked[d], log[d]>>
<1>1. ASSUME NEW c \in CaseIds, NEW findings \in SUBSET Findings,
             NEW assets \in SUBSET Assets, Open(c, findings, assets)
      PROVE  UNCHANGED <<rows[d], linked[d], log[d]>>
  <2>1. c # d
    BY <1>1, UnopenedIsNoCase DEF Open, CreateCase, CanCreate, Exists
  <2> QED
    BY <2>1, <1>1 DEF Open, CreateCase, IInv, TypeOK, StoreTypeOK
<1>2. ASSUME NEW w \in Writers, NEW t \in Issued, AppendOf(w, t)
      PROVE  UNCHANGED <<rows[d], linked[d], log[d]>>
  <2> PICK c \in CaseIds, names \in Attached(t), adds \in Additions(t) :
        LET r == RequestOf(rows[c], t, names, adds) IN
        /\ rows[c] \in Case
        /\ Permits(rows[c], r)
        /\ rows' = [rows EXCEPT ![c] = Apply(rows[c], r)]
        /\ log' = [log EXCEPT ![c] = Append(log[c], EventOf(rows[c], r))]
        /\ linked' = linked
    BY <1>2, AppendIs DEF AppendEvent
  <2>1. c # d
    <3>1. IsRequest(RequestOf(rows[c], t, names, adds))
      BY IssuedAssumption, RequestTyped
    <3> QED
      BY <3>1, ApplyIsCase
  <2> QED
    BY <2>1 DEF IInv, TypeOK, StoreTypeOK, LogsTyped
<1> QED
  BY <1>1, <1>2 DEF Next, Get, GiveUp, vars, store

\* A terminal case is final in the store: its projection, links and events.
THEOREM TerminalFinal == Spec => TerminalIsFinal
<1>1. IInv /\ [Next]_vars =>
        [\A c \in CaseIds : IsTerminal(rows[c]) =>
           UNCHANGED <<rows[c], linked[c], log[c]>>]_store
  BY TerminalStep
<1> QED
  BY <1>1, Invariance, PTL DEF Spec, TerminalIsFinal
------------------------------------------------------------------------------
(***************************************************************************)
(* The rows implement CaseLifecycle: an append that the version condition  *)
(* lets through is computed from the row it replaces.                      *)
(***************************************************************************)

\* The instance repeats the definitions of Cases; each is the one the store uses.
LEMMA SameCases ==
  ASSUME NEW c
  PROVE  /\ Lifecycle(c)!Transitions = Transitions
         /\ Lifecycle(c)!Unopened = Unopened
         /\ \A findings : Lifecycle(c)!OpenCase(findings) = OpenCase(findings)
         /\ \A t : /\ Lifecycle(c)!Attached(t) = Attached(t)
                   /\ Lifecycle(c)!Additions(t) = Additions(t)
         /\ \A row, t, names, adds :
              Lifecycle(c)!RequestOf(row, t, names, adds) = RequestOf(row, t, names, adds)
         /\ \A row, r : /\ Lifecycle(c)!Permits(row, r) <=> Permits(row, r)
                        /\ Lifecycle(c)!Apply(row, r) = Apply(row, r)
<1>1. Lifecycle(c)!Transitions = Transitions
  BY DEF Lifecycle!Transitions, Transitions, Lifecycle!Target, Target
<1>2. /\ \A findings : Lifecycle(c)!OpenCase(findings) = OpenCase(findings)
      /\ Lifecycle(c)!Unopened = Unopened
  BY DEF Lifecycle!OpenCase, OpenCase, Lifecycle!Unopened, Unopened, Lifecycle!NoRecords,
         NoRecords, Lifecycle!RecordNames, RecordNames, Lifecycle!NoId, NoId,
         Lifecycle!NoState, NoState
<1>3. \A t : /\ Lifecycle(c)!Attached(t) = Attached(t)
             /\ Lifecycle(c)!Additions(t) = Additions(t)
  BY DEF Lifecycle!Attached, Attached, Lifecycle!Additions, Additions,
         Lifecycle!RequiredRecord, RequiredRecord
<1>4. \A row, t, names, adds :
        Lifecycle(c)!RequestOf(row, t, names, adds) = RequestOf(row, t, names, adds)
  BY DEF Lifecycle!RequestOf, RequestOf, Lifecycle!Request, Request,
         Lifecycle!AttachedId, AttachedId, Lifecycle!NoId, NoId
<1>5. \A row, r : Lifecycle(c)!Permits(row, r) <=> Permits(row, r)
  BY DEF Lifecycle!Permits, Permits, Lifecycle!Sources, Sources, Lifecycle!ActiveStates,
         ActiveStates, Lifecycle!ReopenStates, ReopenStates, Lifecycle!RequiredRecord,
         RequiredRecord, Lifecycle!NoId, NoId, Lifecycle!NoState, NoState
<1>6. \A row, r : Lifecycle(c)!Apply(row, r) = Apply(row, r)
  BY DEF Lifecycle!Apply, Apply, Lifecycle!StateAfter, StateAfter,
         Lifecycle!BlockedFromAfter, BlockedFromAfter, Lifecycle!Reopens, Reopens,
         Lifecycle!ReopenStates, ReopenStates, Lifecycle!Target, Target,
         Lifecycle!PlanAfter, PlanAfter, Lifecycle!WindowAfter, WindowAfter,
         Lifecycle!OrElse, OrElse, Lifecycle!RecordsAfter, RecordsAfter,
         Lifecycle!RecordNames, RecordNames, Lifecycle!Withdrawn, Withdrawn,
         Lifecycle!NoId, NoId, Lifecycle!NoState, NoState
<1> QED
  BY <1>1, <1>2, <1>3, <1>4, <1>5, <1>6

\* open is Open of the lifecycle of the case.
LEMMA OpenRefines ==
  ASSUME NEW c \in CaseIds, NEW findings \in SUBSET Findings,
         rows[c] = Unopened, rows'[c] = OpenCase(findings)
  PROVE  Lifecycle(c)!Open(findings)
BY SameCases DEF Lifecycle!Open

\* The append of advance is Advance of the lifecycle of the case it is about.
LEMMA AppendRefines ==
  ASSUME NEW t \in Transitions, NEW c \in CaseIds, NEW names \in Attached(t),
         NEW adds \in Additions(t), rows[c].version < MaxVersion,
         Permits(rows[c], RequestOf(rows[c], t, names, adds)),
         rows'[c] = Apply(rows[c], RequestOf(rows[c], t, names, adds))
  PROVE  Lifecycle(c)!Advance(t)
BY SameCases DEF Lifecycle!Advance

\* Every step of the store is a step of the lifecycle of each case, or a stutter of it.
LEMMA StepRefines ==
  ASSUME IInv, [Next]_vars, NEW d \in CaseIds
  PROVE  [Lifecycle(d)!Next]_(rows[d])
<1>1. ASSUME NEW c \in CaseIds, NEW findings \in SUBSET Findings, findings # {},
             NEW assets \in SUBSET Assets, Open(c, findings, assets)
      PROVE  [Lifecycle(d)!Next]_(rows[d])
  <2>1. /\ rows' = [rows EXCEPT ![c] = OpenCase(findings)]
        /\ rows[c] = Unopened
    BY <1>1 DEF Open, CreateCase, CanCreate, Exists
  <2>2. CASE c = d
    <3>1. Lifecycle(d)!Open(findings)
      BY <1>1, <2>1, <2>2, OpenRefines DEF IInv, TypeOK, StoreTypeOK
    <3> QED
      BY <3>1, <1>1 DEF Lifecycle!Next
  <2>3. CASE c # d
    BY <2>1, <2>3 DEF IInv, TypeOK, StoreTypeOK
  <2> QED
    BY <2>2, <2>3
<1>2. ASSUME NEW w \in Writers, NEW t \in Issued, AppendOf(w, t)
      PROVE  [Lifecycle(d)!Next]_(rows[d])
  <2> PICK c \in CaseIds, names \in Attached(t), adds \in Additions(t) :
        /\ rows[c] \in Case /\ rows[c].version < MaxVersion
        /\ Permits(rows[c], RequestOf(rows[c], t, names, adds))
        /\ rows' = [rows EXCEPT
             ![c] = Apply(rows[c], RequestOf(rows[c], t, names, adds))]
    BY <1>2, AppendIs DEF AppendEvent
  <2>1. CASE c = d
    <3>1. rows'[d] = Apply(rows[c], RequestOf(rows[c], t, names, adds))
      BY <2>1 DEF IInv, TypeOK, StoreTypeOK
    <3>2. Lifecycle(d)!Advance(t)
      BY <2>1, <3>1, AppendRefines
    <3> QED
      BY <3>2, SameCases DEF Lifecycle!Next
  <2>2. CASE c # d
    BY <2>2 DEF IInv, TypeOK, StoreTypeOK
  <2> QED
    BY <2>1, <2>2
<1>3. ASSUME UNCHANGED store PROVE [Lifecycle(d)!Next]_(rows[d])
  BY <1>3 DEF store
<1> QED
  BY <1>1, <1>2, <1>3 DEF Next, Get, GiveUp, vars

\* However many processes advance it, each row of the store is a case of CaseLifecycle:
\* advance with its conditional append implements the one-step Advance.
THEOREM Refinement == Spec => RowsAreLifecycles
<1>1. Init => \A c \in CaseIds : Lifecycle(c)!Init
  BY SameCases DEF Init, StoreInit, Lifecycle!Init
<1>2. IInv /\ [Next]_vars =>
        [\A c \in CaseIds : [Lifecycle(c)!Next]_(rows[c])]_vars
  BY StepRefines
<1> QED
  BY <1>1, <1>2, Invariance, PTL DEF Spec, RowsAreLifecycles
===============================================================================
