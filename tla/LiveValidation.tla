---------------------------- MODULE LiveValidation ----------------------------
(***************************************************************************)
(* CaseValidationService.validate of src/elcapitan/case_validation.py over  *)
(* capture_cloud_state of src/elcapitan/cloud.py: the documents of one     *)
(* resource are read one after the other while the resource may change,    *)
(* any read may be denied or fail, and the findings of the case are then   *)
(* evaluated on what was read.                                             *)
(***************************************************************************)
EXTENDS ControlPacks

CONSTANTS
  Cases,      \* the services and finding rules of the cases looked at: [service, rules]
  MaxChanges  \* bound: changes of the resource during one validation

ASSUME CasesAssumption == \A c \in Cases : c.service \in Services

VARIABLES
  case,       \* what the case is about
  live,       \* the resource: a value for every aspect its findings depend on
  seen,       \* history: what the resource was since the validation began
  next,       \* the document read next
  config,     \* what was captured
  conclusion, \* "reading", "failed" or the transition of the case
  changes

validation == <<case, live, seen, next, config, conclusion, changes>>

\* Types, kinds, engines and names are given to a resource once.
Fixed == {"engine", "kind", "app_kind", "subnet", "name"}

Lists == {"ingress", "egress"}

\* The values of an aspect, as the document that tells it has them.
Values(s, a) ==
  UNION {Documents[s][i][a] : i \in {j \in DOMAIN Documents[s] : a \in DOMAIN Documents[s][j]}}

\* The aspects of a resource the findings depend on.
Relevant(s, rules) ==
  UNION {Reads(Controls[s][r]) : r \in rules \cap DOMAIN Controls[s]}

Described(s, aspects) ==
  {f \in [aspects -> UNION {Values(s, a) : a \in aspects}] :
     \A a \in aspects : f[a] \in Values(s, a)}

\* A resource is its permission lists and what is told by one word.
Resources(s, rules) ==
  {Joined(f, g) : f \in Described(s, Relevant(s, rules) \ Lists),
            g \in Described(s, Relevant(s, rules) \cap Lists)}

ValidationInit ==
  /\ case \in Cases
  /\ live \in Resources(case.service, case.rules)
  /\ seen = {live}
  /\ next = 1
  /\ config = <<>>
  /\ conclusion = "reading"
  /\ changes = 0
------------------------------------------------------------------------------
\* Somebody changes the resource.
Drift ==
  /\ conclusion = "reading" /\ changes < MaxChanges
  /\ \E a \in DOMAIN live \ Fixed : \E x \in Values(case.service, a) :
       /\ live' = [live EXCEPT ![a] = x]
       /\ live' # live
  /\ seen' = seen \cup {live'}
  /\ changes' = changes + 1
  /\ UNCHANGED <<case, next, config, conclusion>>

Reading == conclusion = "reading" /\ next <= Len(Documents[case.service])

\* What the document at hand says about the resource.
Answered == DOMAIN Documents[case.service][next] \cap DOMAIN live

Read ==
  /\ Reading
  /\ config' = Joined(config, [a \in Answered |-> Recorded(a, live[a])])
  /\ next' = next + 1
  /\ UNCHANGED <<case, live, seen, conclusion, changes>>

\* A denied, timed out or malformed answer ends the capture.
ReadFails ==
  /\ Reading
  /\ <<case.service, next>> \notin Independent
  /\ conclusion' = "failed"
  /\ UNCHANGED <<case, live, seen, next, config, changes>>

\* Mutant: what could not be read counts as a setting that is not there.
ReadAsEmpty ==
  /\ Reading
  /\ <<case.service, next>> \in Independent
  /\ config' = Joined(config, [a \in Answered |-> "none"])
  /\ next' = next + 1
  /\ UNCHANGED <<case, live, seen, conclusion, changes>>

\* The two independent documents are recorded as unavailable instead.
ReadUnavailable ==
  /\ Reading
  /\ <<case.service, next>> \in Independent
  /\ config' = Joined(config, [a \in Answered |-> "unavailable"])
  /\ next' = next + 1
  /\ UNCHANGED <<case, live, seen, conclusion, changes>>

\* The status of every finding.  Without a capture each of them is unavailable.
Status(r) ==
  IF conclusion = "failed" THEN "unavailable" ELSE Verdict(case.service, r, config)

Incomplete == {"unavailable", "unsupported"}

\* Mutant: a finding without a control does not keep the case.
TransitionIgnoringUnsupported(statuses) ==
  IF "confirmed" \in statuses THEN "validate"
  ELSE IF "unavailable" \in statuses THEN "block" ELSE "close_no_action"

\* One confirmed finding keeps the case, one that could not be decided blocks it, and
\* only a case of findings that are gone is closed.
Transition(statuses) ==
  IF "confirmed" \in statuses THEN "validate"
  ELSE IF statuses \cap Incomplete # {} THEN "block" ELSE "close_no_action"

Conclude ==
  /\ \/ conclusion = "failed"
     \/ conclusion = "reading" /\ next > Len(Documents[case.service])
  /\ conclusion' = Transition({Status(r) : r \in case.rules})
  /\ UNCHANGED <<case, live, seen, next, config, changes>>

ValidationNext == Drift \/ Read \/ ReadFails \/ ReadUnavailable \/ Conclude

ValidationSpec == ValidationInit /\ [][ValidationNext]_validation
------------------------------------------------------------------------------
(***************************************************************************)
(* Properties                                                              *)
(***************************************************************************)
\* What the resource was at one moment, as the readers would have recorded it.
At(m) == [a \in DOMAIN m |-> Recorded(a, m[a])]

Held(r, m) == Verdict(case.service, r, At(m)) = "confirmed"
Gone(r, m) == Verdict(case.service, r, At(m)) = "not_confirmed"

\* A violation that is a disjunction over several documents, which a capture can miss
\* while the resource goes from one disjunct to another.
TornDisjunctions == {"sqlserver_tde_encrypted_with_cmk"}

\* A violation that is a conjunction over several documents, which a capture can put
\* together from two moments: rules of a group that was not in use yet.
TornConjunctions == {r \in DOMAIN GroupControls : "in_use" \in Reads(GroupControls[r])}

\* cloud.py:25: a reading that was not permitted is never taken for a configuration
\* that is not there.  A case is closed only if every finding that validate has read of
\* it (case_validation.py:124) was gone at some moment of the validation, whatever could
\* not be read and whatever changed between two documents.  A finding attached after that
\* is not among case.rules: the case is closed without a judgement on it.
DismissedWereGone ==
  conclusion = "close_no_action" =>
    \A r \in case.rules \ TornDisjunctions : \E m \in seen : Gone(r, m)

\* A case is validated only on a finding that was true at some moment of the validation,
\* so a missing document never makes a violation either.
ValidatedHeld ==
  conclusion = "validate" =>
    \E r \in case.rules : r \in TornConjunctions \/ \E m \in seen : Held(r, m)

\* What the port controls are about: a group in use lets the internet reach a TCP port.
Reachable(port, m) ==
  /\ m["in_use"] = "true"
  /\ \E p \in m["ingress"] :
       /\ p.cidr \in {"0.0.0.0/0", "::/0"} /\ p.protocol \in {"tcp", "-1"}
       /\ p.protocol = "tcp" => port \in p.from..p.to

\* aws_ec2.py:120: the control of a port gives way to the control of all ports.  A
\* case that has both findings is not closed while the port can be reached throughout.
OpenPortKeepsTheCase ==
  conclusion = "close_no_action" /\ "all_ports" \in case.rules =>
    \A r \in case.rules \cap DOMAIN PortsOf : \A port \in PortsOf[r] :
      \E m \in seen : ~Reachable(port, m)
==============================================================================
