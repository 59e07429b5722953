------------------------------ MODULE CloudProofs ------------------------------
(***************************************************************************)
(* Theorems about the two components that meet a cloud others change too:  *)
(* the drivers (ChangeDrivers), for any drivers, any configurations beside *)
(* the setting and any number of changes by others, and the validation of  *)
(* a case (LiveValidation), for any cases, any permissions of groups and   *)
(* any number of changes.  They share no state.                            *)
(***************************************************************************)
EXTENDS ChangeDrivers, LiveValidation, TLAPS

------------------------------------------------------------------------------
(***************************************************************************)
(* The drivers                                                             *)
(***************************************************************************)
\* The templates of an S3 plan differ in the versioning status alone.
Scoped(p) ==
  /\ p.deployed \in [rest : Rests, status : {"none", "Suspended"}]
  /\ p.forward = [rest |-> p.deployed.rest, status |-> "Enabled"]
  /\ p.rollback = [rest |-> p.deployed.rest, status |-> "Suspended"]
  /\ p.mode = IF p.deployed.status = "none" THEN "containment" ELSE "exact"

\* A stack update is under way only from its start to the end of a wait, or on the way to
\* a blocked case, and installs a template of the plan.
UpdateBounded ==
  /\ updating # NoTemplate =>
       /\ driver = "versioning"
       /\ updating \in {plan.forward, plan.rollback}
       /\ step \in {"wait", "rollback", "rollback_wait", "failed", "over"}
       /\ step = "over" => outcome = "blocked"
  /\ outcome # "none" <=> step = "over"

\* A template that was read is still that of the stack, unless others have changed it.
TemplateIsRecent ==
  template # NoTemplate =>
    /\ driver = "versioning"
    /\ step \in {"pinned", "checkpoint", "deploy", "confirm", "rollback_confirm"}
    /\ Alone => TemplateOf(target) = template
    /\ step = "deploy" /\ "rest" \notin touched => TemplateOf(target) = template

Under == step \notin {"preflight", "pinned"} /\ outcome # "refused"
Checkpointed == Under /\ step \notin {"baseline", "checkpoint"}

\* What the preflight saw is what the plan was made for.
OriginalIsPlanned ==
  /\ Under => original \in Configs /\ (driver # "versioning" => original.status = "none")
  /\ Under /\ driver = "versioning" =>
       /\ TemplateOf(original) = plan.deployed
       /\ original.setting = IF plan.mode = "exact" THEN "Suspended" ELSE "Disabled"

\* ... and is what is checkpointed, when nobody else has touched the target.
CheckpointIsOriginal ==
  /\ Checkpointed => checkpoint \in Configs
  /\ Under /\ ~Checkpointed /\ Alone => Config(target) = original
  /\ Checkpointed /\ Alone => checkpoint = original

\* A bucket that has been versioned keeps a versioning.
VersionedStays ==
  driver = "versioning" /\ plan.mode = "exact" =>
    /\ Under /\ ~Checkpointed => target.setting # "Disabled"
    /\ Checkpointed => checkpoint.setting # "Disabled"

\* What a rollback claims is so until execute has reported it.
ClaimIsReal ==
  /\ claim # "none" => step \in {"recovery", "over"}
  /\ step = "recovery" => claim # "none"
  /\ claim = "contained" => driver = "versioning" /\ plan.mode = "containment"
  /\ claim = "restored" /\ driver = "versioning" => plan.mode = "exact"
  /\ claim = "restored" /\ Alone /\ outcome # "blocked" => Config(target) = original
  /\ claim = "contained" /\ Alone /\ outcome # "blocked" => target.setting = "Suspended"

\* What execute reports is what it verified or a rollback claims.
OutcomeIsClaimed ==
  /\ outcome = "remediated" => target.setting = ApprovedSetting
  /\ outcome = "rolled_back" => claim = "restored"
  /\ outcome = "contained" => claim = "contained"

DriversInv ==
  /\ TypeOK
  /\ UpdateBounded
  /\ TemplateIsRecent
  /\ OriginalIsPlanned
  /\ CheckpointIsOriginal
  /\ VersionedStays
  /\ ClaimIsReal
  /\ OutcomeIsClaimed
  /\ OverwritesOnlyCheckpointed
  /\ OnlyTheSettingChanges

\* What the settings of a driver are, and that it writes no others.
LEMMA SettingsOfDriver ==
  /\ driver \in Azure => Settings = Field.values /\ Field.approved \in Settings
  /\ driver = "versioning" => Settings = {"Disabled", "Enabled", "Suspended"}
  /\ driver = "file" => Settings = {"before", "after", "other"}
BY DEF Settings, Azure, Field, Network, Blob, Versionings, Contents

\* verify_s3_versioning_template_change: every template of a plan is the deployed one but
\* for the versioning status.
LEMMA PlansAreScoped ==
  ASSUME NEW p \in Plans PROVE Scoped(p)
<1>1. PICK t \in Template \X Template :
        p = PlanFor(t[1], t[2]) /\ \E b \in Template : ScopeVerified(t[1], b, t[2])
  BY DEF Plans
<1> DEFINE d == t[1]
<1>2. d \in [rest : Rests, status : {"none", "Suspended"}]
  BY <1>1 DEF ScopeVerified, Template, Statuses
<1>3. /\ p.deployed = d
      /\ p.forward = [d EXCEPT !.status = "Enabled"]
      /\ p.rollback = [[d EXCEPT !.status = "Enabled"] EXCEPT !.status = "Suspended"]
      /\ p.mode = IF d.status = "none" THEN "containment" ELSE "exact"
  BY <1>1 DEF PlanFor, Forward
<1> HIDE DEF d
<1> QED
  BY <1>2, <1>3 DEF Scoped

\* No step changes the driver or its plan, so none changes what is derived from them.
LEMMA PlanFixed ==
  ASSUME [Next]_vars
  PROVE  /\ driver' = driver /\ plan' = plan
         /\ Settings' = Settings /\ ApprovedSetting' = ApprovedSetting /\ Configs' = Configs
<1>1. driver' = driver /\ plan' = plan
  BY DEF Next, vars, Quiet, ReadAnew, Steady, Others, Settle, ReadStack, ReadTemplate,
      Preflight, Baseline, TakeCheckpoint, CloudDeploy, AzureDeploy, AwsDeploy, Wait,
      AwsConfirm, FileDeploy, Observe, Verify, AzureRollback, AwsRollback,
      AwsRollbackConfirm, FileRollback, Recover
<1> QED
  BY <1>1 DEF Settings, ApprovedSetting, Configs, Field

\* The invariant and what follows from it at once, for the steps below.
LEMMA Facts ==
  ASSUME DriversInv
  PROVE  /\ driver \in {"network", "blob", "versioning", "file"}
         /\ driver = "versioning" => Scoped(plan)
         /\ driver # "versioning" => target.status = "none"
         /\ updating # NoTemplate =>
              /\ driver = "versioning"
              /\ updating.rest = plan.deployed.rest /\ updating.rest \in Rests
              /\ updating.status \in {"Enabled", "Suspended"}
         /\ Config(target) \in Configs
         /\ driver = "versioning" => TemplateOf(target) \in Template
         /\ HasRead => AsRead \in Configs
<1>1. driver = "versioning" => Scoped(plan)
  BY PlansAreScoped DEF DriversInv, TypeOK
<1>2. target.setting \in Settings /\ target.rest \in Rests /\ target.status \in Statuses
  BY DEF DriversInv, TypeOK, Statuses
<1>3. /\ driver = "versioning" => TemplateOf(target) \in Template
      /\ HasRead => AsRead \in Configs
  BY <1>2 DEF DriversInv, TypeOK, TemplateOf, Template, HasRead, AsRead, Config, Configs
<1> QED
  BY <1>1, <1>2, <1>3, DriversAssumption
     DEF DriversInv, TypeOK, UpdateBounded, Scoped, Config, Configs

\* _replace writes the content it is given, or nothing.
LEMMA FileStep ==
  ASSUME NEW c \in Settings, NEW done, NEW failed, Replace(c, done, failed), TypeOK
  PROVE  /\ target' \in [setting : Settings, rest : Rests, scope : BOOLEAN,
                          status : {target.status}]
         /\ litter' \in BOOLEAN /\ (done \/ failed)
BY DEF Replace, TypeOK, Statuses

\* TypeOK: what a step writes to the target is a setting of its driver.
LEMMA TypeStep ==
  ASSUME DriversInv, [Next]_vars PROVE TypeOK'
<1> USE DEF DriversInv, TypeOK, Goto, Ends, Quiet, Steady, ReadAnew, run, history
<1>1. CASE Others
  <2>1. target' \in [setting : Settings, rest : Rests, scope : BOOLEAN, status : {target.status}]
    BY <1>1 DEF Others
  <2>2. touched' \subseteq {"preflight", "setting", "rest"} /\ drifts' \in Nat
    <3> DEFINE parts == {part \in {"setting", "rest"} : target'[part] # target[part]}
    <3>1. /\ touched' = touched \cup {"preflight"} \cup parts /\ drifts' = drifts + 1
      BY <1>1 DEF Others
    <3>2. parts \subseteq {"setting", "rest"}
      OBVIOUS
    <3> HIDE DEF parts
    <3>3. touched \subseteq {"preflight", "setting", "rest"} /\ drifts \in Nat
      OBVIOUS
    <3> QED
      BY <3>1, <3>2, <3>3
  <2>3. UNCHANGED <<driver, plan, updating, settled, litter, template, run, original, refused>>
    BY <1>1 DEF Others
  <2> QED
    BY <2>1, <2>2, <2>3, PlanFixed
<1>2. CASE Settle
  <2>1. updating.status \in Settings /\ updating.rest \in Rests /\ driver = "versioning"
    BY <1>2, Facts, SettingsOfDriver DEF Settle
  <2>2. {target.setting, "Suspended"} \cup ({target.status} \ {"none"}) \subseteq Settings
    BY <2>1, SettingsOfDriver DEF Statuses
  <2>3. target' \in [setting : Settings, rest : Rests, scope : BOOLEAN, status : Statuses]
    BY <1>2, <2>1, <2>2, Facts DEF Settle, Statuses
  <2> QED
    BY <1>2, <2>1, <2>3, PlanFixed DEF Settle
<1>3. CASE Preflight
  <2>1. /\ original' = original \/ (HasRead /\ original' = AsRead)
        /\ touched' \in {touched, {}} /\ template' = NoTemplate
        /\ step' \in {"baseline", "over"} /\ outcome' \in {outcome, "refused"}
        /\ UNCHANGED <<target, updating, settled, litter, checkpoint, claim, refused, drifts>>
    <3> HIDE DEF DriversInv, TypeOK
    <3>1. PreflightHolds => HasRead
      BY DEF PreflightHolds, AwsPreflight, HasRead, Azure
    <3> QED
      BY <1>3, <3>1 DEF Preflight
  <2>2. original' \in Configs \cup {NoConfig}
    BY <2>1, Facts
  <2> QED
    BY <2>1, <2>2, PlanFixed
<1>4. CASE Baseline
  BY <1>4, PlanFixed DEF Baseline
<1>5. CASE TakeCheckpoint
  BY <1>5, Facts, PlanFixed DEF TakeCheckpoint, AzureCheckpoint
<1>6. CASE CloudDeploy
  <2> HIDE DEF DriversInv, TypeOK
  <2>1. /\ step' \in {"update", "rollback"}
        /\ UNCHANGED <<target, updating, settled, litter, checkpoint, claim, outcome, original,
                      drifts>>
        /\ template' = NoTemplate
    BY <1>6 DEF CloudDeploy, ReadAnew, Steady, Goto
  <2>2. touched' \subseteq touched /\ refused' \in BOOLEAN
    BY <1>6 DEF CloudDeploy, DriversInv, TypeOK
  <2> QED
    BY <2>1, <2>2, PlanFixed DEF DriversInv, TypeOK
<1>7. CASE AzureDeploy
  <2>1. Field.approved \in Settings
    BY <1>7, SettingsOfDriver DEF AzureDeploy
  <2> QED
    BY <1>7, <2>1, PlanFixed DEF AzureDeploy, AzureUpdate
<1>8. CASE AwsDeploy
  BY <1>8, Facts, PlanFixed DEF AwsDeploy, StackUpdate, Scoped, Template, Statuses
<1>9. CASE Wait
  BY <1>9, PlanFixed DEF Wait, Waited
<1>10. CASE AwsConfirm
  BY <1>10, PlanFixed DEF AwsConfirm
<1>11. CASE FileDeploy
  <2>1. "after" \in Settings
    BY <1>11, SettingsOfDriver DEF FileDeploy
  <2> QED
    BY <1>11, <2>1, PlanFixed, FileStep DEF FileDeploy
<1>12. CASE Observe
  BY <1>12, PlanFixed DEF Observe
<1>13. CASE Verify
  BY <1>13, PlanFixed DEF Verify
<1>14. CASE AzureRollback
  <2>1. checkpoint.setting \in Settings
    BY <1>14 DEF AzureRollback, CheckpointIsOriginal, Checkpointed, Under, Configs, UpdateBounded
  <2> QED
    BY <1>14, <2>1, PlanFixed DEF AzureRollback, AzureUpdate, Claims
<1>15. CASE AwsRollback
  BY <1>15, Facts, PlanFixed DEF AwsRollback, StackUpdate, Scoped, Template, Statuses
<1>16. CASE AwsRollbackConfirm
  BY <1>16, PlanFixed DEF AwsRollbackConfirm, Claims, AwsClaim
<1>17. CASE FileRollback
  <2>1. checkpoint.setting \in Settings
    BY <1>17 DEF FileRollback, CheckpointIsOriginal, Checkpointed, Under, Configs, UpdateBounded
  <2> QED
    BY <1>17, <2>1, PlanFixed, FileStep DEF FileRollback, Claims
<1>18. CASE Recover
  BY <1>18, PlanFixed DEF Recover
<1>19. CASE ReadStack
  BY <1>19, PlanFixed DEF ReadStack
<1>20. CASE ReadTemplate
  BY <1>20, Facts, PlanFixed DEF ReadTemplate
<1>21. CASE UNCHANGED vars
  BY <1>21, PlanFixed DEF vars
<1> QED
  BY <1>1, <1>2, <1>3, <1>4, <1>5, <1>6, <1>7, <1>8, <1>9, <1>10, <1>11, <1>12, <1>13,
      <1>14, <1>15, <1>16, <1>17, <1>18, <1>19, <1>20, <1>21 DEF Next

\* The other parts of the invariant, action by action.
LEMMA StepDrivers ==
  ASSUME DriversInv, [Next]_vars PROVE DriversInv'
<1> USE Facts, PlanFixed DEF DriversInv, Goto, Ends, Quiet, Steady, ReadAnew, run, history,
        TypeOK, UpdateBounded, TemplateIsRecent,
        OriginalIsPlanned, CheckpointIsOriginal, VersionedStays, ClaimIsReal,
        OutcomeIsClaimed, OverwritesOnlyCheckpointed, OnlyTheSettingChanges, Under,
        Checkpointed, Alone, Config, TemplateOf
<1> TypeOK'
  BY TypeStep
<1>1. CASE Others
  BY <1>1 DEF Others
<1>2. CASE Settle
  <2>1. /\ updating.rest = plan.deployed.rest /\ driver = "versioning"
        /\ target'.rest \in {target.rest, updating.rest}
    BY <1>2 DEF Settle
  <2>2. Under => original.rest = plan.deployed.rest
    BY <2>1
  <2>3. OnlyTheSettingChanges'
    BY <1>2, <2>1, <2>2 DEF Settle
  <2> QED
    BY <1>2, <2>3 DEF Settle
<1>3. CASE Preflight
  <2>1. CASE /\ PreflightHolds /\ Goto("baseline") /\ original' = AsRead
             /\ touched' = IF driver = "versioning" THEN touched ELSE {}
    <3>1. driver = "versioning" =>
            /\ HasRead /\ template = plan.deployed
            /\ target.setting = IF plan.mode = "exact" THEN "Suspended" ELSE "Disabled"
      BY <2>1 DEF PreflightHolds, AwsPreflight, Azure
    <3>2. OriginalIsPlanned'
      <4>1. original' \in Configs /\ HasRead
        BY <2>1, <3>1 DEF HasRead
      <4>2. driver # "versioning" => original'.status = "none"
        BY <2>1 DEF AsRead
      <4>3. ASSUME driver = "versioning"
            PROVE  /\ TemplateOf(original') = template
                   /\ original'.setting = target.setting
        <5>1. template \in Template
          BY <3>1, <4>3 DEF HasRead
        <5>2. template = [rest |-> template.rest, status |-> template.status]
          BY <5>1 DEF Template
        <5>3. original' = [setting |-> target.setting, rest |-> template.rest,
                           status |-> template.status]
          BY <2>1, <4>3 DEF AsRead
        <5> QED
          BY <5>2, <5>3
      <4> QED
        BY <2>1, <3>1, <4>1, <4>2, <4>3
    <3>3. (CheckpointIsOriginal /\ VersionedStays)'
      BY <1>3, <2>1, <3>1 DEF Preflight, AsRead, HasRead
    <3>4. OnlyTheSettingChanges'
      BY <1>3, <2>1, <3>1 DEF Preflight, AsRead, HasRead
    <3> QED
      BY <1>3, <2>1, <3>2, <3>3, <3>4 DEF Preflight
  <2>2. CASE Ends("refused") /\ UNCHANGED <<original, touched>>
    BY <1>3, <2>2 DEF Preflight
  <2> QED
    BY <1>3, <2>1, <2>2 DEF Preflight
<1>4. CASE Baseline
  BY <1>4 DEF Baseline
<1>5. CASE TakeCheckpoint
  BY <1>5 DEF TakeCheckpoint, AzureCheckpoint, AsRead, HasRead
<1>6. CASE CloudDeploy
  BY <1>6 DEF CloudDeploy, AsCheckpointed, AsRead, HasRead
<1>7. CASE AzureDeploy
  BY <1>7 DEF AzureDeploy, AzureUpdate
<1>8. CASE AwsDeploy
  BY <1>8 DEF AwsDeploy, StackUpdate
<1>9. CASE Wait
  BY <1>9 DEF Wait, Waited
<1>10. CASE AwsConfirm
  BY <1>10 DEF AwsConfirm
<1>11. CASE FileDeploy
  BY <1>11 DEF FileDeploy, Replace
<1>12. CASE Observe
  BY <1>12 DEF Observe
<1>13. CASE Verify
  BY <1>13 DEF Verify, ProbesPass, AzureProbe, AwsProbe, FileProbe, ApprovedSetting, Azure
<1>14. CASE AzureRollback
  <2>1. ClaimIsReal'
    BY <1>14 DEF AzureRollback, AzureUpdate, Claims, Configs
  <2> QED
    BY <1>14, <2>1 DEF AzureRollback, AzureUpdate, Claims, Azure
<1>15. CASE AwsRollback
  BY <1>15 DEF AwsRollback, StackUpdate
<1>16. CASE AwsRollbackConfirm
  <2>1. ClaimIsReal'
    BY <1>16 DEF AwsRollbackConfirm, AwsClaim, Claims, Configs
  <2> QED
    BY <1>16, <2>1 DEF AwsRollbackConfirm, AwsClaim, Claims, Azure
<1>17. CASE FileRollback
  <2>1. ClaimIsReal'
    BY <1>17 DEF FileRollback, Replace, Claims, Configs
  <2> QED
    BY <1>17, <2>1 DEF FileRollback, Replace, Claims, Azure
<1>18. CASE Recover
  BY <1>18 DEF Recover
<1>19. CASE ReadStack
  BY <1>19 DEF ReadStack
<1>20. CASE ReadTemplate
  BY <1>20 DEF ReadTemplate
<1> QED
  BY <1>1, <1>2, <1>3, <1>4, <1>5, <1>6, <1>7, <1>8, <1>9, <1>10, <1>11, <1>12, <1>13,
      <1>14, <1>15, <1>16, <1>17, <1>18, <1>19, <1>20 DEF Next, vars

\* The run begins with nothing claimed, changed or kept.
LEMMA InitDrivers ==
  ASSUME Init PROVE DriversInv
<1>1. TypeOK
  BY DEF Init, TypeOK
<1>2. /\ UpdateBounded /\ TemplateIsRecent /\ OriginalIsPlanned
      /\ CheckpointIsOriginal /\ VersionedStays
  BY DEF Init, UpdateBounded, TemplateIsRecent, OriginalIsPlanned, CheckpointIsOriginal,
     VersionedStays, Under, Checkpointed
<1>3. ClaimIsReal /\ OutcomeIsClaimed /\ OverwritesOnlyCheckpointed /\ OnlyTheSettingChanges
  BY DEF Init, ClaimIsReal, OutcomeIsClaimed, OverwritesOnlyCheckpointed, OnlyTheSettingChanges
<1> QED
  BY <1>1, <1>2, <1>3 DEF DriversInv

\* No step of a driver, of those it works on or of others breaks it.
LEMMA DriversInvariance == Spec => []DriversInv
<1>1. DriversInv /\ [Next]_vars => DriversInv'
  BY StepDrivers
<1> QED
  BY InitDrivers, <1>1, PTL DEF Spec

------------------------------------------------------------------------------
\* A target keeps a configuration of its driver, whatever fails and drifts.
THEOREM TypeCorrect == Spec => []TypeOK
<1>1. DriversInv => TypeOK
  BY DEF DriversInv
<1> QED
  BY DriversInvariance, <1>1, PTL

\* deploy compares before it updates: each part of what it overwrites is as its checkpoint
\* has it, or was changed after deploy had read that part; the template of a stack is read
\* before the versioning of its bucket.
THEOREM Overwrites == Spec => []OverwritesOnlyCheckpointed
<1>1. DriversInv => OverwritesOnlyCheckpointed
  BY DEF DriversInv
<1> QED
  BY DriversInvariance, <1>1, PTL

\* README.md:330: no driver, and neither template of an S3 plan, changes anything but the
\* setting it was approved for.
THEOREM Scope == Spec => []OnlyTheSettingChanges
<1>1. DriversInv => OnlyTheSettingChanges
  BY DEF DriversInv
<1> QED
  BY DriversInvariance, <1>1, PTL

\* What execute says of a target at its end is so, however commands fail and stack updates
\* end; a bucket that was never versioned is never reported as restored.
THEOREM Outcome == Spec => []OutcomeIsReal
<1>1. DriversInv => OutcomeIsReal
  <2> SUFFICES ASSUME DriversInv PROVE OutcomeIsReal
    OBVIOUS
  <2>1. Alone /\ outcome = "rolled_back" => Config(target) = original
    BY DEF DriversInv, OutcomeIsClaimed, ClaimIsReal
  <2>2. outcome = "contained" => original.setting = "Disabled"
    BY DEF DriversInv, OutcomeIsClaimed, ClaimIsReal, OriginalIsPlanned, Under, UpdateBounded
  <2>3. Alone /\ outcome = "contained" => target.setting = "Suspended"
    BY DEF DriversInv, OutcomeIsClaimed, ClaimIsReal
  <2>4. driver = "versioning" /\ outcome = "rolled_back" =>
          "Disabled" \notin {original.setting, checkpoint.setting}
    <3>1. driver = "versioning" /\ outcome = "rolled_back" =>
            plan.mode = "exact" /\ step = "over"
      BY DEF DriversInv, OutcomeIsClaimed, ClaimIsReal, UpdateBounded
    <3> QED
      BY <3>1 DEF DriversInv, OriginalIsPlanned, VersionedStays, Under, Checkpointed
  <2> QED
    BY <2>1, <2>2, <2>3, <2>4 DEF OutcomeIsReal, DriversInv, OutcomeIsClaimed
<1> QED
  BY DriversInvariance, <1>1, PTL

------------------------------------------------------------------------------
(***************************************************************************)
(* The validation: its documents are captured at several moments, and each *)
(* of them is kept as what the resource was at one of them, or as          *)
(* unavailable (Captured).  Which controls depend on one moment alone is a *)
(* fact about the registered controls, which the first lemmas go through.  *)
(***************************************************************************)
\* What is known of a resource.
IsResource(m) ==
  /\ DOMAIN m = Relevant(case.service, case.rules)
  /\ \A a \in DOMAIN m : m[a] \in Values(case.service, a)

SeenTyped ==
  /\ live \in seen
  /\ \A m \in seen : IsResource(m) /\ \A a \in Fixed \cap DOMAIN m : m[a] = live[a]

\* The aspects of the resource that document i tells.
Told(i) == DOMAIN Documents[case.service][i] \cap DOMAIN live

\* Every document read so far tells what the resource was at one moment, or was recorded
\* as unavailable.
Captured ==
  /\ next \in 1..(Len(Documents[case.service]) + 1)
  /\ DOMAIN config = UNION {Told(i) : i \in 1..(next - 1)}
  /\ \A i \in 1..(next - 1) :
       \/ \E m \in seen : \A a \in Told(i) : config[a] = Recorded(a, m[a])
       \/ <<case.service, i>> \in Independent /\ \A a \in Told(i) : config[a] = "unavailable"

Complete == next = Len(Documents[case.service]) + 1

\* The transition rests on the verdicts of a complete capture.
Judged ==
  /\ conclusion = "close_no_action" => \A r \in case.rules :
       Complete /\ Verdict(case.service, r, config) = "not_confirmed"
  /\ conclusion = "validate" => \E r \in case.rules :
       Complete /\ Verdict(case.service, r, config) = "confirmed"

ValidationInv ==
  /\ case \in Cases
  /\ SeenTyped
  /\ Captured
  /\ conclusion \in {"reading", "failed", "validate", "block", "close_no_action"}
  /\ Judged

\* A control reads one document, beside what a resource is given once.
OneDocument(docs, c) ==
  /\ \E i \in DOMAIN docs : Reads(c) \subseteq DOMAIN docs[i] \cup Fixed
  /\ \A a \in Reads(c) : \E i \in DOMAIN docs : a \in DOMAIN docs[i]

------------------------------------------------------------------------------
(***************************************************************************)
(* The registered controls and documents                                   *)
(***************************************************************************)
\* No two documents of a service tell the same aspect.
LEMMA DocumentsApart ==
  ASSUME NEW s \in Services
  PROVE  /\ Len(Documents[s]) \in Nat /\ DOMAIN Documents[s] = 1..Len(Documents[s])
         /\ \A i, j \in DOMAIN Documents[s] :
              i # j => DOMAIN Documents[s][i] \cap DOMAIN Documents[s][j] = {}
<1> DEFINE P(d) == /\ Len(d) \in Nat /\ DOMAIN d = 1..Len(d)
                   /\ \A i, j \in DOMAIN d : i # j => DOMAIN d[i] \cap DOMAIN d[j] = {}
<1>1. P(S3Documents)
  BY DEF S3Documents
<1>2. P(RdsDocuments) /\ P(VolumeDocuments) /\ P(GroupDocuments)
  BY DEF RdsDocuments, VolumeDocuments, GroupDocuments
<1>3. P(StorageDocuments) /\ P(SqlDocuments) /\ P(RegistryDocuments) /\ P(OpenAIDocuments)
  BY DEF StorageDocuments, AccountDocument, FileDocument, SqlDocuments, RegistryDocuments,
         OpenAIDocuments
<1>4. P(CosmosDocuments) /\ P(VaultDocuments) /\ P(SubnetDocuments) /\ P(SiteDocuments)
  BY DEF CosmosDocuments, VaultDocuments, SubnetDocuments, SiteDocuments
<1> HIDE DEF P
<1>5. Documents[s] \in
        {S3Documents, RdsDocuments, VolumeDocuments, GroupDocuments, StorageDocuments,
         SqlDocuments, RegistryDocuments, OpenAIDocuments, CosmosDocuments, VaultDocuments,
         SubnetDocuments, SiteDocuments}
  BY DEF Services, Documents
<1>6. P(Documents[s])
  BY <1>1, <1>2, <1>3, <1>4, <1>5
<1> QED
  BY <1>6 DEF P

\* The file service and the diagnostic settings tell neither what is given once nor the
\* permissions of a group.
LEMMA IndependentTells ==
  ASSUME NEW s \in Services, NEW i \in DOMAIN Documents[s], <<s, i>> \in Independent
  PROVE  /\ DOMAIN Documents[s][i] \cap (Fixed \cup Lists) = {}
         /\ s = "storage" => DOMAIN Documents[s][i] = {"smb_encryption"}
         /\ s \in {"storage", "vault"}
<1>1. CASE s = "storage" /\ i = 3
  <2>1. Documents[s][i] = FileDocument
    BY <1>1 DEF Documents, StorageDocuments
  <2> QED
    BY <1>1, <2>1 DEF FileDocument, Fixed, Lists
<1>2. CASE s = "vault" /\ i = 2
  <2>1. Documents[s][i] = [audit_log |-> AuditLogs]
    BY <1>2 DEF Documents, VaultDocuments
  <2> QED
    BY <1>2, <2>1 DEF Fixed, Lists
<1> QED
  BY <1>1, <1>2 DEF Independent

\* A control that asks of nothing beside a document reads that document.
LEMMA InDocument ==
  ASSUME NEW docs, NEW c, NEW i \in DOMAIN docs, Reads(c) \subseteq DOMAIN docs[i]
  PROVE  OneDocument(docs, c)
BY DEF OneDocument

\* Each control of a bucket reads one document.
LEMMA S3Packs ==
  ASSUME NEW r \in DOMAIN S3Controls
  PROVE  OneDocument(S3Documents, S3Controls[r]) /\ S3Controls[r].strict
<1> USE DEF S3Controls, Safe, Control, Reads, S3Documents, OneDocument
<1>1. CASE r = "s3_bucket_object_versioning"
  BY <1>1
<1>2. CASE r = "s3_bucket_kms_encryption"
  BY <1>2
<1>3. CASE r = "s3_bucket_server_access_logging_enabled"
  BY <1>3
<1>4. CASE r = "s3_bucket_event_notifications_enabled"
  BY <1>4
<1>5. CASE r = "s3_bucket_lifecycle_enabled"
  BY <1>5
<1>6. CASE r = "s3_bucket_object_lock"
  BY <1>6
<1>7. CASE r = "s3_bucket_no_mfa_delete"
  BY <1>7
<1> QED
  BY <1>1, <1>2, <1>3, <1>4, <1>5, <1>6, <1>7

\* A control of a storage account is lenient only about the account and blob documents.
LEMMA StoragePacks ==
  ASSUME NEW r \in DOMAIN Controls["storage"]
  PROVE  LET c == Controls["storage"][r] IN
           /\ OneDocument(StorageDocuments, c)
           /\ "smb_encryption" \in Reads(c) => c.strict
<1> USE DEF AccountControls, StorageAccessControls, Safe, Lenient, Control, Reads,
            StorageDocuments, AccountDocument, FileDocument, OneDocument
<1>1. CASE r \in DOMAIN AccountControls
  <2>1. Controls["storage"][r] = AccountControls[r]
    BY <1>1 DEF Controls, Joined
  <2>2. CASE r = "storage_blob_versioning_is_enabled"
    BY <1>1, <2>1, <2>2
  <2>3. CASE r # "storage_blob_versioning_is_enabled"
    <3>1. Reads(AccountControls[r]) \subseteq DOMAIN StorageDocuments[1]
      BY <1>1, <2>3
    <3>2. "smb_encryption" \notin Reads(AccountControls[r])
      BY <1>1, <2>3
    <3>3. 1 \in DOMAIN StorageDocuments
      OBVIOUS
    <3>4. OneDocument(StorageDocuments, AccountControls[r])
      BY <3>1, <3>3, InDocument
    <3> HIDE DEF OneDocument, AccountControls, Reads
    <3> QED
      BY <2>1, <3>2, <3>4
  <2> QED
    BY <2>2, <2>3
<1>2. CASE r \in DOMAIN StorageAccessControls
  <2>1. Controls["storage"][r] = StorageAccessControls[r]
    BY <1>2 DEF Controls, Joined
  <2>2. StorageAccessControls[r].strict
    BY <1>2
  <2>3. OneDocument(StorageDocuments, StorageAccessControls[r])
    <3>1. CASE r = "storage_ensure_soft_delete_is_enabled"
      BY <1>2, <3>1
    <3>2. CASE r = "storage_smb_channel_encryption_with_secure_algorithm"
      BY <1>2, <3>2
    <3>3. CASE ~(r \in {"storage_ensure_soft_delete_is_enabled",
                        "storage_smb_channel_encryption_with_secure_algorithm"})
      <4>1. Reads(StorageAccessControls[r]) \subseteq DOMAIN StorageDocuments[1]
        BY <1>2, <3>3
      <4> QED
        BY <4>1
    <3> QED
      BY <3>1, <3>2, <3>3
  <2> QED
    BY <2>1, <2>2, <2>3
<1> QED
  BY <1>1, <1>2 DEF Controls, Joined

\* The same for the other services whose controls read one document.
LEMMA OtherPacks ==
  ASSUME NEW s \in Services \ {"s3", "group", "storage", "sql"},
         NEW r \in DOMAIN Controls[s]
  PROVE  OneDocument(Documents[s], Controls[s][r]) /\ Controls[s][r].strict
<1> USE DEF Safe, Control, Reads, OneDocument, Documents, Controls
<1>1. CASE s = "rds"
  BY <1>1 DEF RdsControls, RdsDocuments
<1>2. CASE s = "volume"
  BY <1>2 DEF VolumeControls, VolumeDocuments
<1>3. CASE s = "registry"
  BY <1>3 DEF RegistryControls, RegistryDocuments
<1>4. CASE s = "openai"
  BY <1>4 DEF OpenAIControls, OpenAIDocuments
<1>5. CASE s = "cosmos"
  BY <1>5 DEF CosmosControls, CosmosDocuments
<1>6. CASE s = "vault"
  BY <1>6 DEF VaultControls, VaultDocuments
<1>7. CASE s = "subnet"
  BY <1>7 DEF SubnetControls, SubnetDocuments
<1>8. CASE s = "site"
  BY <1>8 DEF SiteControls, SiteDocuments, WebApp, FunctionApp, Fixed
<1> QED
  BY <1>1, <1>2, <1>3, <1>4, <1>5, <1>6, <1>7, <1>8 DEF Services

\* A control of a group reads the group and, if it asks for it, its use.
LEMMA GroupPacks ==
  ASSUME NEW r \in DOMAIN GroupControls
  PROVE  LET c == GroupControls[r] IN
           /\ c.strict
           /\ Reads(c) \subseteq DOMAIN GroupDocuments[1] \cup {"in_use"}
           /\ DOMAIN c.safe \subseteq DOMAIN GroupDocuments[1]
BY DEF GroupControls, RuleControls, Joined, PortControl, Safe, Control, Reads, GroupDocuments

------------------------------------------------------------------------------
(***************************************************************************)
(* What was captured                                                       *)
(***************************************************************************)
\* A resource has a value for each aspect its findings depend on.
LEMMA ResourceTyped ==
  ASSUME NEW f \in Resources(case.service, case.rules)
  PROVE  IsResource(f)
<1> DEFINE A == Relevant(case.service, case.rules)
<1>1. PICK g \in Described(case.service, A \ Lists),
           h \in Described(case.service, A \cap Lists) : f = Joined(g, h)
  BY DEF Resources
<1>2. /\ DOMAIN g = A \ Lists /\ DOMAIN h = A \cap Lists
      /\ \A a \in A \ Lists : g[a] \in Values(case.service, a)
      /\ \A a \in A \cap Lists : h[a] \in Values(case.service, a)
  BY <1>1 DEF Described
<1>3. /\ DOMAIN f = A
      /\ \A a \in A : f[a] = IF a \in Lists THEN h[a] ELSE g[a]
  BY <1>1, <1>2 DEF Joined
<1> QED
  BY <1>2, <1>3 DEF IsResource

\* Before the first document nothing is captured and nothing concluded.
LEMMA InitValidation == ValidationInit => ValidationInv
<1> SUFFICES ASSUME ValidationInit PROVE ValidationInv
  OBVIOUS
<1>1. case.service \in Services
  BY CasesAssumption DEF ValidationInit
<1>2. IsResource(live)
  BY ResourceTyped DEF ValidationInit
<1>3. Captured
  BY <1>1, DocumentsApart DEF ValidationInit, Captured
<1> QED
  BY <1>2, <1>3 DEF ValidationInit, ValidationInv, SeenTyped, Judged

\* A change keeps what is given once, and adds to what the resource was.
LEMMA DriftValidation == ASSUME ValidationInv, Drift PROVE ValidationInv'
<1>0. PICK a \in DOMAIN live \ Fixed : \E x \in Values(case.service, a) :
        live' = [live EXCEPT ![a] = x]
  BY DEF Drift
<1>1. PICK x \in Values(case.service, a) : live' = [live EXCEPT ![a] = x]
  BY <1>0
<1>2. seen' = seen \cup {live'} /\ UNCHANGED <<case, next, config, conclusion>>
  BY DEF Drift
<1>3. IsResource(live) /\ SeenTyped
  BY DEF ValidationInv, SeenTyped
<1>4. /\ DOMAIN live' = DOMAIN live
      /\ \A b \in DOMAIN live : live'[b] = IF b = a THEN x ELSE live[b]
  BY <1>1 DEF IsResource
<1>5. IsResource(live)'
  BY <1>2, <1>3, <1>4 DEF IsResource
<1>6. SeenTyped'
  <2>1. \A b \in Fixed \cap DOMAIN live : live'[b] = live[b]
    BY <1>4
  <2>2. ASSUME NEW m \in seen
        PROVE  IsResource(m)' /\ \A b \in Fixed \cap DOMAIN m : m[b] = live'[b]
    BY <1>2, <1>3, <1>4, <2>1 DEF SeenTyped, IsResource
  <2> QED
    BY <1>2, <1>5, <2>2 DEF SeenTyped
<1>7. Captured'
  BY <1>2, <1>4 DEF ValidationInv, Captured, Told
<1> QED
  BY <1>2, <1>6, <1>7 DEF ValidationInv, Judged, Complete

\* A document that was not read yet tells nothing that another one did.
LEMMA NextDocument ==
  ASSUME ValidationInv, Reading, NEW new, DOMAIN new = Told(next),
         config' = Joined(config, new), next' = next + 1, UNCHANGED <<case, live, seen>>,
         \/ \A a \in Told(next) : new[a] = Recorded(a, live[a])
         \/ /\ <<case.service, next>> \in Independent
            /\ \A a \in Told(next) : new[a] = "unavailable"
  PROVE  Captured'
<1> DEFINE docs == Documents[case.service]
<1>1. case.service \in Services
  BY CasesAssumption DEF ValidationInv
<1>2. /\ Len(docs) \in Nat /\ DOMAIN docs = 1..Len(docs)
      /\ \A i, j \in DOMAIN docs : i # j => DOMAIN docs[i] \cap DOMAIN docs[j] = {}
  BY <1>1, DocumentsApart
<1>3. next \in 1..Len(docs)
  BY <1>2 DEF ValidationInv, Captured, Reading
<1>4. \A i \in 1..(next - 1) : Told(i) \cap Told(next) = {}
  BY <1>2, <1>3 DEF Told
<1>5. \A i : Told(i)' = Told(i)
  BY DEF Told
<1>6. 1..(next' - 1) = 1..(next - 1) \cup {next} /\ next' \in 1..(Len(docs) + 1)
  BY <1>2, <1>3
<1>7. DOMAIN config' = DOMAIN config \cup Told(next)
  BY DEF Joined
<1>8. DOMAIN config' = UNION {Told(i) : i \in 1..(next' - 1)}
  BY <1>6, <1>7 DEF ValidationInv, Captured
<1>9. \A i \in 1..(next - 1) : \A a \in Told(i) : config'[a] = config[a]
  BY DEF ValidationInv, Captured, Joined
<1>10. \A a \in Told(next) : config'[a] = new[a]
  BY <1>4 DEF ValidationInv, Captured, Joined
<1>11. live \in seen
  BY DEF ValidationInv, SeenTyped
<1>12. ASSUME NEW i \in 1..(next' - 1)
       PROVE  \/ \E m \in seen' : \A a \in Told(i) : config'[a] = Recorded(a, m[a])
              \/ /\ <<case.service, i>> \in Independent
                 /\ \A a \in Told(i) : config'[a] = "unavailable"
  <2>1. CASE i = next
    BY <1>10, <1>11, <2>1
  <2>2. CASE i \in 1..(next - 1)
    BY <1>9, <2>2 DEF ValidationInv, Captured
  <2> QED
    BY <1>6, <2>1, <2>2
<1> QED
  BY <1>5, <1>6, <1>8, <1>12 DEF Captured

\* A document that is read tells what the resource is now.
LEMMA ReadValidation == ASSUME ValidationInv, Read PROVE ValidationInv'
<1>1. /\ Reading /\ next' = next + 1 /\ UNCHANGED <<case, live, seen, conclusion>>
      /\ config' = Joined(config, [a \in Told(next) |-> Recorded(a, live[a])])
  BY DEF Read, Answered, Told
<1>2. Captured'
  BY <1>1, NextDocument
<1> QED
  BY <1>1, <1>2 DEF ValidationInv, Judged, SeenTyped, IsResource, Reading

\* One of the two independent documents, not to be had, is recorded as that.
LEMMA ReadUnavailableValidation ==
  ASSUME ValidationInv, ReadUnavailable PROVE ValidationInv'
<1>1. /\ Reading /\ next' = next + 1 /\ UNCHANGED <<case, live, seen, conclusion>>
      /\ <<case.service, next>> \in Independent
      /\ config' = Joined(config, [a \in Told(next) |-> "unavailable"])
  BY DEF ReadUnavailable, Answered, Told
<1>2. Captured'
  BY <1>1, NextDocument
<1> QED
  BY <1>1, <1>2 DEF ValidationInv, Judged, SeenTyped, IsResource, Reading

\* A capture that ends early leaves what was read.
LEMMA ReadFailsValidation == ASSUME ValidationInv, ReadFails PROVE ValidationInv'
BY DEF ReadFails, ValidationInv, Judged, SeenTyped, IsResource, Captured, Told

\* The transition follows from the verdicts on what was captured.
LEMMA ConcludeValidation == ASSUME ValidationInv, Conclude PROVE ValidationInv'
<1> DEFINE S == {Status(r) : r \in case.rules}
<1>1. /\ conclusion' = Transition(S) /\ UNCHANGED <<case, live, seen, next, config>>
      /\ \/ conclusion = "failed"
         \/ conclusion = "reading" /\ next > Len(Documents[case.service])
  BY Zenon DEF Conclude
<1>2. case.service \in Services
  BY CasesAssumption DEF ValidationInv
<1>3. conclusion # "failed" => Complete
  BY <1>1, <1>2, DocumentsApart DEF ValidationInv, Captured, Complete
<1>4. \A r \in case.rules :
        /\ Status(r) \in {"confirmed", "unavailable", "unsupported", "not_confirmed"}
        /\ Status(r) \notin Incomplete =>
             Complete /\ Verdict(case.service, r, config) = Status(r)
  BY <1>1, <1>3 DEF Status, Verdict, Incomplete
<1>5. /\ conclusion' \in {"validate", "block", "close_no_action"}
      /\ conclusion' = "validate" => "confirmed" \in S
      /\ conclusion' = "close_no_action" => "confirmed" \notin S /\ S \cap Incomplete = {}
  BY <1>1 DEF Transition
<1>6. Judged'
  <2>1. ASSUME conclusion' = "close_no_action", NEW r \in case.rules
        PROVE  Complete /\ Verdict(case.service, r, config) = "not_confirmed"
    BY <1>4, <1>5, <2>1 DEF Incomplete
  <2>2. ASSUME conclusion' = "validate"
        PROVE  \E r \in case.rules :
                 Complete /\ Verdict(case.service, r, config) = "confirmed"
    BY <1>4, <1>5, <2>2 DEF Incomplete
  <2> QED
    BY <1>1, <2>1, <2>2 DEF Judged, Complete
<1> QED
  BY <1>1, <1>5, <1>6 DEF ValidationInv, SeenTyped, IsResource, Captured, Told

\* Every step of the validation, and of those who change the resource, keeps it.
LEMMA NextValidation == ASSUME ValidationInv, [ValidationNext]_validation PROVE ValidationInv'
<1>1. CASE UNCHANGED validation
  BY <1>1 DEF validation, ValidationInv, SeenTyped, IsResource, Captured, Told, Judged,
              Complete
<1> QED
  BY <1>1, DriftValidation, ReadValidation, ReadFailsValidation, ReadUnavailableValidation,
     ConcludeValidation DEF ValidationNext

\* What a capture says at the end of the reading rests on what the resource was.
THEOREM ValidationInvariance == ValidationSpec => []ValidationInv
  BY InitValidation, NextValidation, PTL DEF ValidationSpec

------------------------------------------------------------------------------
(***************************************************************************)
(* What the transition says of the resource                                *)
(***************************************************************************)
\* A verdict depends on what the control reads.
LEMMA VerdictReads ==
  ASSUME NEW s, NEW r \in DOMAIN Controls[s], NEW f, NEW g,
         \A a \in Reads(Controls[s][r]) : f[a] = g[a]
  PROVE  Verdict(s, r, f) = Verdict(s, r, g)
<1> DEFINE c == Controls[s][r]
<1>1. /\ Applies(c, f) <=> Applies(c, g)
      /\ Satisfied(c, f) <=> Satisfied(c, g)
      /\ (\E a \in Reads(c) : Unreadable(a, f[a])) <=> (\E a \in Reads(c) : Unreadable(a, g[a]))
  BY DEF Applies, Satisfied, Reads
<1> QED
  BY <1>1 DEF Verdict

\* All documents of a complete capture are as Captured has them, and tell every aspect of a
\* finding's control.
LEMMA AllTold ==
  ASSUME ValidationInv, Complete, NEW i \in DOMAIN Documents[case.service]
  PROVE  /\ \/ \E m \in seen : \A a \in Told(i) : config[a] = At(m)[a]
            \/ /\ <<case.service, i>> \in Independent
               /\ \A a \in Told(i) : config[a] = "unavailable"
         /\ \A r \in case.rules \cap DOMAIN Controls[case.service] :
              Reads(Controls[case.service][r]) \cap DOMAIN Documents[case.service][i]
                \subseteq Told(i)
<1>1. case.service \in Services
  BY CasesAssumption DEF ValidationInv
<1>2. i \in 1..(next - 1)
  BY <1>1, DocumentsApart DEF Complete
<1>3. \A m \in seen : DOMAIN m = DOMAIN live
  BY DEF ValidationInv, SeenTyped, IsResource
<1>4. \A m \in seen : \A a \in Told(i) : At(m)[a] = Recorded(a, m[a])
  BY <1>3 DEF Told, At
<1>5. DOMAIN live = Relevant(case.service, case.rules)
  BY DEF ValidationInv, SeenTyped, IsResource
<1>6. \A r \in case.rules \cap DOMAIN Controls[case.service] :
        Reads(Controls[case.service][r]) \subseteq DOMAIN live
  BY <1>5 DEF Relevant
<1> QED
  BY <1>2, <1>4, <1>6 DEF ValidationInv, Captured, Told

\* A verdict on one document was the verdict at one moment.
LEMMA OneMoment ==
  ASSUME ValidationInv, Complete, NEW r \in case.rules,
         r \in DOMAIN Controls[case.service], case.service \notin {"group", "sql"},
         Verdict(case.service, r, config) # "unavailable"
  PROVE  \E m \in seen :
           Verdict(case.service, r, At(m)) = Verdict(case.service, r, config)
<1> DEFINE s == case.service
           docs == Documents[s]
           c == Controls[s][r]
<1>1. s \in Services
  BY CasesAssumption DEF ValidationInv
<1>2. /\ OneDocument(docs, c)
      /\ c.strict \/ (s = "storage" /\ "smb_encryption" \notin Reads(c))
  <2>1. CASE s = "s3"
    BY <2>1, S3Packs DEF Documents, Controls
  <2>2. CASE s = "storage"
    BY <2>2, StoragePacks DEF Documents
  <2>3. CASE s \notin {"s3", "storage"}
    BY <1>1, <2>3, OtherPacks
  <2> QED
    BY <2>1, <2>2, <2>3
<1>3. PICK i \in DOMAIN docs : Reads(c) \subseteq DOMAIN docs[i] \cup Fixed
  BY <1>2 DEF OneDocument
<1>4. ASSUME NEW j \in DOMAIN docs, NEW a \in Reads(c) \cap DOMAIN docs[j]
      PROVE  /\ a \in Told(j)
             /\ \E m \in seen : \A b \in Told(j) : config[b] = At(m)[b]
  <2>1. a \in Told(j)
    BY AllTold
  <2>2. ASSUME <<s, j>> \in Independent, config[a] = "unavailable" PROVE FALSE
    <3>1. /\ DOMAIN docs[j] \cap (Fixed \cup Lists) = {}
          /\ s = "storage" => DOMAIN docs[j] = {"smb_encryption"}
      BY <1>1, <2>2, IndependentTells
    <3>2. c.strict
      BY <1>2, <3>1
    <3>3. Unreadable(a, config[a])
      BY <2>2, <3>1 DEF Unreadable, Lists
    <3> QED
      BY <3>2, <3>3 DEF Verdict
  <2> QED
    BY <2>1, <2>2, AllTold
<1>5. \A m \in seen : \A a \in Fixed \cap Reads(c) : At(m)[a] = Recorded(a, live[a])
  <2>1. Reads(c) \subseteq DOMAIN live
    BY DEF ValidationInv, SeenTyped, IsResource, Relevant
  <2> QED
    BY <2>1 DEF ValidationInv, SeenTyped, IsResource, At
<1>6. PICK m \in seen : \A a \in Reads(c) \cap DOMAIN docs[i] : config[a] = At(m)[a]
  <2>1. CASE Reads(c) \cap DOMAIN docs[i] = {}
    BY <2>1 DEF ValidationInv, SeenTyped
  <2>2. CASE Reads(c) \cap DOMAIN docs[i] # {}
    <3>1. PICK m \in seen : \A b \in Told(i) : config[b] = At(m)[b]
      BY <1>4, <2>2
    <3> QED
      BY <1>4, <3>1
  <2> QED
    BY <2>1, <2>2
<1>7. \A a \in Fixed \cap Reads(c) : config[a] = Recorded(a, live[a])
  <2> SUFFICES ASSUME NEW a \in Fixed \cap Reads(c) PROVE config[a] = Recorded(a, live[a])
    OBVIOUS
  <2>1. PICK j \in DOMAIN docs : a \in DOMAIN docs[j]
    BY <1>2 DEF OneDocument
  <2> QED
    BY <1>4, <1>5, <2>1
<1>8. \A a \in Reads(c) : At(m)[a] = config[a]
  BY <1>3, <1>5, <1>6, <1>7
<1> QED
  BY <1>8, VerdictReads

\* What is told of a group or an SQL server is always readable, and recorded as it is.
LEMMA PlainValues ==
  ASSUME NEW s \in {"group", "sql"}, NEW a, NEW x \in Values(s, a)
  PROVE  ~Unreadable(a, x) /\ Recorded(a, x) = x
<1>1. PICK i \in DOMAIN Documents[s] :
        a \in DOMAIN Documents[s][i] /\ x \in Documents[s][i][a]
  BY DEF Values
<1>2. CASE s = "group"
  <2>1. i \in DOMAIN GroupDocuments /\ a \in DOMAIN GroupDocuments[i]
        /\ x \in GroupDocuments[i][a]
    BY <1>1, <1>2 DEF Documents
  <2>2. a \notin {"ingress", "egress"} => x \notin {"unknown", "unavailable"}
    BY <2>1 DEF GroupDocuments
  <2>3. a \notin DOMAIN FilledIn
    BY <2>1 DEF GroupDocuments, FilledIn
  <2> QED
    BY <2>2, <2>3 DEF Unreadable, Recorded
<1>3. CASE s = "sql"
  <2>1. i \in DOMAIN SqlDocuments /\ a \in DOMAIN SqlDocuments[i] /\ x \in SqlDocuments[i][a]
    BY <1>1, <1>3 DEF Documents
  <2>2. x \notin {"unknown", "unavailable"}
    BY <2>1 DEF SqlDocuments
  <2>3. a \notin DOMAIN FilledIn
    BY <2>1 DEF SqlDocuments, FilledIn
  <2> QED
    BY <2>2, <2>3 DEF Unreadable, Recorded
<1> QED
  BY <1>2, <1>3

\* A group or an SQL server is at every moment readable, and recorded as it is.
LEMMA PlainResource ==
  ASSUME ValidationInv, case.service \in {"group", "sql"}, NEW m \in seen, NEW a \in DOMAIN m
  PROVE  At(m)[a] = m[a] /\ ~Unreadable(a, m[a])
<1>1. m[a] \in Values(case.service, a)
  BY DEF ValidationInv, SeenTyped, IsResource
<1> QED
  BY <1>1, PlainValues DEF At

\* An aspect of such a resource was, at some moment, what was captured of it; what one
\* document tells was so at one moment.
LEMMA PlainMoment ==
  ASSUME ValidationInv, Complete, case.service \in {"group", "sql"},
         NEW i \in DOMAIN Documents[case.service]
  PROVE  \E m \in seen : \A a \in Told(i) : config[a] = At(m)[a]
<1>1. <<case.service, i>> \notin Independent
  BY DEF Independent
<1> QED
  BY <1>1, AllTold

\* What a control of such a resource reads is there, and readable, at every moment.
LEMMA Readable ==
  ASSUME ValidationInv, case.service \in {"group", "sql"}, NEW m \in seen,
         NEW r \in case.rules \cap DOMAIN Controls[case.service]
  PROVE  \A a \in Reads(Controls[case.service][r]) : a \in DOMAIN m /\ ~Unreadable(a, At(m)[a])
<1>1. Reads(Controls[case.service][r]) \subseteq DOMAIN m
  BY DEF ValidationInv, SeenTyped, IsResource, Relevant
<1> QED
  BY <1>1, PlainResource

\* A finding on a group that the capture dismisses was gone when one of the two documents
\* was read.
LEMMA GroupGone ==
  ASSUME ValidationInv, Complete, case.service = "group",
         NEW r \in case.rules \cap DOMAIN Controls[case.service],
         Verdict(case.service, r, config) = "not_confirmed"
  PROVE  \E m \in seen : Gone(r, m)
<1> DEFINE c == Controls["group"][r]
<1>1. Documents["group"] = GroupDocuments /\ Controls["group"] = GroupControls
  BY DEF Documents, Controls
<1>2. /\ 1 \in DOMAIN GroupDocuments /\ 2 \in DOMAIN GroupDocuments
      /\ DOMAIN GroupDocuments[2] = {"in_use"}
  BY DEF GroupDocuments
<1>3. PICK m1 \in seen : \A a \in Told(1) : config[a] = At(m1)[a]
  BY <1>1, <1>2, PlainMoment
<1>4. PICK m2 \in seen : \A a \in Told(2) : config[a] = At(m2)[a]
  BY <1>1, <1>2, PlainMoment
<1>5. /\ Reads(c) \subseteq DOMAIN GroupDocuments[1] \cup {"in_use"}
      /\ DOMAIN c.safe \subseteq DOMAIN GroupDocuments[1]
  BY <1>1, GroupPacks
<1>6. /\ \A a \in Reads(c) \cap DOMAIN GroupDocuments[1] : config[a] = At(m1)[a]
      /\ \A a \in Reads(c) \cap {"in_use"} : config[a] = At(m2)[a]
  BY <1>1, <1>2, <1>3, <1>4, AllTold
<1>7. \A m \in seen : \A a \in Reads(c) : ~Unreadable(a, At(m)[a])
  BY Readable
<1>8. ~Applies(c, config) \/ Satisfied(c, config)
  BY DEF Verdict
<1>9. CASE Satisfied(c, config)
  <2>1. Satisfied(c, At(m1))
    BY <1>5, <1>6, <1>9 DEF Satisfied, Reads
  <2> QED
    BY <1>7, <2>1 DEF Gone, Verdict
<1>10. CASE ~Applies(c, config)
  <2>1. ~Applies(c, At(m1)) \/ ~Applies(c, At(m2))
    BY <1>5, <1>6, <1>10 DEF Applies, Reads
  <2> QED
    BY <1>7, <2>1 DEF Gone, Verdict
<1> QED
  BY <1>8, <1>9, <1>10

\* One setting of an SQL server that is not safe when it is read makes the violation.
LEMMA SqlHeld ==
  ASSUME ValidationInv, Complete, case.service = "sql",
         NEW r \in case.rules \cap DOMAIN Controls[case.service],
         Verdict(case.service, r, config) = "confirmed"
  PROVE  \E m \in seen : Held(r, m)
<1> DEFINE c == Controls["sql"][r]
<1>1. Documents["sql"] = SqlDocuments /\ c = SqlControls["sqlserver_tde_encrypted_with_cmk"]
  BY DEF Documents, Controls, SqlControls
<1>2. /\ DOMAIN c.scope = {}
      /\ \A a \in Reads(c) : \E i \in DOMAIN SqlDocuments : a \in DOMAIN SqlDocuments[i]
  BY <1>1 DEF SqlControls, SqlDocuments, Safe, Control, Reads
<1>3. ~Satisfied(c, config)
  BY DEF Verdict
<1>4. PICK a \in DOMAIN c.safe : config[a] \notin c.safe[a]
  BY <1>3 DEF Satisfied
<1>5. PICK i \in DOMAIN SqlDocuments : a \in DOMAIN SqlDocuments[i]
  BY <1>2, <1>4 DEF Reads
<1>6. PICK m \in seen : \A b \in Told(i) : config[b] = At(m)[b]
  BY <1>1, <1>5, PlainMoment
<1>7. config[a] = At(m)[a]
  BY <1>1, <1>4, <1>5, <1>6, AllTold DEF Reads
<1>8. ~Satisfied(c, At(m)) /\ Applies(c, At(m))
  BY <1>2, <1>4, <1>7 DEF Satisfied, Applies
<1> QED
  BY <1>8, Readable DEF Held, Verdict

------------------------------------------------------------------------------
\* cloud.py:25 for every inventory: a finding that a case is closed on was gone at some
\* moment of the validation.
THEOREM Dismissals == ValidationSpec => []DismissedWereGone
<1>1. ValidationInv => DismissedWereGone
  <2> SUFFICES ASSUME ValidationInv, conclusion = "close_no_action",
                      NEW r \in case.rules \ TornDisjunctions
               PROVE  \E m \in seen : Gone(r, m)
    BY DEF DismissedWereGone
  <2>1. Complete /\ Verdict(case.service, r, config) = "not_confirmed"
    BY DEF ValidationInv, Judged
  <2>2. r \in DOMAIN Controls[case.service]
    BY <2>1 DEF Verdict
  <2>3. CASE case.service = "group"
    BY <2>1, <2>2, <2>3, GroupGone
  <2>4. CASE case.service = "sql"
    BY <2>2, <2>4 DEF Controls, SqlControls, TornDisjunctions
  <2>5. CASE case.service \notin {"group", "sql"}
    BY <2>1, <2>2, <2>5, OneMoment DEF Gone
  <2> QED
    BY <2>3, <2>4, <2>5
<1> QED
  BY <1>1, ValidationInvariance, PTL

\* ... and a finding that a case is validated on was true at some moment of it.
THEOREM Validations == ValidationSpec => []ValidatedHeld
<1>1. ValidationInv => ValidatedHeld
  <2> SUFFICES ASSUME ValidationInv, conclusion = "validate"
               PROVE  \E r \in case.rules : r \in TornConjunctions \/ \E m \in seen : Held(r, m)
    BY DEF ValidatedHeld
  <2>1. PICK r \in case.rules : Complete /\ Verdict(case.service, r, config) = "confirmed"
    BY DEF ValidationInv, Judged
  <2>2. r \in DOMAIN Controls[case.service]
    BY <2>1 DEF Verdict
  <2>3. CASE case.service = "group" /\ r \notin TornConjunctions
    <3>1. Documents["group"] = GroupDocuments /\ Controls["group"] = GroupControls
      BY DEF Documents, Controls
    <3>2. Reads(GroupControls[r]) \subseteq DOMAIN GroupDocuments[1]
      BY <2>2, <2>3, <3>1, GroupPacks DEF TornConjunctions
    <3>3. 1 \in DOMAIN GroupDocuments
      BY DEF GroupDocuments
    <3>4. PICK m \in seen : \A a \in Told(1) : config[a] = At(m)[a]
      BY <2>1, <2>3, <3>1, <3>3, PlainMoment
    <3>5. \A a \in Reads(GroupControls[r]) : At(m)[a] = config[a]
      BY <2>1, <2>2, <2>3, <3>1, <3>2, <3>3, <3>4, AllTold
    <3>6. Verdict(case.service, r, At(m)) = Verdict(case.service, r, config)
      BY <2>2, <2>3, <3>1, <3>5, VerdictReads
    <3> QED
      BY <2>1, <3>6 DEF Held
  <2>4. CASE case.service = "sql"
    BY <2>1, <2>2, <2>4, SqlHeld
  <2>5. CASE case.service \notin {"group", "sql"}
    BY <2>1, <2>2, <2>5, OneMoment DEF Held
  <2> QED
    BY <2>3, <2>4, <2>5
<1> QED
  BY <1>1, ValidationInvariance, PTL

\* Only groups have the control of all ports.
LEMMA AllPortsOfGroup ==
  ASSUME NEW s \in Services, "all_ports" \in DOMAIN Controls[s]
  PROVE  s = "group"
<1> USE DEF Controls
<1>1. s # "s3"
  BY DEF S3Controls
<1>2. s # "rds"
  BY DEF RdsControls
<1>3. s # "volume"
  BY DEF VolumeControls
<1>4. s # "storage"
  BY DEF AccountControls, StorageAccessControls, Joined
<1>5. s # "sql"
  BY DEF SqlControls
<1>6. s # "registry"
  BY DEF RegistryControls
<1>7. s # "openai"
  BY DEF OpenAIControls
<1>8. s # "cosmos"
  BY DEF CosmosControls
<1>9. s # "vault"
  BY DEF VaultControls
<1>10. s # "subnet"
  BY DEF SubnetControls
<1>11. s # "site"
  BY DEF SiteControls
<1> QED
  BY <1>1, <1>2, <1>3, <1>4, <1>5, <1>6, <1>7, <1>8, <1>9, <1>10, <1>11 DEF Services, Documents

\* aws_ec2.py:120: the two controls close no case between them while a port is open.
THEOREM OpenPorts == ValidationSpec => []OpenPortKeepsTheCase
<1>1. ValidationInv => OpenPortKeepsTheCase
  <2> SUFFICES ASSUME ValidationInv, conclusion = "close_no_action", "all_ports" \in case.rules,
                      NEW r \in case.rules \cap DOMAIN PortsOf, NEW port \in PortsOf[r],
                      \A m \in seen : Reachable(port, m)
               PROVE  FALSE
    BY DEF OpenPortKeepsTheCase
  <2>1. /\ Complete
        /\ Verdict(case.service, "all_ports", config) = "not_confirmed"
        /\ Verdict(case.service, r, config) = "not_confirmed"
    BY DEF ValidationInv, Judged
  <2>2. "all_ports" \in DOMAIN Controls[case.service] /\ r \in DOMAIN Controls[case.service]
    BY <2>1 DEF Verdict
  <2>3. case.service \in Services
    BY CasesAssumption DEF ValidationInv
  <2>4. case.service = "group"
    BY <2>2, <2>3, AllPortsOfGroup
  <2>5. /\ Documents["group"] = GroupDocuments /\ Controls["group"] = GroupControls
        /\ 1 \in DOMAIN GroupDocuments /\ 2 \in DOMAIN GroupDocuments
        /\ "ingress" \in DOMAIN GroupDocuments[1] /\ "in_use" \in DOMAIN GroupDocuments[2]
    <3>1. Documents["group"] = GroupDocuments /\ Controls["group"] = GroupControls
      BY DEF Documents, Controls
    <3> QED
      BY <3>1 DEF GroupDocuments
  <2>6. /\ GroupControls["all_ports"] =
              Control([in_use |-> {"true"}], [ingress |-> WithoutAllPorts])
        /\ GroupControls[r] = PortControl(PortsOf[r])
    BY DEF GroupControls, RuleControls, Joined, PortsOf
  <2>7. PICK m1 \in seen : \A a \in Told(1) : config[a] = At(m1)[a]
    BY <2>1, <2>4, <2>5, PlainMoment
  <2>8. PICK m2 \in seen : \A a \in Told(2) : config[a] = At(m2)[a]
    BY <2>1, <2>4, <2>5, PlainMoment
  <2>9. {"in_use", "ingress"} \subseteq Reads(GroupControls["all_ports"])
    BY <2>6 DEF Control, Reads
  <2>10. "ingress" \in Told(1) /\ "in_use" \in Told(2)
    BY <2>1, <2>2, <2>4, <2>5, <2>9, AllTold
  <2>11. config["ingress"] = m1["ingress"] /\ config["in_use"] = m2["in_use"]
    <3>1. {"ingress", "in_use"} \subseteq DOMAIN m1 /\ {"ingress", "in_use"} \subseteq DOMAIN m2
      BY <2>10 DEF Told, ValidationInv, SeenTyped, IsResource
    <3> QED
      BY <2>4, <2>7, <2>8, <2>10, <3>1, PlainResource
  <2>12. config["in_use"] = "true"
    BY <2>11 DEF Reachable
  <2>13. config["ingress"] \in WithoutAllPorts
    BY <2>1, <2>2, <2>4, <2>5, <2>6, <2>12 DEF Verdict, Applies, Satisfied, Control, Reads
  <2>14. \A p \in config["ingress"] : ~Exposes(p, PortsOf[r])
    BY <2>1, <2>2, <2>4, <2>5, <2>6, <2>12, <2>13
       DEF Verdict, Applies, Satisfied, PortControl, Control, Reads
  <2>15. PICK p \in config["ingress"] :
           /\ Wildcard(p) /\ p.protocol \in {"tcp", "-1"}
           /\ p.protocol = "tcp" => port \in p.from..p.to
    BY <2>11 DEF Reachable, Wildcard
  <2>16. CASE p.protocol = "tcp"
    BY <2>14, <2>15, <2>16 DEF Exposes
  <2>17. CASE p.protocol = "-1"
    BY <2>13, <2>15, <2>17 DEF WithoutAllPorts, OpensAllPorts
  <2> QED
    BY <2>15, <2>16, <2>17
<1> QED
  BY <1>1, ValidationInvariance, PTL
==============================================================================
