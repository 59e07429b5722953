----------------------------- MODULE ChangeDrivers -----------------------------
(***************************************************************************)
(* The drivers that change a target, under the steps of execute and        *)
(* _rollback (action_plane.py): Azure storage accounts by one CLI command  *)
(* per read or update (azure_action.py), S3 versioning by an update of the *)
(* CloudFormation stack that owns the bucket (aws_action.py) with the      *)
(* templates of the plan (aws_cdk.py), and files.  Others change the       *)
(* target between any two steps, a command that fails may have taken       *)
(* effect, and a stack update goes on when nobody waits for it.            *)
(***************************************************************************)
EXTENDS Naturals, FiniteSets

CONSTANTS
  Drivers,    \* the drivers to look at, of "network", "blob", "versioning", "file"
  Rests,      \* what else the configuration of a target holds
  MaxDrifts   \* bound on the changes others make (model bound)

ASSUME DriversAssumption ==
  Drivers \subseteq {"network", "blob", "versioning", "file"} /\ "none" \notin Rests

VARIABLES
  driver,
  plan,        \* the templates and the rollback mode of an S3 plan, else NoPlan
  target,      \* the live configuration
  updating,    \* the template a stack update under way installs, NoTemplate if none is
  settled,     \* how the last stack update ended: "complete" or "rolled_back"
  litter,      \* a temporary file is left beside the target file
  step,        \* what execute does next
  template,    \* the template an S3 step has read before it reads the versioning, or none
  checkpoint,  \* the DeploymentCheckpoint
  claim,       \* what a rollback step that passed says: "restored" or "contained"
  outcome,     \* what execute came to
  original,    \* the configuration the preflight saw
  touched,     \* "preflight": others changed the target since its first read; "setting",
               \* "rest": they changed this part since deploy read it
  refused,     \* deploy refused because the target had drifted
  drifts

run == <<step, checkpoint, claim, outcome>>
history == <<original, touched, refused>>
vars == <<driver, plan, target, updating, settled, litter, template, run, history, drifts>>

Azure == {"network", "blob"}

\* What the drivers write and expect.  The blob driver is the network driver with another
\* field, which may be missing.
Network == [values |-> {"Enabled", "Disabled", "SecuredByPerimeter"},
            restorable |-> {"Enabled", "Disabled", "SecuredByPerimeter"},
            vulnerable |-> "Enabled", approved |-> "Disabled"]
Blob == [values |-> {"true", "false", "unset"}, restorable |-> {"true", "false"},
         vulnerable |-> "true", approved |-> "false"]
Field == IF driver = "network" THEN Network ELSE Blob
Versionings == {"Disabled", "Enabled", "Suspended"}
Contents == {"before", "after", "other"}

Settings ==
  CASE driver \in Azure -> Field.values
    [] driver = "versioning" -> Versionings
    [] driver = "file" -> Contents

ApprovedSetting ==
  CASE driver \in Azure -> Field.approved
    [] driver = "versioning" -> "Enabled"
    [] driver = "file" -> "after"

------------------------------------------------------------------------------
\* The templates of an S3 plan: the versioning status of the bucket and the rest.
Statuses == {"none", "Enabled", "Suspended"}
Template == [rest : Rests, status : Statuses]
NoTemplate == [rest |-> "none", status |-> "none"]
NoPlan == [deployed |-> NoTemplate, forward |-> NoTemplate, rollback |-> NoTemplate,
           mode |-> "none"]

\* Mutant: the forward template is the synthesized one.
ForwardOfSource(deployed, proposed) == proposed

\* verify_s3_versioning_template_change: the synthesized proposal may differ from the
\* synthesized baseline in the versioning status alone, and the template to deploy is made
\* from the deployed one, which the source may have drifted from.
ScopeVerified(deployed, baseline, proposed) ==
  /\ deployed.status \in {"none", "Suspended"}
  /\ proposed.status = "Enabled"
  /\ baseline.status \in {"none", deployed.status}
  /\ proposed.rest = baseline.rest

Forward(deployed, proposed) == [deployed EXCEPT !.status = "Enabled"]

PlanFor(deployed, proposed) ==
  LET forward == Forward(deployed, proposed) IN
    [deployed |-> deployed, forward |-> forward,
     rollback |-> [forward EXCEPT !.status = "Suspended"],
     mode |-> IF deployed.status = "none" THEN "containment" ELSE "exact"]

Plans ==
  {PlanFor(t[1], t[2]) :
     t \in {u \in Template \X Template :
              \E baseline \in Template : ScopeVerified(u[1], baseline, u[2])}}

\* What a driver compares: the configuration digest and the field, or the template and the
\* versioning.
Config(t) == [setting |-> t.setting, rest |-> t.rest, status |-> t.status]
NoConfig == [setting |-> "none", rest |-> "none", status |-> "none"]
TemplateOf(t) == [rest |-> t.rest, status |-> t.status]

\* The storage account is one document; the template and the versioning of a bucket are
\* read by one command each, in this order.
AsRead ==
  IF driver = "versioning"
  THEN [setting |-> target.setting, rest |-> template.rest, status |-> template.status]
  ELSE Config(target)
HasRead == driver = "versioning" => template # NoTemplate

Init ==
  /\ driver \in Drivers
  /\ target \in [setting : Settings, rest : Rests, scope : {TRUE},
                 status : IF driver = "versioning" THEN Statuses ELSE {"none"}]
  /\ plan \in IF driver = "versioning" THEN Plans ELSE {NoPlan}
  /\ updating = NoTemplate
  /\ settled = "complete"
  /\ litter = FALSE
  /\ step = "preflight"
  /\ template = NoTemplate
  /\ checkpoint = NoConfig
  /\ claim = "none"
  /\ outcome = "none"
  /\ original = NoConfig
  /\ touched = {}
  /\ refused = FALSE
  /\ drifts = 0

------------------------------------------------------------------------------
\* Anybody else changes the target: its setting, the rest of its configuration, or the
\* tags that put it in scope.  A bucket is never unversioned again, and a stack that is
\* being updated takes no other update.
Others ==
  /\ outcome = "none" /\ drifts < MaxDrifts
  /\ target' \in [setting : Settings, rest : Rests, scope : BOOLEAN, status : {target.status}]
  /\ target' # target
  /\ driver = "versioning" => /\ target'.setting = "Disabled" => target.setting = "Disabled"
                              /\ updating # NoTemplate => target'.rest = target.rest
  /\ driver = "file" => target'.rest = target.rest /\ target'.scope
  /\ touched' = touched \cup {"preflight"}
                 \cup {part \in {"setting", "rest"} : target'[part] # target[part]}
  /\ drifts' = drifts + 1
  /\ UNCHANGED <<driver, plan, updating, settled, litter, template, run, original, refused>>

\* CloudFormation ends an update: it has done it, or it has rolled it back, after which
\* the versioning is that of the template again, or what it was, or suspended.
Settle ==
  /\ updating # NoTemplate
  /\ \/ /\ target' = [target EXCEPT !.rest = updating.rest, !.status = updating.status,
                                    !.setting = updating.status]
        /\ settled' = "complete"
     \/ /\ \E v \in {target.setting, "Suspended"} \cup ({target.status} \ {"none"}) :
             target' = [target EXCEPT !.setting = v]
        /\ settled' = "rolled_back"
  /\ updating' = NoTemplate
  /\ UNCHANGED <<driver, plan, litter, template, run, history, drifts>>

Goto(next) == step' = next /\ UNCHANGED <<checkpoint, claim, outcome>>
Ends(o) == step' = "over" /\ outcome' = o /\ UNCHANGED <<checkpoint, claim>>
Steady == UNCHANGED <<driver, plan, updating, settled, drifts>>
Quiet == Steady /\ UNCHANGED template
ReadAnew == Steady /\ template' = NoTemplate

\* Every command may fail, and no read of a storage account out of scope succeeds.
AzureReadable == target.scope
StackReadable == target.scope

AzurePreflight == AzureReadable /\ target.setting = Field.vulnerable

\* The stack is stable.
ReadStack ==
  /\ step = "preflight" /\ driver = "versioning"
  /\ StackReadable /\ updating = NoTemplate
  /\ Goto("pinned")
  /\ Quiet /\ UNCHANGED <<target, litter, history>>

\* Every step that looks at a bucket reads the template of its stack first.
ReadTemplate ==
  /\ step \in {"pinned", "checkpoint", "deploy", "confirm", "rollback_confirm"}
  /\ driver = "versioning" /\ template = NoTemplate
  /\ template' = TemplateOf(target)
  /\ touched' = touched \ (IF step = "pinned" THEN {"preflight"} ELSE {"rest"})
  /\ Steady /\ UNCHANGED <<run, target, litter, original, refused>>

AwsPreflight ==
  /\ step = "pinned" /\ HasRead
  /\ template = plan.deployed
  /\ target.setting = IF plan.mode = "exact" THEN "Suspended" ELSE "Disabled"

FilePreflight == target.setting = "before"

PreflightHolds ==
  CASE driver \in Azure -> AzurePreflight
    [] driver = "versioning" -> AwsPreflight
    [] driver = "file" -> FilePreflight

Preflight ==
  /\ step \in {"preflight", "pinned"}
  /\ \/ /\ PreflightHolds
        /\ Goto("baseline")
        /\ original' = AsRead
        /\ touched' = IF driver = "versioning" THEN touched ELSE {}
     \/ Ends("refused") /\ UNCHANGED <<original, touched>>
  /\ ReadAnew /\ UNCHANGED <<target, litter, refused>>

\* The observation of a health monitor, at a baseline, after a deployment or a rollback:
\* what it cannot read is not healthy, and what it reads may be.
AzureObservable == AzureReadable
AwsObservable == StackReadable /\ updating = NoTemplate
Observable ==
  CASE driver \in Azure -> AzureObservable
    [] driver = "versioning" -> AwsObservable
    [] driver = "file" -> TRUE

Baseline ==
  /\ step = "baseline"
  /\ \/ Observable /\ Goto("checkpoint")
     \/ Ends("refused")
  /\ Quiet /\ UNCHANGED <<target, litter, history>>

AzureCheckpoint == AzureReadable /\ target.setting \in Field.restorable

TakeCheckpoint ==
  /\ step = "checkpoint"
  /\ \/ /\ driver \in Azure => AzureCheckpoint
        /\ HasRead
        /\ checkpoint' = AsRead
        /\ step' = "deploy" /\ UNCHANGED <<claim, outcome>>
     \/ Ends("refused")
  /\ ReadAnew /\ UNCHANGED <<target, litter, history>>

------------------------------------------------------------------------------
\* Mutant: only the field to change is compared.
SameField == target.setting = checkpoint.setting

AsCheckpointed == AsRead = checkpoint

\* deploy of the two cloud drivers reads the target again and compares; a read that raises
\* and a refusal are failed deployments, and those are rolled back.
CloudDeploy ==
  /\ step = "deploy" /\ driver # "file"
  /\ \/ /\ driver \in Azure => AzureReadable
        /\ HasRead /\ AsCheckpointed
        /\ Goto("update")
        /\ touched' = touched \ (IF driver = "versioning" THEN {"setting"}
                                 ELSE {"setting", "rest"})
        /\ UNCHANGED refused
     \/ /\ driver \in Azure => AzureReadable
        /\ HasRead /\ ~AsCheckpointed
        /\ Goto("rollback")
        /\ refused' = TRUE /\ UNCHANGED touched
     \/ Goto("rollback") /\ UNCHANGED <<touched, refused>>
  /\ ReadAnew /\ UNCHANGED <<target, litter, original>>

\* az storage account update: done and answered with a document in scope; or the command
\* failed, timed out or answered with another document, and the update was done or not.
AzureUpdate(value, next, failed) ==
  \/ /\ target' = [target EXCEPT !.setting = value]
     /\ IF target.scope THEN next \/ failed ELSE failed
  \/ UNCHANGED target /\ failed

AzureDeploy ==
  /\ step = "update" /\ driver \in Azure
  /\ AzureUpdate(Field.approved, Goto("observe"), Goto("rollback"))
  /\ Quiet /\ UNCHANGED <<litter, history>>

\* update-stack: started and answered; or failed, and started or not.
StackUpdate(installed, next, failed) ==
  \/ updating = NoTemplate /\ updating' = installed /\ (next \/ failed)
  \/ UNCHANGED updating /\ failed

AwsDeploy ==
  /\ step = "update" /\ driver = "versioning"
  /\ StackUpdate(plan.forward, Goto("wait"), Goto("rollback"))
  /\ UNCHANGED <<driver, plan, settled, drifts, target, litter, template, history>>

\* wait stack-update-complete: the command fails when the update was rolled back, and when
\* it takes too long.
Waited(next) ==
  \/ updating = NoTemplate /\ settled = "complete" /\ Goto(next)
  \/ Goto(IF step = "wait" THEN "rollback" ELSE "failed")

Wait ==
  /\ step \in {"wait", "rollback_wait"}
  /\ Waited(IF step = "wait" THEN "confirm" ELSE "rollback_confirm")
  /\ Quiet /\ UNCHANGED <<target, litter, history>>

\* After the propagation interval the template and the versioning are read again.
AwsConfirm ==
  /\ step = "confirm"
  /\ \/ /\ HasRead /\ template = plan.forward /\ target.setting = "Enabled"
        /\ Goto("observe")
     \/ Goto("rollback")
  /\ ReadAnew /\ UNCHANGED <<target, litter, history>>

\* _replace: the file beside the target must not exist yet; a write that fails leaves it.
Replace(content, next, failed) ==
  \/ /\ ~litter
     /\ target' = [target EXCEPT !.setting = content] /\ UNCHANGED litter
     /\ next
  \/ UNCHANGED target /\ litter' \in {litter, TRUE} /\ failed

FileDeploy ==
  /\ step = "deploy" /\ driver = "file"
  /\ Replace("after", Goto("observe"), Goto("rollback"))
  /\ Quiet /\ UNCHANGED history

\* The health after the deployment, the probes that read the target back, and the audit.
Observe ==
  /\ step = "observe"
  /\ \/ Observable /\ Goto("probe")
     \/ Goto("rollback")
  /\ Quiet /\ UNCHANGED <<target, litter, history>>

AzureProbe == AzureReadable /\ target.setting = Field.approved
AwsProbe == target.setting = "Enabled"
FileProbe == target.setting = "after"
ProbesPass ==
  CASE driver \in Azure -> AzureProbe
    [] driver = "versioning" -> AwsProbe
    [] driver = "file" -> FileProbe

Verify ==
  /\ step = "probe"
  /\ \/ ProbesPass /\ Ends("remediated")
     \/ Goto("rollback")
  /\ Quiet /\ UNCHANGED <<target, litter, history>>

------------------------------------------------------------------------------
Claims(c) == step' = "recovery" /\ claim' = c /\ UNCHANGED <<checkpoint, outcome>>

AzureRollback ==
  /\ step = "rollback" /\ driver \in Azure
  /\ AzureUpdate(checkpoint.setting, Claims("restored"), Goto("failed"))
  /\ Quiet /\ UNCHANGED <<litter, history>>

AwsRollback ==
  /\ step = "rollback" /\ driver = "versioning"
  /\ StackUpdate(plan.rollback, Goto("rollback_wait"), Goto("failed"))
  /\ UNCHANGED <<driver, plan, settled, drifts, target, litter, template, history>>

\* Mutant: a rollback that passes restores.
AlwaysRestored == "restored"

AwsClaim == IF plan.mode = "exact" THEN "restored" ELSE "contained"

AwsRollbackConfirm ==
  /\ step = "rollback_confirm"
  /\ \/ /\ HasRead /\ template = plan.rollback /\ target.setting = "Suspended"
        /\ Claims(AwsClaim)
     \/ Goto("failed")
  /\ ReadAnew /\ UNCHANGED <<target, litter, history>>

FileRollback ==
  /\ step = "rollback" /\ driver = "file"
  /\ Replace(checkpoint.setting, Claims("restored"), Goto("failed"))
  /\ Quiet /\ UNCHANGED history

\* _rollback blocks the case when the step failed or the service is not healthy after it.
Recover ==
  /\ \/ /\ step = "recovery" /\ Observable
        /\ Ends(IF claim = "restored" THEN "rolled_back" ELSE "contained")
     \/ step \in {"recovery", "failed"} /\ Ends("blocked")
  /\ Quiet /\ UNCHANGED <<target, litter, history>>

Next ==
  \/ Others \/ Settle
  \/ ReadStack \/ ReadTemplate
  \/ Preflight \/ Baseline \/ TakeCheckpoint
  \/ CloudDeploy \/ AzureDeploy \/ AwsDeploy \/ Wait \/ AwsConfirm \/ FileDeploy
  \/ Observe \/ Verify
  \/ AzureRollback \/ AwsRollback \/ AwsRollbackConfirm \/ FileRollback \/ Recover

Spec == Init /\ [][Next]_vars

------------------------------------------------------------------------------
(***************************************************************************)
(* Properties                                                              *)
(***************************************************************************)
Alone == "preflight" \notin touched

\* What each variable holds; a target has the settings of its driver.
Configs == [setting : Settings, rest : Rests, status : Statuses]

TypeOK ==
  /\ driver \in Drivers
  /\ plan \in IF driver = "versioning" THEN Plans ELSE {NoPlan}
  /\ target \in [setting : Settings, rest : Rests, scope : BOOLEAN,
                status : IF driver = "versioning" THEN Statuses ELSE {"none"}]
  /\ updating \in Template \cup {NoTemplate}
  /\ settled \in {"complete", "rolled_back"}
  /\ litter \in BOOLEAN
  /\ template \in Template \cup {NoTemplate}
  /\ step \in {"preflight", "pinned", "baseline", "checkpoint", "deploy", "update", "wait",
              "confirm", "observe", "probe", "rollback", "rollback_wait", "rollback_confirm",
              "recovery", "failed", "over"}
  /\ checkpoint \in Configs \cup {NoConfig}
  /\ claim \in {"none", "restored", "contained"}
  /\ outcome \in {"none", "refused", "remediated", "rolled_back", "contained", "blocked"}
  /\ original \in Configs \cup {NoConfig}
  /\ touched \subseteq {"preflight", "setting", "rest"}
  /\ refused \in BOOLEAN
  /\ drifts \in Nat

\* deploy, the drift comparison: when a cloud driver is about to update, each part of the
\* target is as its checkpoint has it, or somebody changed it after deploy had read it.  A
\* stack that changes while the versioning of its bucket is read is such a part: nothing
\* reads its template again (aws_action.py:397-399).
OverwritesOnlyCheckpointed ==
  step = "update" =>
    /\ "setting" \notin touched => target.setting = checkpoint.setting
    /\ "rest" \notin touched => TemplateOf(target) = TemplateOf(checkpoint)

\* docs/aws-cdk-execution-checkpoint-2026-09-03.md:58: what execute says of a target that
\* nobody else has touched is so, however commands failed and stack updates ended: the
\* change is in place, the configuration is what it was, or the change is contained.  And
\* whoever touched it, a bucket that was never versioned is never reported as restored.
OutcomeIsReal ==
  /\ Alone /\ outcome = "remediated" => target.setting = ApprovedSetting
  /\ Alone /\ outcome = "rolled_back" => Config(target) = original
  /\ Alone /\ outcome = "contained" =>
       target.setting = "Suspended" /\ original.setting = "Disabled"
  /\ driver = "versioning" /\ outcome = "rolled_back" =>
       "Disabled" \notin {original.setting, checkpoint.setting}

\* README.md:330: drift between the source and the live template is never deployed; no
\* driver changes anything but the setting it was approved for.
OnlyTheSettingChanges ==
  step \notin {"preflight", "pinned"} /\ outcome # "refused" /\ Alone =>
    target.rest = original.rest

\* docs/aws-cdk-execution-checkpoint-2026-09-03.md:38-39: any drift blocks execution.  A
\* deployment refused because the target has drifted leaves it as it is.
DriftBlocksExecution ==
  [][refused /\ drifts' = drifts => Config(target') = Config(target)]_vars
==============================================================================
