---------------------------- MODULE Provisioning ----------------------------
(***************************************************************************)
(* Provisioning of an admitted execution (deployment-assembly/): D1 copies *)
(* the frozen assembly and verifies the copy, D2 deploys the copy, D3      *)
(* verifies that the frozen assembly is still the admitted one, D4 reads   *)
(* the stack back and freezes the resource manifest.  The trials may start *)
(* only when the outcome has targets.                                      *)
(*                                                                         *)
(* The assembly directory is the package's, and files in it may change     *)
(* while it is being read (EditFrozen), as may the inventory's record      *)
(* (EditInventory).  The deploy copy is private.                           *)
(***************************************************************************)
EXTENDS Admission

VARIABLES
  dpc,       \* where provisioning is
  dep,       \* what it holds in memory
  events,    \* the provisioning journal
  stack,     \* the CloudFormation stack, or Absent
  manifest,  \* the resource manifest that was frozen, or Absent
  written,   \* the resource manifest is in the package
  targets    \* the runner got targets for its workload

provisionVars == <<dpc, dep, events, stack, manifest, written, targets>>

NoFiles == [f \in ASSEMBLY_PATHS |-> Absent]
NothingDeployed ==
  [tags |-> {}, inventory |-> Absent, sources |-> {}, copy |-> NoFiles, copied |-> {},
   deployed |-> FALSE, outputs |-> "none", described |-> Absent, stack_id |-> FALSE,
   resources |-> {}, invalid |-> {}, listed |-> TRUE, requests |-> {}, configured |-> FALSE,
   malformed |-> {}, reasons |-> {}]

ProvisionInit ==
  /\ dpc = "idle" /\ dep = NothingDeployed /\ events = <<>>
  /\ stack = Absent /\ manifest = Absent /\ written = FALSE /\ targets = FALSE

Subject == package["execution_manifest"]
Frozen == package["assembly"]
SteadyAdmission == UNCHANGED <<world, head, work, installed, changes, moved, pc, held, records>>

startProvisioning ==
  /\ outcome = "admitted" /\ dpc = "idle" /\ SteadyAdmission /\ Works
  /\ dpc' = "tags" /\ UNCHANGED <<dep, events, stack, manifest, written, targets>>

-----------------------------------------------------------------------------
(* D1: the inputs and the verified copy. *)

\* Nothing was deployed: `reasons' say why and the manifest is frozen as failed.
notDeployed(reasons) ==
  /\ dpc' = "not_deployed"
  /\ dep' = [dep EXCEPT !.reasons = @ \cup reasons]

checkDeclaredTags(tags, execution) ==
  /\ {t[1] : t \in tags} = {"suc:run_id", "suc:owner"}
  /\ \A t, u \in tags : t[1] = u[1] => t = u
  /\ <<"suc:run_id", execution>> \in tags

declaredTags ==
  /\ dpc = "tags" /\ SteadyAdmission
  /\ \/ /\ Works
        /\ LET tags == Frozen["manifest.json"]
           IN IF tags = Absent THEN notDeployed({"DECLARED_TAGS_UNREADABLE"})
              ELSE IF checkDeclaredTags(tags, Subject.execution)
              THEN dpc' = "inputs" /\ dep' = [dep EXCEPT !.tags = tags]
              ELSE notDeployed({"OWNERSHIP_TAG_INVALID"})
     \/ Fails /\ notDeployed({"DECLARED_TAGS_UNREADABLE"})
  /\ UNCHANGED <<events, stack, manifest, written, targets>>

providerVersionLogicalId(template) ==
  {r.logical_id : r \in {q \in template : q.type = "AWS::Lambda::Version"}}

KIND_BY_TYPE ==
  [t \in {"AWS::Lambda::EventSourceMapping", "AWS::Lambda::Version", "AWS::Lambda::Alias",
          "AWS::SQS::Queue", "AWS::DynamoDB::Table"} |->
     CASE t = "AWS::Lambda::EventSourceMapping" -> "event_source_mapping"
       [] t \in {"AWS::Lambda::Version", "AWS::Lambda::Alias"} -> "provisioned_concurrency"
       [] t = "AWS::SQS::Queue" -> "queue"
       [] t = "AWS::DynamoDB::Table" -> "table"]

\* The reads the template asks for after the deployment: <<kind, logical id>>.
planPostDeployReads(template) ==
  {<<"function_configuration", id>> : id \in providerVersionLogicalId(template)}
    \cup {<<KIND_BY_TYPE[r.type], r.logical_id>> : r \in {q \in template : q.type \in DOMAIN KIND_BY_TYPE}}

\* The inventory and the template must be the ones the manifest declares.
frozenInputs ==
  /\ dpc = "inputs" /\ SteadyAdmission
  /\ \/ /\ Works
        /\ LET inventory == package["deployment_assembly_inventory"]
               template == Frozen["template.json"]
               reasons == Reason(inventory.inventory_sha256 = Subject.inventory, "FROZEN_INVENTORY_MISMATCH")
                 \cup (IF template # Subject.inventory["template.json"] THEN {"FROZEN_TEMPLATE_MISMATCH"}
                       ELSE Reason(Cardinality(providerVersionLogicalId(template)) = 1,
                                   "PROVIDER_VERSION_UNKNOWN"))
           IN IF reasons = {} THEN dpc' = "target" /\ dep' = [dep EXCEPT !.inventory = inventory]
              ELSE notDeployed(reasons)
     \/ Fails /\ notDeployed({"FROZEN_INVENTORY_UNREADABLE"})     \* or the template
  /\ UNCHANGED <<events, stack, manifest, written, targets>>

inventorySelfCheck(inventory) ==
  Reason(inventory.files = inventory.inventory_sha256, "INVENTORY_DIGEST_MISMATCH")

\* The inventory agrees with its digest, and the directory of the copy is absent
\* or empty.
emptyTarget ==
  /\ dpc = "target" /\ SteadyAdmission
  /\ \/ /\ Works
        /\ LET reasons == inventorySelfCheck(dep.inventory)
           IN IF reasons = {} THEN dpc' = "listing" /\ UNCHANGED dep ELSE notDeployed(reasons)
     \/ Fails /\ notDeployed({"DEPLOY_COPY_NOT_EMPTY"})     \* or unreadable
  /\ UNCHANGED <<events, stack, manifest, written, targets>>

listFrozenFiles ==
  /\ dpc = "listing" /\ SteadyAdmission
  /\ \/ /\ Works /\ dpc' = "copy"
        /\ dep' = [dep EXCEPT !.sources = {f \in ASSEMBLY_PATHS : Frozen[f] # Absent}]
     \/ Fails /\ notDeployed({"FROZEN_ASSEMBLY_UNREADABLE"})
  /\ UNCHANGED <<events, stack, manifest, written, targets>>

\* One inventoried file is copied, as it is by then: the listing must have named
\* it, and it must still be there.
InventoriedFiles == {f \in ASSEMBLY_PATHS : dep.inventory.files[f] # Absent}
copyOneFile ==
  /\ dpc = "copy" /\ dep.copied # InventoriedFiles /\ SteadyAdmission
  /\ LET file == CHOOSE f \in InventoriedFiles \ dep.copied : TRUE
     IN \/ /\ Works
           /\ IF file \notin dep.sources THEN notDeployed({"FROZEN_FILE_MISSING"})
              ELSE IF Frozen[file] = Absent THEN notDeployed({"FROZEN_ASSEMBLY_UNREADABLE"})
              ELSE /\ dep' = [dep EXCEPT !.copied = @ \cup {file}, !.copy[file] = Frozen[file]]
                   /\ UNCHANGED dpc
        \/ Fails /\ notDeployed({"DEPLOY_COPY_WRITE_FAILED"})
  /\ UNCHANGED <<events, stack, manifest, written, targets>>

\* Compares the files of a directory with an inventory that must agree with its
\* own digest: nothing removed, nothing added, nothing changed.
verifyAssemblyUnchangedByName(inventory, files) ==
  inventorySelfCheck(inventory)
    \cup Reason(\A f \in ASSEMBLY_PATHS : (inventory.files[f] = Absent) = (files[f] = Absent), "FILE_REMOVED")
verifyAssemblyUnchanged(inventory, files) ==
  LET expected == inventory.files
  IN inventorySelfCheck(inventory)
       \cup Reason(\A f \in ASSEMBLY_PATHS : expected[f] # Absent => files[f] # Absent, "FILE_REMOVED")
       \cup Reason(\A f \in ASSEMBLY_PATHS : files[f] # Absent => expected[f] # Absent, "FILE_ADDED")
       \cup Reason(\A f \in ASSEMBLY_PATHS :
                     expected[f] # Absent /\ files[f] # Absent => files[f] = expected[f], "FILE_CHANGED")

verifyCopy ==
  /\ dpc = "copy" /\ dep.copied = InventoriedFiles /\ SteadyAdmission
  /\ \/ /\ Works
        /\ LET differences == verifyAssemblyUnchanged(dep.inventory, dep.copy)
           IN IF differences = {} THEN dpc' = "copy_verified" /\ UNCHANGED dep
              ELSE notDeployed(differences \cup {"DEPLOY_COPY_NOT_VERIFIED"})
     \/ Fails /\ notDeployed({"ASSEMBLY_UNREADABLE"})
  /\ UNCHANGED <<events, stack, manifest, written, targets>>

-----------------------------------------------------------------------------
(* The provisioning journal: a failed append is only a reason. *)

journalEvent(event, next) ==
  /\ SteadyAdmission
  /\ \/ Works /\ events' = Append(events, event) /\ UNCHANGED dep
     \/ /\ Fails /\ UNCHANGED events
        /\ dep' = [dep EXCEPT !.reasons = @ \cup {"PROVISIONING_EVENT_NOT_WRITTEN"}]
  /\ dpc' = next
  /\ UNCHANGED <<stack, manifest, written, targets>>

copyVerified == dpc = "copy_verified" /\ journalEvent("DEPLOY_COPY_VERIFIED", "deploy_started")
deployStarted == dpc = "deploy_started" /\ journalEvent("DEPLOY_STARTED", "deploy")
deployEnded == /\ dpc = "deploy_ended"
               /\ journalEvent(IF dep.deployed THEN "DEPLOY_SUCCEEDED" ELSE "DEPLOY_FAILED", "reverify")
deployRefused == dpc = "not_deployed" /\ journalEvent("DEPLOY_FAILED", "freeze")

-----------------------------------------------------------------------------
(* D2 and D3: the deployment, and the frozen assembly again. *)

StackOf(files, status) ==
  [status |-> status, tags |-> files["manifest.json"], from |-> files,
   resources |-> {[id |-> r.logical_id, type |-> r.type, physical |-> status = "CREATE_COMPLETE",
                   complete |-> status = "CREATE_COMPLETE"] : r \in files["template.json"]}]

\* cdk deploy succeeds, with the outputs of the stack, or with outputs of which
\* some are invalid or which name no targets; fails and leaves no stack; fails
\* and leaves a stack that is rolled back; or reports failure although the
\* stack is complete.
deploy ==
  /\ dpc = "deploy" /\ SteadyAdmission
  /\ \/ /\ Works /\ dep' = [dep EXCEPT !.outputs = "resolved", !.deployed = TRUE]
        /\ stack' = StackOf(dep.copy, "CREATE_COMPLETE")
     \/ /\ Fails /\ stack' = StackOf(dep.copy, "CREATE_COMPLETE")
        /\ \E malformed \in {{}, {"OUTPUT_INVALID"}} :
             dep' = [dep EXCEPT !.malformed = malformed, !.outputs = "unresolved", !.deployed = TRUE]
     \/ /\ Fails /\ dep' = [dep EXCEPT !.reasons = @ \cup {"DEPLOY_COMMAND_FAILED"}]
        /\ stack' \in {Absent, StackOf(dep.copy, "ROLLBACK_COMPLETE"),
                       StackOf(dep.copy, "CREATE_COMPLETE")}
  /\ dpc' = "deploy_ended"
  /\ UNCHANGED <<events, manifest, written, targets>>

reverify ==
  /\ dpc = "reverify" /\ SteadyAdmission
  /\ \/ /\ Works
        /\ LET drift == verifyAssemblyUnchanged(dep.inventory, Frozen)
           IN /\ dep' = [dep EXCEPT !.reasons = @ \cup drift]
              /\ dpc' = IF drift = {} THEN "reverified" ELSE "describe"
     \/ /\ Fails /\ dpc' = "describe"
        /\ dep' = [dep EXCEPT !.reasons = @ \cup {"FROZEN_ASSEMBLY_UNREADABLE"}]
  /\ UNCHANGED <<events, stack, manifest, written, targets>>

assemblyReverified == dpc = "reverified" /\ journalEvent("PACKAGE_ASSEMBLY_REVERIFIED", "describe")

-----------------------------------------------------------------------------
(* D4: the stack as it is, and the resource manifest. *)

\* The described stack may carry an id that is no id of this stack.
describeStack ==
  /\ dpc = "describe" /\ SteadyAdmission
  /\ \/ /\ Works /\ dep' = [dep EXCEPT !.stack_id = stack # Absent, !.described = stack]
        /\ dpc' = IF stack = Absent THEN "freeze" ELSE "list"
     \/ Fails /\ stack # Absent /\ dep' = [dep EXCEPT !.described = stack] /\ dpc' = "list"
     \/ /\ Fails /\ dpc' = "list"
        /\ dep' = [dep EXCEPT !.reasons = @ \cup {"STACK_READ_FAILED"}]
  /\ UNCHANGED <<events, stack, manifest, written, targets>>

\* All pages, or nothing: a failed page, a repeated token or too many pages
\* leave the resources unlisted.  A listed entry may be invalid.
listAllStackResources ==
  /\ dpc = "list" /\ SteadyAdmission
  /\ \/ /\ stack # Absent
        /\ \/ Works /\ dep' = [dep EXCEPT !.resources = stack.resources]
           \/ Fails /\ \E r \in stack.resources :
                         dep' = [dep EXCEPT !.resources = stack.resources, !.invalid = {r}]
        /\ dpc' = IF dep.deployed THEN "configuration" ELSE "freeze"
     \/ /\ (Fails \/ (Works /\ stack = Absent)) /\ dpc' = "freeze"
        /\ dep' = [dep EXCEPT !.listed = FALSE, !.reasons = @ \cup {"STACK_READ_FAILED"}]
  /\ UNCHANGED <<events, stack, manifest, written, targets>>

\* A planned read needs a listed resource with a physical id.
resolveReadRequests(reads, resources) ==
  {read \in reads : \E r \in resources : r.id = read[2] /\ r.physical}

resolveReads ==
  /\ dpc = "configuration" /\ SteadyAdmission /\ Works /\ dpc' = "reads"
  /\ LET reads == planPostDeployReads(Subject.inventory["template.json"])
         requests == resolveReadRequests(reads, dep.resources)
     IN dep' = [dep EXCEPT !.requests = requests,
                           !.reasons = @ \cup Reason(requests = reads, "READ_TARGET_UNRESOLVED")]
  /\ UNCHANGED <<events, stack, manifest, written, targets>>

\* The reasons an answer can give: the account may hold another version, or
\* provisioned concurrency that nobody deployed.
readingProblems(kind) ==
  CASE kind = "provisioned_concurrency" -> {"PROVISIONED_CONCURRENCY_PRESENT"}
    [] kind = "function_configuration" -> {"PROVIDER_VERSION_MISMATCH"}
    [] OTHER -> {}

readOne ==
  /\ dpc = "reads" /\ dep.requests # {} /\ SteadyAdmission /\ UNCHANGED dpc
  /\ LET request == CHOOSE r \in dep.requests : TRUE
         answered == [dep EXCEPT !.requests = @ \ {request}, !.configured = TRUE]
     IN \/ Works /\ dep' = answered
        \/ Fails /\ \E problem \in readingProblems(request[1]) :
                      dep' = [answered EXCEPT !.reasons = @ \cup {problem}]
        \/ Fails /\ \E entry \in {"CONFIGURATION_ENTRY_INVALID", "CONFIGURATION_CONFLICT"} :
                      dep' = [answered EXCEPT !.malformed = @ \cup {entry}]
        \/ Fails /\ dep' = [answered EXCEPT !.configured = dep.configured,
                                            !.reasons = @ \cup {"CONFIGURATION_READ_FAILED"}]
  /\ UNCHANGED <<events, stack, manifest, written, targets>>

configurationSnapshotOf ==
  /\ dpc = "reads" /\ dep.requests = {} /\ SteadyAdmission /\ Works /\ dpc' = "freeze"
  /\ UNCHANGED <<dep, events, stack, manifest, written, targets>>

observedTagReasons(declared, observed) == Reason(declared = observed, "OWNERSHIP_TAG_MISMATCH")

stackFacts(d) ==
  Reason(d.deployed, "DEPLOY_FAILED")
    \cup (IF d.described = Absent THEN {"STACK_NOT_DESCRIBED"}
          ELSE Reason(d.described.status = "CREATE_COMPLETE", "STACK_NOT_COMPLETE")
                 \cup Reason(d.stack_id, "STACK_ID_INVALID")
                 \cup observedTagReasons(d.tags, d.described.tags))

providerVersionNumber(resources) ==
  Reason(\E r \in resources : /\ r.id \in providerVersionLogicalId(Subject.inventory["template.json"])
                              /\ r.type = "AWS::Lambda::Version" /\ r.physical,
         "PROVIDER_VERSION_UNKNOWN")

\* The deployer reports the stack name it was given, so a STACK_NAME_MISMATCH
\* cannot arise.
buildResourceManifest(d) ==
  LET entries == d.resources \ d.invalid
      reasons == stackFacts(d)
        \cup Reason(d.listed, "RESOURCES_NOT_LISTED")
        \cup Reason(d.invalid = {}, "RESOURCE_ENTRY_INVALID")
        \cup Reason(\A r \in entries : r.complete, "RESOURCE_NOT_COMPLETE")
        \cup providerVersionNumber(entries)
        \cup Reason(d.configured, "CONFIGURATION_MISSING")
        \cup d.malformed
  IN [status |-> IF reasons = {} THEN "succeeded" ELSE IF entries # {} THEN "partial" ELSE "failed",
      stack_known |-> d.described # Absent /\ d.stack_id, outputs |-> d.outputs, reasons |-> reasons]

\* Any reason at all demotes a manifest that was built as succeeded.
demoted(m, reasons) ==
  IF reasons # {} /\ m.status = "succeeded" THEN [m EXCEPT !.status = "partial"] ELSE m

\* Without declared tags no manifest can be built.
freeze ==
  /\ dpc = "freeze" /\ SteadyAdmission
  /\ IF ~checkDeclaredTags(dep.tags, Subject.execution)
     THEN Works /\ dpc' = "ended" /\ UNCHANGED <<dep, events, manifest>>
     ELSE LET built == buildResourceManifest(dep)
          IN /\ dpc' = "write"
             /\ \/ /\ Works
                   /\ events' = IF built.stack_known THEN Append(events, "STACK_ID_RECORDED") ELSE events
                   /\ dep' = [dep EXCEPT !.reasons = @ \cup built.reasons]
                   /\ manifest' = demoted(built, dep.reasons)
                \/ /\ built.stack_known /\ Fails /\ UNCHANGED events
                   /\ dep' = [dep EXCEPT !.reasons = @ \cup built.reasons \cup {"PROVISIONING_EVENT_NOT_WRITTEN"}]
                   /\ manifest' = demoted(built, {"PROVISIONING_EVENT_NOT_WRITTEN"})
  /\ UNCHANGED <<stack, written, targets>>

\* The outputs must name every function and queue the workload is sent to.
executionTargetsOf(m) == m.status = "succeeded" /\ m.outputs = "resolved"

\* Only an outcome without any reason has targets.
withTargetsStatus(m, reasons) == executionTargetsOf(m)
withTargets(m, reasons) == reasons = {} /\ executionTargetsOf(m)

\* The manifest is written once; a failure is one more reason.

writeManifest ==
  /\ dpc = "write" /\ SteadyAdmission /\ dpc' = "ended"
  /\ \/ Works /\ written' = TRUE /\ UNCHANGED dep
     \/ /\ Fails /\ UNCHANGED written
        /\ dep' = [dep EXCEPT !.reasons = @ \cup {"RESOURCE_MANIFEST_NOT_WRITTEN"}]
  /\ targets' = withTargets(manifest, dep'.reasons)
  /\ UNCHANGED <<events, stack, manifest>>

provision ==
  \/ startProvisioning \/ declaredTags \/ frozenInputs \/ emptyTarget \/ listFrozenFiles
  \/ copyOneFile \/ verifyCopy \/ copyVerified
  \/ deployStarted \/ deploy \/ deployEnded \/ deployRefused \/ reverify \/ assemblyReverified
  \/ describeStack \/ listAllStackResources \/ resolveReads \/ readOne
  \/ configurationSnapshotOf \/ freeze \/ writeManifest
AdmissionNext ==
  /\ EditFile \/ Commit \/ Install \/ EditFrozen \/ EditInventory \/ admitExecution
  /\ UNCHANGED provisionVars

Init == AdmissionInit /\ ProvisionInit
Next == AdmissionNext \/ provision
Spec == Init /\ [][Next]_<<admissionVars, provisionVars>>

-----------------------------------------------------------------------------
(* What provisioning promises. *)

\* A stack is only ever made of the admitted bytes, whatever happens to the
\* files of the package's assembly while they are copied, and of an execution
\* whose manifest was written (prepareVerifiedDeployCopy, deploy).
DeployedIsAdmitted ==
  stack # Absent => /\ outcome = "admitted"
                    /\ stack.from = held.assembly /\ stack.from = ThePackage.inventory

EventsInOrder == <<"DEPLOY_COPY_VERIFIED", "DEPLOY_STARTED", "DEPLOY_SUCCEEDED",
                   "PACKAGE_ASSEMBLY_REVERIFIED", "STACK_ID_RECORDED">>

\* The runner gets targets for its workload only from a stack that is complete
\* and carries the tags the resource manifest declares, when that manifest says
\* succeeded and is in the package and every provisioning event is journaled:
\* a deploy that reported failure, a changed assembly, an unreadable stack or a
\* lost journal line keep the workload back (demoted, withTargets).
TargetsAreEarned ==
  targets => /\ stack # Absent /\ stack.status = "CREATE_COMPLETE" /\ stack.tags = dep.tags
             /\ \A r \in stack.resources : r.complete
             /\ manifest.status = "succeeded" /\ written
             /\ events = EventsInOrder
=============================================================================
