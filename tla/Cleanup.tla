------------------------------- MODULE Cleanup -------------------------------
(***************************************************************************)
(* Cleanup of one execution (cleanup-orchestrator.ts and the steps it      *)
(* dispatches) and its re-runs by operational recovery.  The runner cleans *)
(* up once, from an empty history, into the journal of the package.  Each  *)
(* recovery starts from the actions that journal holds and records its own *)
(* in its amendment, so a later recovery does not see them.                *)
(*                                                                         *)
(* A step never stops the run: whatever its ports answer is folded into a  *)
(* status and the next step follows.  A step is one action here, but for   *)
(* the audit, whose two passes lie 120 s apart.  Around the steps the      *)
(* account goes on: consumers that are still enabled start executions and  *)
(* hold barriers, a straggling invocation creates a resource, a message    *)
(* is dead-lettered, a stack whose deletion was given up on is deleted     *)
(* after all.                                                              *)
(***************************************************************************)
EXTENDS Naturals, Sequences, FiniteSets

CONSTANTS Resources,    \* what the discovery surfaces may report
          Stack,        \* the stack of the execution
          Barriers,     \* treatment partitions that may hold a barrier
          Executions,   \* durable executions
          Messages,     \* dead-lettered messages
          Settings,     \* the accounts, and the failures in them, by name
          MaxRecoveries \* bound: recoveries of one package

(***************************************************************************)
(* The account of cleanup: the actions a run records, folded into what the *)
(* frozen result reports (cleanup-steps.ts, cleanup-action-fold.ts,        *)
(* operational-statuses.ts).  A fold keeps, for each step, its latest      *)
(* status, for each resource its latest step-9 action, and the set of the  *)
(* other item actions recorded, each with its identifier.                  *)
(***************************************************************************)
Steps == 1 .. 12

cleanupStepOrder(mode) ==
  IF mode = "NORMAL" THEN << 1, 2, 3, 4, 5, 6, 7, 8, 9, 10, 11, 12 >>
                     ELSE << 3, 1, 2, 4, 5, 6, 7, 8, 9, 10, 11, 12 >>

mustRunStep(step, succeeded) == step \in {10, 11, 12} \/ step \notin succeeded

StepStatuses == {"none", "started", "succeeded", "failed", "skipped"}

ResourceActions ==
  {"DELETED", "ALREADY_ABSENT", "DELETE_FAILED", "SKIPPED_AMBIGUOUS", "EXCLUDED_BASELINE"}

\* One item action of a step; items the fold ignores are not kept.
Item(action, id) == [action |-> action, id |-> id]

Items ==
  [action : {"APPLIED", "INDUCED"}, id : Barriers \cup Executions]
    \cup [action : {"CAPTURED", "SETTLED"}, id : Messages]

Folds == [status   : [Steps -> StepStatuses],
          resource : [Resources \cup {Stack} -> ResourceActions \cup {"none"}],
          items    : SUBSET Items]

EmptyFold == [status   |-> [s \in Steps |-> "none"],
              resource |-> [r \in Resources \cup {Stack} |-> "none"],
              items    |-> {}]

\* A step records its start, its items (no two on one resource), and its
\* terminal status, "started" when that one never reached the journal.
foldCleanupActions(fold, step, items, status) ==
  [status   |-> [fold.status EXCEPT ![step] = status],
   resource |-> [r \in DOMAIN fold.resource |->
                   IF \E i \in items : i.id = r
                   THEN (CHOOSE i \in items : i.id = r).action
                   ELSE fold.resource[r]],
   items    |-> fold.items \cup (items \cap Items)]

identifiersOf(fold, action) ==
  {i.id : i \in {j \in fold.items : j.action = action}}

succeededSteps(fold) == {s \in Steps : fold.status[s] = "succeeded"}

earlierDeleteFailures(fold) ==
  {r \in DOMAIN fold.resource : fold.resource[r] = "DELETE_FAILED"}

\* Mutant: every message that was not deleted yet.
pendingDlqMessagesAll(fold) == Messages \ identifiersOf(fold, "SETTLED")

pendingDlqMessages(fold) ==
  identifiersOf(fold, "CAPTURED") \ identifiersOf(fold, "SETTLED")

deriveCleanupStatus(fold) ==
  IF earlierDeleteFailures(fold) # {} THEN "partial"
  ELSE IF fold.status[9] = "succeeded" THEN "succeeded"
  ELSE "failed"

\* Mutant: the first pass alone decides between leaks and clean.
deriveLeakAuditStatusFirst(passes) ==
  IF Len(passes) < 2 \/ \E k \in DOMAIN passes : ~ passes[k].ok \/ passes[k].ambiguous # {}
  THEN "inconclusive"
  ELSE IF passes[1].owned # {} THEN "leaks_detected" ELSE "clean"

\* One audit pass: whether every surface answered, and the resources it
\* judged owned and ambiguous.
deriveLeakAuditStatus(passes) ==
  IF Len(passes) < 2 \/ \E k \in DOMAIN passes : ~ passes[k].ok \/ passes[k].ambiguous # {}
  THEN "inconclusive"
  ELSE IF \E k \in DOMAIN passes : passes[k].owned # {} THEN "leaks_detected"
  ELSE "clean"

-----------------------------------------------------------------------------
(***************************************************************************)
(* Whether cleanup owns a resource that a discovery surface reports        *)
(* (ownership.ts, ownership-judgement.ts).  A sighting is what one surface *)
(* tells of one resource: whether its name is on the baseline list,        *)
(* whether the resource manifest names it, what its tags prove, whether    *)
(* the listing of the recorded stack names it, whether its type or name is *)
(* one the execution creates, and whether it was created after the         *)
(* execution manifest froze.                                               *)
(***************************************************************************)
\* "run": every tag the manifest records; "ids": the run and study tags
\* only; "other": readable, but not this run's; "unknown": unreadable.
TagObservations == {"run", "ids", "other", "untaggable", "unknown"}

Sightings == [baseline : BOOLEAN, member : BOOLEAN, tags : TagObservations,
              managed : BOOLEAN, expected : BOOLEAN, late : BOOLEAN]

DirectlyDeletable ==
  {"resource_manifest_and_tags", "tags_name_type_created_after_freeze"}

Owned == DirectlyDeletable \cup {"recorded_stack"}

Decisions == Owned \cup {"excluded_baseline", "ambiguous"}

carriesRunSpecificTags(s) == s.tags \in {"run", "ids"}

isManagedByRecordedStack(s, recorded) ==
  recorded /\ (s.managed \/ (s.member /\ s.tags = "untaggable"))

\* Mutant: the type or the name and the creation time, without the tags.
unrecordedOwnershipUntagged(s, provisioned) == ~ provisioned /\ s.expected /\ s.late

\* Rule 4: a resource the manifest does not name counts only when
\* provisioning never completed.
unrecordedOwnership(s, provisioned) ==
  /\ ~ provisioned
  /\ s.tags = "run"
  /\ s.expected
  /\ s.late

proveOwnership(s, provisioned, recorded) ==
  IF s.baseline THEN "excluded_baseline"
  ELSE IF s.member /\ carriesRunSpecificTags(s)
       THEN "resource_manifest_and_tags"
  ELSE IF ~ s.member /\ unrecordedOwnership(s, provisioned)
       THEN "tags_name_type_created_after_freeze"
  ELSE IF isManagedByRecordedStack(s, recorded) THEN "recorded_stack"
  ELSE "ambiguous"

evidenceRank(decision) ==
  CASE decision = "excluded_baseline"        -> 0
    [] decision \in DirectlyDeletable        -> 1
    [] decision = "recorded_stack"           -> 2
    [] OTHER                                 -> 3

\* The decision kept for one resource among those its sightings support.
judgeOwnership(decisions) ==
  CHOOSE d \in decisions :
    \A other \in decisions : evidenceRank(d) <= evidenceRank(other)

(***************************************************************************)
(* The account.                                                            *)
(***************************************************************************)
\* `named`: its name is recorded, or one of the deterministic names or
\* prefixes that the surface of its service asks for.
Profile == [ours : BOOLEAN, baseline : BOOLEAN, member : BOOLEAN, named : BOOLEAN,
            tags : TagObservations, stacked : BOOLEAN, retained : BOOLEAN,
            expected : BOOLEAN, late : BOOLEAN]

\* A setting: whether the resource manifest records the stack's id, what the
\* resources of the account may be and what can be seen of them, the work
\* that can be under way, the messages that can be dead letters and those
\* that the package's DLQ snapshots hold; and two bounds, the steps during
\* which a port or the journal may fail and the events of the account that
\* cleanup did not cause.
ASSUME SettingsAssumption ==
  /\ MaxRecoveries \in Nat /\ Stack \notin Resources
  /\ \A n \in DOMAIN Settings : LET s == Settings[n] IN
       /\ s.recorded \in BOOLEAN
       /\ \A p \in s.profiles : DOMAIN p \subseteq Resources /\ \A r \in DOMAIN p : p[r] \in Profile
       /\ s.work \subseteq Barriers \cup Executions
       /\ s.held \subseteq s.messages /\ s.messages \subseteq Messages
       /\ s.fallible \subseteq 1 .. 12 /\ s.events \in Nat

\* What tells the execution's resources from others': its stack and the tags
\* that name the run are its own, and the baseline list is older than it.  And
\* what makes them visible: a name, the tags, or the stack, which is asked for
\* what it retained only by its recorded id.
ASSUME AccountAssumption ==
  \A n \in DOMAIN Settings : \A p \in Settings[n].profiles : \A r \in DOMAIN p :
    IF p[r].ours
    THEN /\ ~ p[r].baseline
         /\ \/ p[r].named \/ p[r].tags \in {"run", "ids"}
            \/ p[r].stacked /\ (Settings[n].recorded \/ ~ p[r].retained)
    ELSE ~ p[r].stacked /\ (p[r].baseline \/ p[r].tags \notin {"run", "ids"})

VARIABLES setting,      \* the name of the setting of this behaviour
          profile,      \* the profile of every resource of the account
          provisioned,  \* whether the resource manifest says succeeded
          world,        \* the account: stack, resources, work, dead letters
          run,          \* the cleanup in progress and its position
          mem,          \* the fold of the history and this run's actions
          journal,      \* the fold of what the package's journal holds
          passes,       \* the passes of the audit that is under way
          audit,        \* the latest audit result of this run
          closure,      \* what the last finished run closed with
          events,       \* how many account events happened
          removed,      \* resources of others that cleanup removed
          caused,       \* barriers released and executions stopped by cleanup
          witness,      \* whether something of ours was there at an audit pass
          leftover      \* what step 9 last left of ours without naming it

vars == << setting, profile, provisioned, world, run, mem, journal, passes, audit,
           closure, events, removed, caused, witness, leftover >>

ghosts == << removed, caused, witness, leftover >>

Surfaces == {"tag_index", "stack", "native"}

\* The manifest's stack_id: a manifest without one never says succeeded.
recorded_stack_id == Settings[setting].recorded

\* The position of a run that is over.
Finished == 13

(***************************************************************************)
(* What one sweep of the surfaces tells of the account w.  `failed` are    *)
(* the surfaces whose query failed, `unread` the resources whose native    *)
(* describe failed: their tags are unknown, and the tag index, which       *)
(* trusts nothing it cannot confirm, drops them and counts as failed.      *)
(***************************************************************************)
Lists(w, surface, r) ==
  /\ r \in w.there
  /\ CASE surface = "tag_index" -> profile[r].tags \in {"run", "ids"}
       [] surface = "stack" ->
            profile[r].stacked /\ (w.stack = "gone" => recorded_stack_id /\ profile[r].retained)
       [] OTHER -> profile[r].named

SightingOn(surface, r, unread) ==
  [baseline |-> profile[r].baseline,
   member   |-> profile[r].member,
   tags     |-> IF surface = "stack" THEN "unknown"
                ELSE IF r \in unread /\ profile[r].tags # "untaggable" THEN "unknown"
                ELSE profile[r].tags,
   managed  |-> surface = "stack",
   expected |-> profile[r].expected,
   late     |-> surface = "native" /\ profile[r].late]

SeenOn(w, r, failed, unread) ==
  {surface \in Surfaces \ failed :
     Lists(w, surface, r) /\ ~ (surface = "tag_index" /\ r \in unread)}

sweepSurfaces(w, failed, unread) ==
  {r \in DOMAIN profile : SeenOn(w, r, failed, unread) # {}}

\* Mutant: a describe that failed is taken for an absent resource.
queriesAnsweredListed(w, failed, unread) == "stack" \notin failed

queriesAnswered(w, failed, unread) ==
  failed = {} /\ ~ \E r \in unread : Lists(w, "tag_index", r)

Decision(w, r, failed, unread) ==
  judgeOwnership({proveOwnership(SightingOn(surface, r, unread), provisioned, recorded_stack_id) :
                    surface \in SeenOn(w, r, failed, unread)})

(***************************************************************************)
(* The run and its records.                                                *)
(***************************************************************************)
At(step) == run.at < Finished /\ cleanupStepOrder(run.mode)[run.at] = step

\* The first position from k on whose step a run must execute.
NextStep(mode, k, fold) ==
  LET order == cleanupStepOrder(mode)
      succeeded == succeededSteps(fold)
  IN  CHOOSE j \in k .. 12 :
        /\ mustRunStep(order[j], succeeded)
        /\ \A i \in k .. j - 1 : ~ mustRunStep(order[i], succeeded)

\* Whether the ports of a step, and the journal during it, may fail here.
MayFail(step) == step \in Settings[setting].fallible

\* What the package's journal may hold after a step, and whether it still
\* takes records.  The first append it refuses stops it for good; that one
\* may have reached the file.  The records of a recovery are not its own.
JournalsAfter(step, items, status) ==
  IF ~ run.writing THEN {<< journal, FALSE >>}
  ELSE {<< foldCleanupActions(journal, step, items, status), TRUE >>}
         \cup (IF ~ MayFail(step) THEN {}
               ELSE {foldCleanupActions(journal, step, items, status), journal} \X {FALSE}
                      \cup {foldCleanupActions(journal, step, kept, "started") :
                              kept \in SUBSET items} \X {FALSE})

\* The run itself goes on whatever the journal takes: its memory has all.
recordStep(step, items, status) ==
  /\ mem' = foldCleanupActions(mem, step, items, status)
  /\ LET next == NextStep(run.mode, run.at + 1, mem')
     IN  \E j \in JournalsAfter(step, items, status) :
           /\ journal' = j[1]
           /\ run' = [run EXCEPT !.at = next, !.writing = j[2]]

outcomeFromFailures(failed) == IF failed THEN "failed" ELSE "succeeded"

StartRun(mode, history, original) ==
  /\ mem' = history
  /\ run' = [mode |-> mode, at |-> NextStep(mode, 1, history), original |-> original,
             writing |-> original, count |-> run.count + 1]
  /\ passes' = << >>
  /\ audit' = "inconclusive"
  /\ closure' = "none"
  /\ witness' = FALSE
  /\ UNCHANGED << setting, profile, provisioned, world, journal, events, removed, caused, leftover >>

runNormal == run.count = 0 /\ StartRun("NORMAL", EmptyFold, TRUE)

runEmergency == run.count = 0 /\ StartRun("EMERGENCY", EmptyFold, TRUE)

\* A recovery takes a finalized package, runs in the emergency order, and
\* reads the history of the package's own journal.
recoverExecution ==
  /\ run.count \in 1 .. MaxRecoveries
  /\ run.at = Finished
  /\ StartRun("EMERGENCY", journal, FALSE)

\* The process of a recovery dies: no amendment, and no record of its steps.
CrashRecovery ==
  /\ ~ run.original
  /\ run.at < Finished
  /\ run' = [run EXCEPT !.at = Finished]
  /\ UNCHANGED << setting, profile, provisioned, world, mem, journal, passes, audit, closure,
                  events, ghosts >>

SurfacesFailing(step) == IF MayFail(step) THEN SUBSET Surfaces ELSE {{}}

UnreadTags(step, w) == IF MayFail(step) THEN SUBSET w.there ELSE {{}}

(***************************************************************************)
(* The steps.                                                              *)
(***************************************************************************)
\* Steps 1, 2 and 4: the evidence port answers.  Late evidence is out of a
\* recovery's scope.
EvidenceStep ==
  \E step \in {1, 2, 4} :
    /\ At(step)
    /\ \E status \in {"succeeded", "failed", "skipped"} :
         /\ status # "succeeded" => MayFail(step) \/ ~ run.original
         /\ ~ run.original /\ step # 4 => status = "skipped"
         /\ ~ run.original /\ step = 4 => status # "skipped"
         /\ recordStep(step, {}, status)
    /\ UNCHANGED << setting, profile, provisioned, world, passes, audit, closure, events, ghosts >>

\* Step 3: every mapping reports Disabled or is gone, or the step failed and
\* the mappings may or may not be disabled.
disableConsumers ==
  /\ At(3)
  /\ \E failed, consuming \in BOOLEAN :
       /\ failed => MayFail(3)
       /\ consuming => failed /\ world.consuming
       /\ world' = [world EXCEPT !.consuming = consuming]
       /\ recordStep(3, {}, outcomeFromFailures(failed))
  /\ UNCHANGED << setting, profile, provisioned, passes, audit, closure, events, ghosts >>

\* Step 5: `done` are the releases and stops that succeeded, `lost` those
\* that took effect although the call failed.
releaseBarriersAndStopExecutions ==
  /\ At(5)
  /\ \E done \in SUBSET world.busy : \E lost \in SUBSET (world.busy \ done) :
     \E failed \in BOOLEAN :
       /\ failed => MayFail(5)
       /\ done # world.busy => failed
       /\ world' = [world EXCEPT !.busy = @ \ (done \cup lost)]
       /\ caused' = caused \cup done \cup lost
       /\ recordStep(5, {Item("APPLIED", x) : x \in done}, outcomeFromFailures(failed))
  /\ UNCHANGED << setting, profile, provisioned, passes, audit, closure, events,
                  removed, witness, leftover >>

recordInducedTransitions ==
  /\ At(6)
  /\ recordStep(6, {Item("INDUCED", x) : x \in identifiersOf(mem, "APPLIED")
                                                 \ identifiersOf(mem, "INDUCED")},
                "succeeded")
  /\ UNCHANGED << setting, profile, provisioned, world, passes, audit, closure, events, ghosts >>

\* Step 7: the messages of the DLQ snapshots that can be read.
captureDlqEvidence ==
  /\ At(7)
  /\ \E read \in SUBSET Settings[setting].held : \E failed \in BOOLEAN :
       /\ failed => MayFail(7)
       /\ read # Settings[setting].held => failed
       /\ recordStep(7, {Item("CAPTURED", m) : m \in read}, outcomeFromFailures(failed))
  /\ UNCHANGED << setting, profile, provisioned, world, passes, audit, closure, events, ghosts >>

\* Step 8: `gone` are the pending messages deleted, `told` those the port
\* reports so; the absent ones are reported only when the sweep of every
\* queue proved its end.
deleteCapturedDlqMessages ==
  /\ At(8)
  /\ LET pending == pendingDlqMessages(mem) IN
     \E gone \in SUBSET (pending \cap world.dlq) : \E told \in SUBSET gone :
     \E absent \in {{}, pending \ world.dlq} :
       /\ pending # told \cup absent => MayFail(8)
       /\ world' = [world EXCEPT !.dlq = @ \ gone]
       /\ recordStep(8, {Item("SETTLED", m) : m \in told \cup absent},
                     outcomeFromFailures(pending # told \cup absent))
  /\ UNCHANGED << setting, profile, provisioned, passes, audit, closure, events, ghosts >>

\* The account without the stack: what it manages is gone with it, the
\* queues and tables included, unless the stack retains it.
WithoutStack(w) ==
  [w EXCEPT !.stack = "gone",
            !.there = {r \in @ : ~ profile[r].stacked \/ profile[r].retained},
            !.busy = {}, !.dlq = {}]

Others(rs) == {r \in rs : ~ profile[r].ours}

\* The account when the deletion of the stack is not seen through.
StackStays ==
  IF world.stack = "gone" THEN {world} ELSE {world, [world EXCEPT !.stack = "deleting"]}

\* How the deletion of the recorded stack ends: the action recorded, and the
\* account.  A request may fail, the deletion may fail, and the wait for it
\* may end before it does.
deleteStackAndWait ==
  (IF world.stack = "gone" THEN {"ALREADY_ABSENT", "DELETED"} \X {world}
                           ELSE {<< "DELETED", WithoutStack(world) >>})
    \cup (IF MayFail(9) THEN {"DELETE_FAILED"} \X StackStays ELSE {})

\* Only a stack whose id is recorded is deleted.
deleteRecordedStack ==
  IF recorded_stack_id
  THEN {<< {Item(d[1], Stack)}, d[2] >> : d \in deleteStackAndWait}
  ELSE {<< {}, world >>}

\* A stack of which the manifest holds no id is found by its name, with the
\* run's tags, and judged like any resource.
JudgedStack(w, failed) ==
  IF recorded_stack_id \/ w.stack = "gone" \/ "stack" \in failed THEN {} ELSE {Stack}

\* The decisions of step 9 on what a sweep of the account w shows.
JudgedResources(w, failed, unread) ==
  [r \in sweepSurfaces(w, failed, unread) \cup JudgedStack(w, failed) |->
     IF r \in JudgedStack(w, failed) THEN "tags_name_type_created_after_freeze"
     ELSE Decision(w, r, failed, unread)]

\* What step 9 does with one judged resource; `refused` are the resources
\* whose deletion call failed.  The deleter has no request for a stack.
settleRemainingResource(r, decision, refused) ==
  CASE decision = "excluded_baseline" -> "EXCLUDED_BASELINE"
    [] decision = "ambiguous" -> "SKIPPED_AMBIGUOUS"
    [] decision = "recorded_stack" \/ r \in refused \cup {Stack} -> "DELETE_FAILED"
    [] OTHER -> "DELETED"

\* Mutant: what is gone is not recorded.
recordVanishedFailuresNone(judged, answered) == {}

recordVanishedFailures(judged, answered) ==
  IF answered
  THEN {Item("ALREADY_ABSENT", r) :
          r \in earlierDeleteFailures(mem) \ (judged \cup (IF recorded_stack_id THEN {Stack} ELSE {}))}
  ELSE {}

directlyDeletable(decision) == {r \in DOMAIN decision \ {Stack} : decision[r] \in DirectlyDeletable}

\* What of ours is in the account w and not left there for a reason.
Unnamed(w, items) ==
  {r \in w.there : profile[r].ours /\ ~ \E i \in items : i.id = r /\ i.action = "SKIPPED_AMBIGUOUS"}
    \cup (IF w.stack = "gone" THEN {} ELSE {Stack})

\* The rest of step 9 on the account w, once the recorded stack is deleted or
\* not, which `first` records, and what the surfaces showed is judged.
settleResources(first, w, decision, answered, cut, refused, lost) ==
  LET items == first
                 \cup {Item(settleRemainingResource(r, decision[r], refused), r) : r \in DOMAIN decision \ cut}
                 \cup recordVanishedFailures(DOMAIN decision, answered /\ cut = {})
      deleted == directlyDeletable(decision) \ (cut \cup refused)
  IN  /\ world' = [w EXCEPT !.there = @ \ (deleted \cup lost)]
      /\ removed' = removed \cup Others(world.there \ world'.there)
      /\ leftover' = Unnamed(world', items)
      /\ recordStep(9, items,
           outcomeFromFailures(~ answered \/ cut # {} \/ \E i \in items : i.action = "DELETE_FAILED"))

\* Step 9: the stack first, then what the surfaces still show.  `cut` are
\* the resources the step never came to because a port threw, `refused` the
\* deletions that failed, `lost` those of them that took effect.
deleteOwnedResources ==
  /\ At(9)
  /\ \E stack \in deleteRecordedStack : \E failed \in SurfacesFailing(9) :
     \E unread \in UnreadTags(9, stack[2]) :
     \E decision \in {JudgedResources(stack[2], failed, unread)} :
     \E cut \in SUBSET DOMAIN decision : \E refused \in SUBSET (directlyDeletable(decision) \ cut) :
     \E lost \in SUBSET refused :
       /\ cut # {} \/ refused # {} => MayFail(9)
       /\ settleResources(stack[1], stack[2], decision, queriesAnswered(stack[2], failed, unread),
                          cut, refused, lost)
  /\ UNCHANGED << setting, profile, provisioned, passes, audit, closure, events, caused, witness >>

\* Step 9 when the port of the stack, or the sleeper, throws before how the
\* stack's deletion ended is recorded: the step fails and does nothing else.
AbandonDeletion ==
  /\ At(9)
  /\ MayFail(9)
  /\ recorded_stack_id
  /\ world' \in StackStays
  /\ leftover' = Unnamed(world', {})
  /\ recordStep(9, {}, "failed")
  /\ UNCHANGED << setting, profile, provisioned, passes, audit, closure, events, removed, caused, witness >>

\* One audit pass.  A remaining stack and a running execution are owned.
auditPass(failed, unread) ==
  LET judged == sweepSurfaces(world, failed, unread)
      kind(r) == Decision(world, r, failed, unread)
  IN  [ok        |-> queriesAnswered(world, failed, unread),
       owned     |-> {r \in judged : kind(r) \in Owned}
                       \cup (IF world.stack # "gone" /\ "stack" \notin failed
                             THEN {Stack} ELSE {})
                       \cup (IF "native" \in failed THEN {} ELSE world.busy \cap Executions),
       ambiguous |-> {r \in judged : kind(r) = "ambiguous"}]

OursIsThere == world.stack # "gone" \/ \E r \in world.there : profile[r].ours

FirstPass ==
  /\ At(10)
  /\ passes = << >>
  /\ \E failed \in SurfacesFailing(10) : \E unread \in UnreadTags(10, world) :
       passes' = << auditPass(failed, unread) >>
  /\ witness' = OursIsThere
  /\ UNCHANGED << setting, profile, provisioned, world, run, mem, journal, audit, closure, events,
                  removed, caused, leftover >>

\* Step 10 ends: with a second pass once 120 s have passed, with the first
\* one alone when the sleeper never lets them pass, or with none when the
\* audit itself threw.
auditOutcome(all) ==
  outcomeFromFailures(all = << >> \/ \E k \in DOMAIN all : ~ all[k].ok)

EndAudit(all) ==
  /\ passes' = << >>
  /\ audit' = deriveLeakAuditStatus(all)
  /\ recordStep(10, {}, auditOutcome(all))
  /\ UNCHANGED << setting, profile, provisioned, world, closure, events, removed, caused, leftover >>

SecondPass ==
  /\ At(10)
  /\ passes # << >>
  /\ \E failed \in SurfacesFailing(10) : \E unread \in UnreadTags(10, world) :
       EndAudit(Append(passes, auditPass(failed, unread)))
  /\ witness' = (witness \/ OursIsThere)

AbandonAudit ==
  /\ At(10)
  /\ MayFail(10)
  /\ EndAudit(passes) \/ EndAudit(<< >>)
  /\ UNCHANGED witness

stableAbsenceOutcome ==
  /\ At(11)
  /\ recordStep(11, {}, outcomeFromFailures(audit # "clean"))
  /\ UNCHANGED << setting, profile, provisioned, world, passes, audit, closure, events, ghosts >>

\* Step 12, and what the caller closes with: the runner calls a closure
\* clean only when it is also frozen in the package.
freeze ==
  /\ At(12)
  /\ \E frozen \in BOOLEAN :
       /\ ~ frozen => MayFail(12)
       /\ mem' = foldCleanupActions(mem, 12, {}, outcomeFromFailures(~ frozen))
       /\ \E j \in JournalsAfter(12, {}, outcomeFromFailures(~ frozen)) : journal' = j[1]
       /\ closure' = IF /\ deriveCleanupStatus(mem) = "succeeded"
                        /\ audit = "clean"
                        /\ run.original => frozen
                     THEN "clean" ELSE "unclean"
  /\ run' = [run EXCEPT !.at = Finished, !.writing = FALSE]
  /\ UNCHANGED << setting, profile, provisioned, world, passes, audit, events, ghosts >>

StepAction ==
  \/ EvidenceStep \/ disableConsumers \/ releaseBarriersAndStopExecutions
  \/ recordInducedTransitions \/ captureDlqEvidence \/ deleteCapturedDlqMessages
  \/ deleteOwnedResources \/ AbandonDeletion \/ FirstPass \/ SecondPass \/ AbandonAudit
  \/ stableAbsenceOutcome \/ freeze

(***************************************************************************)
(* What the account does by itself.                                        *)
(***************************************************************************)
Straggler(r) == profile[r].late /\ ~ profile[r].stacked

\* Enabled consumers start work that holds a barrier or runs an execution.
Consume ==
  /\ world.consuming
  /\ world.stack # "gone"
  /\ \E x \in Settings[setting].work \ (world.busy \cup caused) :
       world' = [world EXCEPT !.busy = @ \cup {x}]

\* Work that is under way ends without cleanup.
WorkEnds == \E x \in world.busy : world' = [world EXCEPT !.busy = @ \ {x}]

\* A straggling invocation creates a resource, or creates it again.
Straggle ==
  \E r \in DOMAIN profile \ world.there :
    /\ Straggler(r)
    /\ world' = [world EXCEPT !.there = @ \cup {r}]

DeadLetter ==
  /\ world.stack # "gone"
  /\ \E m \in Settings[setting].messages \ world.lettered :
       world' = [world EXCEPT !.dlq = @ \cup {m}, !.lettered = @ \cup {m}]

AccountEvent ==
  /\ events < Settings[setting].events
  /\ events' = events + 1
  /\ Consume \/ WorkEnds \/ Straggle \/ DeadLetter
  /\ UNCHANGED << setting, profile, provisioned, run, mem, journal, passes, audit, closure, ghosts >>

\* A deletion cleanup gave up waiting for completes.
StackVanishes ==
  /\ world.stack = "deleting"
  /\ world' = WithoutStack(world)
  /\ removed' = removed \cup Others(world.there \ world'.there)
  /\ UNCHANGED << setting, profile, provisioned, run, mem, journal, passes, audit, closure, events,
                  caused, witness, leftover >>

Init ==
  /\ setting \in DOMAIN Settings
  /\ profile \in Settings[setting].profiles
  /\ provisioned \in (IF recorded_stack_id THEN BOOLEAN ELSE {FALSE})
  /\ LET present == [stack : {"present"},
                     there : {there \in SUBSET DOMAIN profile :
                                \A r \in DOMAIN profile \ there : Straggler(r)},
                     consuming : {TRUE}, busy : SUBSET Settings[setting].work,
                     dlq : {Settings[setting].held}, lettered : {Settings[setting].held}]
     IN  world \in present \cup (IF recorded_stack_id THEN {} ELSE {WithoutStack(w) : w \in present})
  /\ run = [mode |-> "NORMAL", at |-> Finished, original |-> TRUE, writing |-> FALSE,
            count |-> 0]
  /\ mem = EmptyFold
  /\ journal = EmptyFold
  /\ passes = << >>
  /\ audit = "inconclusive"
  /\ closure = "none"
  /\ events = 0
  /\ removed = {}
  /\ caused = {}
  /\ witness = FALSE
  /\ leftover = {}

Next ==
  \/ runNormal \/ runEmergency \/ recoverExecution \/ CrashRecovery
  \/ StepAction \/ AccountEvent \/ StackVanishes

Spec == Init /\ [][Next]_vars

(***************************************************************************)
(* Properties.                                                             *)
(***************************************************************************)
\* The types of the cleanup's account of itself and of the AWS account.
TypeOK ==
  /\ setting \in DOMAIN Settings
  /\ profile \in Settings[setting].profiles
  /\ provisioned \in BOOLEAN
  /\ world \in [stack : {"present", "deleting", "gone"}, there : SUBSET Resources,
                consuming : BOOLEAN, busy : SUBSET (Barriers \cup Executions),
                dlq : SUBSET Messages, lettered : SUBSET Messages]
  /\ run \in [mode : {"NORMAL", "EMERGENCY"}, at : 1 .. Finished, original : BOOLEAN,
              writing : BOOLEAN, count : 0 .. MaxRecoveries + 1]
  /\ mem \in Folds /\ journal \in Folds
  /\ passes \in Seq([ok : BOOLEAN, owned : SUBSET (Resources \cup Executions \cup {Stack}),
                     ambiguous : SUBSET Resources])
  /\ audit \in {"clean", "leaks_detected", "inconclusive"}
  /\ closure \in {"none", "clean", "unclean"}
  /\ events \in 0 .. Settings[setting].events
  /\ removed \subseteq Resources /\ leftover \subseteq Resources \cup {Stack}
  /\ caused \subseteq Barriers \cup Executions
  /\ witness \in BOOLEAN

\* AC-RUA-011: over any number of runs, whatever surfaces fail and whatever
\* tags cannot be read, cleanup removes no resource of someone else: not
\* directly, and not through the stack.
OnlyOwnIsRemoved == removed = {}

\* A run that closes clean, which releases the lease, saw nothing of the
\* execution at either pass of its audit: not a resource, not the stack, not
\* one that a straggler created again between the passes.
CleanIsAbsent == closure = "clean" => ~ witness

\* A run that reports cleanup succeeded, by deleting or by trusting an
\* earlier run's record that it did, names every resource of the execution
\* that was still there when the deletion step ended, and why it left it; and
\* the stack, recorded or not, was gone.
SucceededAccountsForAll ==
  closure # "none" /\ deriveCleanupStatus(mem) = "succeeded" => leftover = {}

\* A deletion failure of an earlier run never outlives the deletion step
\* that succeeds after it: a resource that is gone by then does not keep the
\* closure partial (owned-resource-deletion.ts, recordVanishedFailures).
FailuresAreSuperseded ==
  closure # "none" /\ mem.status[9] = "succeeded" => deriveCleanupStatus(mem) = "succeeded"

\* Only transitions that cleanup caused are recorded as induced by it, and
\* the runner's own cleanup records every one it knows it applied, however
\* its other calls fail and whenever its journal stops.
InducedByCleanup ==
  /\ identifiersOf(mem, "INDUCED") \subseteq caused
  /\ run.original /\ closure # "none" =>
       identifiersOf(mem, "APPLIED") \subseteq identifiersOf(mem, "INDUCED")

\* Step 8 takes from the queues only messages that the package holds, so
\* while the queues exist an uncaptured message is still in its queue.
CapturedBeforeDeleted == world.stack # "gone" => world.lettered \ world.dlq \subseteq Settings[setting].held

\* execution-quiescing.ts on step 6: it "records every transition step 5
\* applied, in any run, that is not recorded yet".
AppliedIsRecorded ==
  closure # "none" => identifiersOf(mem, "APPLIED") \subseteq identifiersOf(mem, "INDUCED")

\* dlq-cleanup.ts: "a message that never reached the evidence package stays
\* in the queue".
UncapturedStays == world.lettered \ world.dlq \subseteq Settings[setting].held
=============================================================================
