----------------------------- MODULE Admission -----------------------------
(***************************************************************************)
(* One admission attempt (admission/admit-execution.ts): the checks A1 to  *)
(* A15 in order, the preflight journal that records each of them, the      *)
(* rejection file of a failed check, and the package draft of an admitted  *)
(* execution, while people go on working in the repository: they edit      *)
(* files, commit and install packages between any two reads.               *)
(*                                                                         *)
(* The attempt reads the repository at several moments: its git state at   *)
(* A5, the work tree and the installed packages when it synthesizes the    *)
(* deployment assembly (A12), and HEAD, the work tree and the installed    *)
(* packages again, one file at a time, when it recomputes the transport    *)
(* scope (A13).                                                            *)
(***************************************************************************)
EXTENDS AdmissionChecks

CONSTANTS
  Ignored,          \* paths that git ignores
  Worlds,           \* the situations an attempt starts in
  AssetEntryPoints, \* the entry points of every deployed function
  INFRA_PATH,       \* the path of the infrastructure code
  TemplateOf        \* <<content of the infrastructure code, execution>> -> resources

\* The infrastructure code and the lockfile are files that git tracks or may track;
\* the identifiers of a world are known.
ASSUME TrackedAssumption ==
  /\ {INFRA_PATH, PACKAGE_LOCK_PATH} \subseteq Paths \ (Ignored \cup Outside)
  /\ \A w \in Worlds : w.readings.ids # Absent

VARIABLES
  world,      \* rigid: the request and what the checks read, see Worlds
  head, work, installed,    \* the repository
  changes,    \* how often somebody has changed something
  moved,      \* the repository has changed since the attempt read its git state
  faults,     \* how many operations have failed
  pc, held,   \* where the attempt is, and what it holds in memory
  journal,    \* the preflight journal: lines and whether it is read-only
  rejection,  \* the rejection file
  package,    \* the execution's package directory: file -> content
  outcome

repository == <<head, work, installed>>
records == <<journal, rejection, package, outcome>>
admissionVars == <<world, head, work, installed, changes, moved, faults, pc, held, journal,
                   rejection, package, outcome>>

\* What synthesis writes, and what else the assembly's directory may hold.  A
\* directory is a function from these to contents; a content stands for the
\* bytes and the mode of a file, and is Absent where there is none.
ASSEMBLY_FILES == {"manifest.json", "template.json", "asset"}
ASSEMBLY_PATHS == ASSEMBLY_FILES \cup {"read.lock"}
DRAFT_RECORDS == <<"environment_input", "schemas", "source_provenance", "oracle_revision_check",
                   "transport_scope_snapshot">>
LAST_RECORDS == <<"deployment_assembly_inventory", "preflight_journal", "execution_manifest">>
PackageFiles == {DRAFT_RECORDS[i] : i \in DOMAIN DRAFT_RECORDS}
                  \cup {LAST_RECORDS[i] : i \in DOMAIN LAST_RECORDS} \cup {"assembly"}

NothingHeld == [source |-> Absent, selected |-> Absent, assembly |-> Absent,
                rc |-> NewRecomputation, snapshot |-> Absent, lines |-> <<>>, verdict |-> passed,
                written |-> 0]

AdmissionInit ==
  /\ world \in Worlds
  /\ head = world.head /\ work = world.work /\ installed = world.installed
  /\ changes = 0 /\ moved = FALSE /\ faults = 0
  /\ pc = "A1" /\ held = NothingHeld
  /\ journal = [lines |-> <<>>, final |-> FALSE]
  /\ rejection = Absent
  /\ package = [f \in PackageFiles |-> Absent]
  /\ outcome = "none"

MayFail == faults < world.maxFaults
Fails == MayFail /\ faults' = faults + 1
Works == UNCHANGED faults

-----------------------------------------------------------------------------
(* The repository moves on.  A world bounds how often, and where. *)

Changing == /\ outcome = "none" /\ changes < world.maxChanges
            /\ changes' = changes + 1
            /\ moved' = (moved \/ held.source # Absent)
            /\ UNCHANGED <<world, faults, pc, held, records>>

EditFile == \E p \in world.editable \cap Paths, content \in world.edits :
  /\ Changing
  /\ content # work[p]
  /\ work' = [work EXCEPT ![p] = content]
  /\ UNCHANGED <<head, installed>>

Committed(tree) == [p \in Paths |-> IF p \in Ignored \cup Outside THEN 0 ELSE tree[p]]
Commit == /\ Changing
          /\ head # Committed(work)
          /\ head' = Committed(work)
          /\ UNCHANGED <<work, installed>>

Install == \E p \in world.editable \cap Packages, version \in world.edits :
  /\ Changing
  /\ version # installed[p]
  /\ installed' = [installed EXCEPT ![p] = version]
  /\ UNCHANGED <<head, work>>

\* A file of the package's assembly is changed, removed, added, or put back as
\* it was.  The tags of a changed manifest still name the execution, or are gone.
EditFrozen == \E f \in ASSEMBLY_PATHS :
  /\ package["assembly"] # Absent
  /\ changes < world.maxFrozenEdits
  /\ changes' = changes + 1
  /\ \E content \in {{}, Absent, held.assembly[f]} \cup
                    (IF f = "manifest.json"
                     THEN {{<<"suc:run_id", world.readings.ids[2]>>, <<"suc:owner", "other">>}} ELSE {}) :
        /\ content # package["assembly"][f]
        /\ package' = [package EXCEPT !["assembly"][f] = content]
  /\ UNCHANGED <<world, repository, moved, faults, pc, held, journal, rejection, outcome>>

\* The inventory's entry of a file is changed, its own digest with it or not.
EditInventory == \E f \in ASSEMBLY_FILES, recomputed \in BOOLEAN :
  /\ package["deployment_assembly_inventory"] # Absent
  /\ changes < world.maxFrozenEdits
  /\ changes' = changes + 1
  /\ LET inventory == package["deployment_assembly_inventory"]
         files == [inventory.files EXCEPT ![f] = {}]
     IN package' = [package EXCEPT !["deployment_assembly_inventory"] =
                      [files |-> files,
                       inventory_sha256 |-> IF recomputed THEN files ELSE inventory.inventory_sha256]]
  /\ UNCHANGED <<world, repository, moved, faults, pc, held, journal, rejection, outcome>>

-----------------------------------------------------------------------------
(* The attempt's own records. *)

\* A check's line is appended first; a failing verdict then rejects.
record(checkId, verdict, next, keep) ==
  \/ /\ Works
     /\ LET line == [check |-> checkId, passed |-> verdict.passed, class |-> verdict.class]
        IN /\ journal' = [journal EXCEPT !.lines = Append(@, line)]
           /\ held' = [keep EXCEPT !.lines = Append(@, line), !.verdict = verdict]
           /\ pc' = IF verdict.passed THEN next ELSE "reject"
     /\ UNCHANGED <<rejection, package, outcome>>
  \/ /\ Fails /\ pc' = "failed" /\ held' = keep
     /\ UNCHANGED records

Steady == UNCHANGED <<world, head, work, installed, changes, moved>>

reject ==
  /\ pc = "reject" /\ Steady /\ UNCHANGED held
  /\ \/ /\ Works /\ pc' = "rejected"
        /\ rejection' = [check |-> held.lines[Len(held.lines)].check, class |-> held.verdict.class]
        /\ UNCHANGED <<journal, package, outcome>>
     \/ /\ Fails /\ pc' = "failed" /\ UNCHANGED records

finalizeRejected ==
  /\ pc = "rejected" /\ Steady /\ UNCHANGED held
  /\ \/ /\ Works /\ pc' = "done" /\ outcome' = "rejected"
        /\ journal' = [journal EXCEPT !.final = TRUE]
        /\ UNCHANGED <<rejection, package>>
     \/ /\ Fails /\ pc' = "failed" /\ UNCHANGED records

\* Ending as failed finalizes the journal and ignores whether that worked.
fail ==
  /\ pc = "failed" /\ Steady /\ UNCHANGED held
  /\ \/ Works /\ journal' = [journal EXCEPT !.final = TRUE]
     \/ Fails /\ UNCHANGED journal
  /\ pc' = "done" /\ outcome' = "failed"
  /\ UNCHANGED <<rejection, package>>

Crash ==
  /\ pc \notin {"done", "crashed"} /\ Steady
  /\ Fails /\ pc' = "crashed" /\ UNCHANGED <<held, records>>

-----------------------------------------------------------------------------
(* The checks that judge one reading. *)

\* The verdict of each check that reads nothing of the repository.
CheckVerdict(checkId) ==
  LET r == world.readings IN
  CASE checkId = "A1" -> passed
    [] checkId = "A2" -> assessEnvironmentInput(r.environment)
    [] checkId = "A3" -> assessFinancialInput(r.financial)
    [] checkId = "A4" -> assessIdentityInput(r.financial, world.kind, world.variant)
    [] checkId = "A6" -> assessCapabilities(r, world.kind)
    [] checkId = "A7" -> assessCallerIdentity(r.caller, r.environment.allowlisted)
    [] checkId = "A8" -> assessCoordination(r.table, r.lease, r.environment)
    [] checkId = "A9" -> assessOracleAttestation(r.golden)
    [] checkId = "A10" -> assessQualification(world.kind, world.selection, world.probe)
    [] checkId = "A11" -> declareExecution(world.kind, held.selected # Absent, r.ids)
    [] checkId = "A14" -> assessEstimatedCost(r.cost)

NextCheck == [A1 |-> "A2", A2 |-> "A3", A3 |-> "A4", A4 |-> "git_status", A6 |-> "A7", A7 |-> "A8",
              A8 |-> "A9", A9 |-> "A10", A10 |-> "A11", A11 |-> "synthesize", A14 |-> "catalogue"]

AssessReading ==
  /\ pc \in DOMAIN NextCheck /\ Steady
  /\ record(pc, CheckVerdict(pc), NextCheck[pc],
            IF pc = "A10" /\ CheckVerdict(pc).passed /\ world.selection # Absent
            THEN [held EXCEPT !.selected = world.probe.snapshot] ELSE held)

-----------------------------------------------------------------------------
(* A5: the git state, read by one command after the other. *)

dirtyEntries == {p \in Paths \ (Ignored \cup Outside) : work[p] # head[p]}

\* Before the first commit nothing is committed, and HEAD has no tree.
Unborn(tree) == \A p \in Paths : tree[p] = 0

GitStatus(malformed) ==
  [commit |-> head, tree |-> Absent, lock |-> 0, tracked |-> FALSE, dirty |-> dirtyEntries,
   malformed |-> malformed, in_progress |-> world.inProgress]

readGitStatus ==
  /\ pc = "git_status" /\ Steady /\ UNCHANGED records
  /\ \/ /\ \/ Works /\ held' = [held EXCEPT !.source = GitStatus(FALSE)]
           \/ Fails /\ held' = [held EXCEPT !.source = GitStatus(TRUE)]    \* a record nobody can read
        /\ pc' = "git_tree"
     \/ Fails /\ pc' = "git_failed" /\ UNCHANGED held

\* A failed rev-parse only leaves the tree out.
readGitTree ==
  /\ pc = "git_tree" /\ Steady /\ UNCHANGED records
  /\ \/ /\ Works
        /\ held' = [held EXCEPT !.source.tree = IF Unborn(head) THEN Absent ELSE head]
     \/ Fails /\ UNCHANGED held
  /\ pc' = "git_lockfile"

\* ls-files asks the index, which holds what is committed, and is not believed
\* when it fails; the lockfile's bytes are the work tree's.
readLockfile ==
  /\ pc = "git_lockfile" /\ Steady /\ UNCHANGED records
  /\ \/ /\ \E tracked \in {head[PACKAGE_LOCK_PATH] > 0, FALSE} :
             /\ IF tracked = (head[PACKAGE_LOCK_PATH] > 0) THEN Works ELSE Fails
             /\ held' = [held EXCEPT !.source.lock = work[PACKAGE_LOCK_PATH], !.source.tracked = tracked]
        /\ pc' = "A5"
     \/ Fails /\ pc' = "git_failed" /\ UNCHANGED held     \* the bytes are unreadable

sourceProvenanceReasons(source) ==
  Reason(~Unborn(source.commit), "HEAD_UNRESOLVED")
    \cup Reason(source.tree # Absent, "TREE_UNRESOLVED")
    \cup Reason(~source.in_progress, "OPERATION_IN_PROGRESS")
    \cup Reason(~source.malformed, "GIT_STATUS_UNREADABLE")
    \cup Reason(source.dirty = {}, "WORK_TREE_DIRTY")
    \cup Reason(source.tracked, "LOCKFILE_UNTRACKED")

\* As if files that git does not track yet were not dirty.
trackedChangesOnly(source) ==
  sourceProvenanceReasons([source EXCEPT !.dirty = {p \in @ : source.commit[p] > 0}])

assessSourceProvenanceTracked(source) ==
  verdictOf("SOURCE_PROVENANCE", trackedChangesOnly(source) \cup Reason(source.lock > 0, "LOCKFILE_MISSING"))
assessSourceProvenance(source) ==
  verdictOf("SOURCE_PROVENANCE",
            sourceProvenanceReasons(source) \cup Reason(source.lock > 0, "LOCKFILE_MISSING"))

AssessSource ==
  /\ Steady
  /\ \/ pc = "A5" /\ record("A5", assessSourceProvenance(held.source), "A6", held)
     \/ /\ pc = "git_failed"
        /\ record("A5", failed("SOURCE_PROVENANCE", {"GIT_STATE_UNREADABLE"}), "A6", held)

-----------------------------------------------------------------------------
(* A12: the deployment assembly. *)

ExecutionId == world.readings.ids[2]

\* The bytes of the bundled function code: every reached source and package.
BundleOf(entryPoints, tree, packages) ==
  {<<p, tree[p]>> : p \in (UNION {Reached(e, tree) : e \in entryPoints}) \cap Paths}
    \cup {<<p, packages[p]>> : p \in (UNION {Reached(e, tree) : e \in entryPoints}) \cap Packages}

SynthOf(tree, packages, execution) ==
  [f \in ASSEMBLY_PATHS |->
     CASE f = "manifest.json" -> {<<"suc:run_id", execution>>, <<"suc:owner", "study">>}
       [] f = "template.json" -> TemplateOf[<<tree[INFRA_PATH], execution>>]
       [] f = "asset" -> BundleOf(AssetEntryPoints, tree, packages)
       [] OTHER -> Absent]

\* Synthesis bundles the work tree with the installed packages and stops on
\* what does not resolve.  What it wrote may be refused: the command failed, or
\* its directory cannot be read, holds what the inventory refuses or no
\* template, or its stack declares the tags of another execution.
synthesizeAssembly ==
  /\ pc = "synthesize" /\ Steady
  /\ LET resolved == resolveBundles(AssetEntryPoints, work, installed)
         failure == IF work[INFRA_PATH] = 0 \/ ~resolved.ok THEN {"SYNTH_FAILED"} ELSE {}
         verdict == verdictOf("SAFETY", failure)
     IN \/ record("A12", verdict, "scope",
                  IF verdict.passed
                  THEN [held EXCEPT !.assembly = SynthOf(work, installed, ExecutionId)] ELSE held)
        \/ Fails /\ pc' = "synthesis_failed" /\ UNCHANGED <<held, records>>

AssemblyRefusals == {"SYNTH_FAILED", "ASSEMBLY_UNREADABLE", "ASSEMBLY_NOT_INVENTORIED",
                     "TEMPLATE_UNREADABLE", "OWNERSHIP_STRATEGY_MISSING", "OWNERSHIP_TAG_INVALID"}
RefuseAssembly ==
  /\ pc = "synthesis_failed" /\ Steady
  /\ \E reason \in AssemblyRefusals : record("A12", failed("SAFETY", {reason}), "scope", held)

-----------------------------------------------------------------------------
(* A13: the transport scope. *)

RecomputeScope ==
  /\ pc = "scope" /\ held.rc.at \notin {"compute", "threw"} /\ Steady
  /\ LET next == recomputeScopeSnapshot(held.rc, head, work, installed, <<>>)
     IN \/ /\ next.ok /\ Works /\ UNCHANGED <<pc, records>>
           /\ held' = [held EXCEPT !.rc = next.value]
        \/ /\ ~next.ok
           /\ record("A13", failed("QUALIFICATION", next.error), "A14", held)
        \/ /\ Fails /\ UNCHANGED records      \* the port throws
           /\ held' = [held EXCEPT !.rc.at = "threw"]
           /\ UNCHANGED pc

assessTransportScope(rc, template, selected) ==
  LET snapshot == IF rc.at = "threw" THEN Err({"SOURCE_READ_FAILED"})
                  ELSE computeScopeSnapshot(rc, template)
  IN IF ~snapshot.ok
     THEN [verdict |-> failedWithAll("QUALIFICATION", snapshot.error, "SCOPE_NOT_RECOMPUTED"),
           snapshot |-> Absent]
     ELSE [verdict |-> IF selected = Absent THEN passed
                       ELSE verdictOf("QUALIFICATION", compareScopeSnapshots(selected, snapshot.value)),
           snapshot |-> snapshot.value]

AssessScope ==
  /\ pc = "scope" /\ held.rc.at \in {"compute", "threw"} /\ Steady
  /\ LET scope == assessTransportScope(held.rc, held.assembly["template.json"], held.selected)
     IN record("A13", scope.verdict, "A14", [held EXCEPT !.snapshot = scope.snapshot])

-----------------------------------------------------------------------------
(* A15: the manifest and the package draft. *)

readSchemaCatalog ==
  /\ pc = "catalogue" /\ Steady /\ UNCHANGED <<held, records>>
  /\ \/ Works /\ pc' = "A15"
     \/ Fails /\ pc' = "failed"

\* The manifest is recorded as frozen before the draft is written.
RecordManifest ==
  /\ pc = "A15" /\ Steady
  /\ record("A15", passed, "finalize", held)

finalize ==
  /\ pc = "finalize" /\ Steady /\ UNCHANGED held
  /\ \/ /\ Works /\ journal' = [journal EXCEPT !.final = TRUE]
        /\ pc' = "draft" /\ UNCHANGED <<rejection, package, outcome>>
     \/ Fails /\ pc' = "failed" /\ UNCHANGED records

buildExecutionManifest(inMemory) ==
  [commit |-> inMemory.source.commit, tree |-> inMemory.source.tree, lock |-> inMemory.source.lock,
   execution |-> ExecutionId, snapshot |-> inMemory.snapshot, inventory |-> inMemory.assembly]

\* The draft's writes in order: the records, the assembly, its re-reading,
\* then the inventory, the journal's copy and the manifest.
DraftStepsManifestFirst == <<"execution_manifest">> \o DRAFT_RECORDS \o <<"assembly", "reread">>
                             \o SubSeq(LAST_RECORDS, 1, 2)
DraftSteps == DRAFT_RECORDS \o <<"assembly", "reread">> \o LAST_RECORDS

DraftContent(file) ==
  CASE file = "assembly" -> held.assembly
    [] file = "deployment_assembly_inventory" ->
         [files |-> held.assembly, inventory_sha256 |-> held.assembly]
    [] file = "execution_manifest" -> buildExecutionManifest(held)
    [] file = "preflight_journal" -> held.lines
    [] file = "transport_scope_snapshot" -> held.snapshot
    [] OTHER -> world.readings.ids

writePackageDraft ==
  /\ pc = "draft" /\ held.written < Len(DraftSteps) /\ Steady
  /\ UNCHANGED <<journal, rejection, outcome>>
  /\ LET file == DraftSteps[held.written + 1]
     IN \/ /\ file # "reread" /\ Works /\ UNCHANGED pc
           /\ package' = [package EXCEPT ![file] = DraftContent(file)]
           /\ held' = [held EXCEPT !.written = @ + 1]
        \/ /\ file = "reread" /\ Works /\ UNCHANGED package     \* freezeAssemblyCopy
           /\ IF package["assembly"] = held.assembly
              THEN UNCHANGED pc /\ held' = [held EXCEPT !.written = @ + 1]
              ELSE pc' = "failed" /\ UNCHANGED held
        \/ /\ Fails /\ pc' = "failed" /\ UNCHANGED <<held, package>>

Admitted ==
  /\ pc = "draft" /\ held.written = Len(DraftSteps) /\ Steady /\ Works
  /\ pc' = "done" /\ outcome' = "admitted"
  /\ UNCHANGED <<held, journal, rejection, package>>

admitExecution ==
  \/ AssessReading \/ readGitStatus \/ readGitTree \/ readLockfile \/ AssessSource
  \/ synthesizeAssembly \/ RefuseAssembly \/ RecomputeScope \/ AssessScope \/ readSchemaCatalog \/ RecordManifest
  \/ finalize \/ writePackageDraft \/ Admitted \/ reject \/ finalizeRejected \/ fail \/ Crash
-----------------------------------------------------------------------------
(* What admission promises. *)

ThePackage == package["execution_manifest"]

\* What a policy's projections select, as the template has it.
Configured(policy, template) ==
  [projection \in policy.configuration_projections |->
     LET selected == Selected(template, projection)
     IN [i \in DOMAIN selected |->
           [path \in projection.property_paths |-> valueAtPath(selected[i].properties, path)]]]

\* Two texts of two templates say the same although they name two executions:
\* two ARNs; the same pieces but for the identifiers in them; or the logical
\* ids of the same construct.
SameText(text1, template1, text2, template2) ==
  \/ text1[1].form = "arn" /\ text2[1].form = "arn"
  \/ /\ DOMAIN text1 = DOMAIN text2
     /\ \A i \in DOMAIN text1 :
          \/ text1[i] = text2[i]
          \/ /\ text1[i].form = text2[i].form /\ text1[i].kept = text2[i].kept
             /\ text1[i].form \in {"uuid", "prefix", "stack"}
     /\ \A r1 \in template1, r2 \in template2 :
          r1.logical_id = text1 /\ r2.logical_id = text2 => r1.identity = r2.identity
  \/ \E r1 \in template1, r2 \in template2 :
       r1.logical_id = text1 /\ r2.logical_id = text2 /\ r1.identity = r2.identity

\* Two values say the same, whatever their names and tags are.
SameValue(value1, template1, value2, template2) ==
  IF value1 = Absent \/ value2 = Absent THEN value1 = value2
  ELSE LET unnamed(value) == {p \in DOMAIN value : Range(p) \cap STRIPPED_PROPERTY_KEYS = {}}
       IN /\ unnamed(value1) = unnamed(value2)
          /\ \A p \in unnamed(value1) : SameText(value1[p], template1, value2[p], template2)

SameConfiguration(policy, template1, template2) ==
  LET c1 == Configured(policy, template1)
      c2 == Configured(policy, template2)
  IN \A projection \in policy.configuration_projections :
       /\ DOMAIN c1[projection] = DOMAIN c2[projection]
       /\ \A i \in DOMAIN c1[projection], path \in projection.property_paths :
            SameValue(c1[projection][i][path], template1, c2[projection][i][path], template2)

\* The transport that a tree and its packages give, its configuration aside.
Transport(tree, packages, assembly) ==
  LET policy == PolicyOf[tree[TRANSPORT_SCOPE_POLICY_PATH]]
      lock == LockOf[tree[PACKAGE_LOCK_PATH]]
      reached == UNION {Reached(e, tree) : e \in policy.entry_points}
  IN [code |-> {x \in assembly["asset"] : x[1] \in reached},
      policy |-> tree[TRANSPORT_SCOPE_POLICY_PATH],
      rooted |-> {<<p, tree[p]>> : p \in {q \in Paths : /\ tree[q] > 0 /\ q \notin Ignored \cup Outside
                                                      /\ UnderRoot[q] \cap policy.source_roots # {}}},
      closure |-> {<<p, packages[p], IF p \in DOMAIN lock THEN <<lock[p]>> ELSE <<>> >> :
                     p \in (reached \cap Packages) \cup policy.dependencies}]

ProbedTransport == Transport(world.probe.tree, world.probe.packages, world.probe.assembly)
ProbedPolicy == PolicyOf[world.probe.tree[TRANSPORT_SCOPE_POLICY_PATH]]

\* An execution admitted with a selected probe deploys the transport that the
\* probe qualified: the same bundled sources and package versions behind the
\* policy's entry points, and projected configuration that says the same, every
\* reference in it to the same construct, although the probe was another
\* execution of another revision.  Two things are not compared, since the code
\* takes them for the execution's own: names and tags inside a projected value,
\* and which ARN, UUID or prefix a text holds.  It presumes that nobody touched
\* the repository after its git state was read (assessTransportScope,
\* compareScopeSnapshots, normalizeCfnValue).
AdmittedIsQualified ==
  (outcome = "admitted" /\ world.selection # Absent /\ ~moved) =>
    /\ Transport(ThePackage.commit, installed, ThePackage.inventory) = ProbedTransport
    /\ SameConfiguration(ProbedPolicy, ThePackage.inventory["template.json"],
                         world.probe.assembly["template.json"])

\* A13 refuses nothing but drift: when the transport is the probe's, and the
\* probe's infrastructure code would give this very execution, identifiers and
\* all, the configuration it has, an execution whose unscoped sources,
\* packages and configuration differ is not rejected there
\* (normalizeCfnValue, scopedSourceFiles).
OnlyDriftIsRefused ==
  (rejection # Absent /\ rejection.check = "A13" /\ world.selection # Absent /\ ~moved /\ faults = 0) =>
    LET now == held.source.commit
    IN \/ now[TRANSPORT_SCOPE_POLICY_PATH] = 0 \/ PolicyOf[now[TRANSPORT_SCOPE_POLICY_PATH]] = Absent
       \/ LockOf[now[PACKAGE_LOCK_PATH]] = Absent
       \/ Transport(now, installed, held.assembly) # ProbedTransport
       \/ Configured(ProbedPolicy, held.assembly["template.json"]) #
            Configured(ProbedPolicy, TemplateOf[<<world.probe.tree[INFRA_PATH], ExecutionId>>])

\* One revision gives the manifest, the function code and the template.
OneRevision(m) ==
  /\ \A x \in m.inventory["asset"] : x[1] \in Paths \ (Ignored \cup Outside) => x[2] = m.commit[x[1]]
  /\ m.inventory["template.json"] = TemplateOf[<<m.commit[INFRA_PATH], m.execution>>]
  /\ m.tree = m.commit /\ m.lock = m.commit[PACKAGE_LOCK_PATH]

\* The commit that the manifest names is what is deployed: each tracked source
\* bundled in the frozen assembly, the infrastructure code and the lockfile
\* are the commit's.  It presumes that nobody touched the repository after its
\* git state was read (assessSourceProvenance).
AdmittedIsCommitted ==
  (outcome = "admitted" /\ ~moved) => OneRevision(ThePackage)

\* "They must see one tree: the committed source the reader returns must be the
\* tree the bundler resolves and the packages installed for its lockfile. In
\* production that holds because admission runs at a clean HEAD"
\* (transport-qualification/scope/scope-recomputation.ts:48-52).
AdmissionSeesOneTree ==
  outcome = "admitted" => OneRevision(ThePackage)

\* The execution manifest marks a whole package: whenever it is there, so are
\* all other files of the draft, the assembly was verified against it, all
\* fifteen checks are recorded as passed in a journal that is final, and no
\* rejection was written (writePackageDraft, freezeAdmittedExecution).
ManifestIsLast ==
  ThePackage # Absent =>
    /\ \A f \in PackageFiles : package[f] # Absent
    /\ changes = 0 => /\ package["assembly"] = ThePackage.inventory
                      /\ package["deployment_assembly_inventory"].files = ThePackage.inventory
    /\ journal.final /\ package["preflight_journal"] = journal.lines
    /\ Len(journal.lines) = 15 /\ \A i \in 1..15 : journal.lines[i].passed
    /\ rejection = Absent
=============================================================================
