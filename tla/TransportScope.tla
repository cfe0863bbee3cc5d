--------------------------- MODULE TransportScope ---------------------------
(***************************************************************************)
(* The transport scope of an execution (transport-qualification/scope):    *)
(* which sources, packages and configuration make up the transport that a  *)
(* probe qualified, how admission recomputes them from the repository, and *)
(* how it compares them with the selected probe's.                         *)
(*                                                                         *)
(* The repository is three things that change separately: the committed    *)
(* tree (git's HEAD), the work tree, and the installed packages.  A tree   *)
(* is a function from paths to contents; a content is a number, 0 for a    *)
(* file that does not exist.  What a content means is given by CONSTANT    *)
(* functions: the policy it declares, the packages it locks, the modules   *)
(* it imports.  A digest is the content itself, since equal digests mean   *)
(* equal bytes.                                                            *)
(***************************************************************************)
EXTENDS Naturals, FiniteSets, Sequences, Functions

CONSTANTS
  Absent,
  Paths,        \* every local source path
  Outside,      \* the paths that are not inside the project
  UnderRoot,    \* path -> the source roots it lies under
  Packages,     \* every install path of a package
  ImportsOf,    \* <<path, content>> -> the paths and install paths imported
  PolicyOf,     \* content of the policy file -> policy, or Absent: not valid
  LockOf,       \* content of the lockfile -> [install path -> entry], or Absent
  BundlerRuntime, \* the bundler's own runtime properties, a function
  ScopeTiming,  \* timing values of the admitted execution, a function
  Warmups       \* provider warm-up invocations per trial

TRANSPORT_SCOPE_POLICY_PATH == "transport-scope.policy.json"
PACKAGE_LOCK_PATH == "package-lock.json"

ASSUME ScopeAssumption ==
  /\ {TRANSPORT_SCOPE_POLICY_PATH, PACKAGE_LOCK_PATH} \cap Outside = {}
  /\ Paths \cap Packages = {}

Ok(v) == [ok |-> TRUE, value |-> v, error |-> {}]
Err(reasons) == [ok |-> FALSE, value |-> Absent, error |-> reasons]

isPackageRelativePath(path) == path \notin Outside

-----------------------------------------------------------------------------
(* The parsed inputs. *)

parseTransportScopePolicy(content) ==
  IF PolicyOf[content] = Absent THEN Err({"SCOPE_POLICY_INVALID"})
  ELSE LET policy == PolicyOf[content]
           repeated == \E p, q \in policy.configuration_projections :
                          p # q /\ p.projection_id = q.projection_id
       IN IF repeated THEN Err({"SCOPE_POLICY_DUPLICATE_PROJECTION"})
          ELSE Ok([policy |-> policy, policy_sha256 |-> content])

parsePackageLock(content) ==
  IF LockOf[content] = Absent THEN Err({"LOCKFILE_INVALID"})
  ELSE Ok(LockOf[content])

\* A runtime property of the environment must agree with the bundler's own.
bundlerRuntime(environment, bundler) ==
  IF \E name \in DOMAIN bundler \cap DOMAIN environment :
       environment[name] # bundler[name]
  THEN Err({"RUNTIME_PROPERTY_INVALID"})
  ELSE Ok([name \in DOMAIN environment \cup DOMAIN bundler |->
             IF name \in DOMAIN bundler THEN bundler[name] ELSE environment[name]])

\* What esbuild reaches from an entry point in the work tree, and the split
\* of its inputs into local sources and installed packages.
Reached(entryPoint, tree) ==
  LET step(S) == S \cup UNION {ImportsOf[<<p, tree[p]>>] :
                                 p \in {q \in S \cap Paths : tree[q] > 0}}
      after[n \in 0..Cardinality(Paths)] == IF n = 0 THEN {entryPoint} ELSE step(after[n - 1])
  IN after[Cardinality(Paths)]

classifyBundleInputs(entryPoint, inputs) ==
  [entry_point |-> entryPoint, local_sources |-> inputs \cap Paths,
   packages |-> inputs \cap Packages]

\* Resolution fails on an input that is not there.
resolveBundles(entryPoints, tree, installed) ==
  LET inputs(e) == Reached(e, tree)
      missing(e) == \/ \E p \in inputs(e) \cap Paths : tree[p] = 0
                    \/ \E p \in inputs(e) \cap Packages : installed[p] = Absent
  IN IF \E e \in entryPoints : missing(e) THEN Err({"BUNDLE_RESOLUTION_FAILED"})
     ELSE Ok({classifyBundleInputs(e, inputs(e)) : e \in entryPoints})

-----------------------------------------------------------------------------
(* The dependency closure. *)

closureInstallPaths(bundled, declared) == bundled \cup declared

lockedVersion(lock, path) ==
  IF path \notin DOMAIN lock \/ (path \in DOMAIN lock /\ lock[path].version = Absent)
  THEN Err({"DEPENDENCY_NOT_LOCKED"}) ELSE Ok(lock[path])

dependencyReasons(bundled, lock, versions, path) ==
  LET locked == lockedVersion(lock, path)
  IN IF ~locked.ok THEN locked.error
     ELSE (IF versions[path] # locked.value.version
           THEN {"DEPENDENCY_INSTALL_MISMATCH"} ELSE {})
          \cup (IF path \in bundled /\ locked.value.dev
                THEN {"BUNDLED_PACKAGE_NOT_PRODUCTION"} ELSE {})

resolveDependencyClosure(bundled, declared, lock, versions) ==
  LET paths == closureInstallPaths(bundled, declared)
      reasons == UNION {dependencyReasons(bundled, lock, versions, p) : p \in paths}
  IN IF reasons # {} THEN Err(reasons)
     ELSE Ok([dependencies |-> {[name |-> lock[p].name, version |-> lock[p].version] :
                                  p \in paths},
              lockfile_sha256 |-> {[path |-> p, version |-> lock[p].version,
                                    integrity |-> lock[p].integrity] : p \in paths}])

-----------------------------------------------------------------------------
(* The configuration projections of the synthesized template. *)

\* A JSON value is a function from the paths of its nodes to their texts.  A
\* path is a sequence of keys and array positions; <<>> is the value itself.
\* A text is a sequence of pieces [form, kept, varying]: an object, an array or
\* a number is one piece, a string one or more.  The forms "arn", "uuid",
\* "prefix" (of a resource's name) and "stack" (a stack's name, its kind kept)
\* are what the patterns of the code match; `varying' is the part that they
\* match whatever it is.
valueAtPath(value, path) ==
  IF path \notin DOMAIN value THEN Absent
  ELSE LET below == {p \in DOMAIN value : Len(p) >= Len(path) /\ SubSeq(p, 1, Len(path)) = path}
       IN [q \in {SubSeq(p, Len(path) + 1, Len(p)) : p \in below} |-> value[path \o q]]

STRIPPED_PROPERTY_KEYS ==
  {"Tags", "FunctionName", "TableName", "RoleName", "QueueName", "LogGroupName", "PolicyName",
   "ManagedPolicyName", "TopicName", "BucketName", "StreamName"}

\* Any string that begins as an ARN is lost whole, one that the infrastructure
\* code wrote out itself included.
normalizeCfnStringNames(text) ==
  IF text[1].form = "arn" THEN <<[form |-> "arn", kept |-> "", varying |-> ""]>>
  ELSE [i \in DOMAIN text |-> IF text[i].form \in {"prefix", "stack"}
                              THEN [text[i] EXCEPT !.varying = ""] ELSE text[i]]
normalizeCfnString(text) ==
  IF text[1].form = "arn" THEN <<[form |-> "arn", kept |-> "", varying |-> ""]>>
  ELSE [i \in DOMAIN text |-> IF text[i].form \in {"uuid", "prefix", "stack"}
                              THEN [text[i] EXCEPT !.varying = ""] ELSE text[i]]

\* A reference names the identity of the resource; the name of a parameter is
\* kept as it is.
referencedNameAny(text, references) ==
  IF text \in DOMAIN references THEN <<[form |-> "reference", kept |-> "", varying |-> ""]>> ELSE text
referencedName(text, references) ==
  IF text \in DOMAIN references
  THEN <<[form |-> "reference", kept |-> references[text], varying |-> ""]>> ELSE text

Parent(path) == SubSeq(path, 1, Len(path) - 1)

\* Tags and names are stripped first, then { Ref: s } and { Fn::GetAtt: [s, ...] }
\* are references when that is their only key, and every other text is
\* normalized as a string.
normalizeCfnValue(value, references) ==
  LET kept == {p \in DOMAIN value : Range(p) \cap STRIPPED_PROPERTY_KEYS = {}}
      keys(at) == {p[Len(p)] : p \in {q \in kept \ {<<>>} : Parent(q) = at}}
      isRef(p) == p # <<>> /\ p[Len(p)] = "Ref" /\ keys(Parent(p)) = {"Ref"}
      isGetAtt(p) == /\ Len(p) > 1 /\ p[Len(p)] = "0" /\ value[Parent(p)][1].form = "array"
                     /\ p[Len(p) - 1] = "Fn::GetAtt"
                     /\ keys(Parent(Parent(p))) = {"Fn::GetAtt"}
  IN [p \in kept |-> IF isRef(p) \/ isGetAtt(p) THEN referencedName(value[p], references)
                     ELSE normalizeCfnString(value[p])]

projectProperty(resource, path, references) ==
  LET value == valueAtPath(resource.properties, path)
  IN [property_path |-> path,
      canonical_json |-> IF value = Absent THEN Absent ELSE normalizeCfnValue(value, references)]

\* A resource has its logical id, a text; its construct path, <<>> when the
\* template does not tell; its identity, which is that path or, without one,
\* its type; and the rank of its identity in code-unit order.
Selected(template, projection) ==
  LET selected == {r \in template : /\ r.type = projection.resource_type
                                    /\ projection.selector \in Range(r.construct_path)}
  IN CHOOSE s \in [1..Cardinality(selected) -> selected] :
       \A i, j \in DOMAIN s : i < j => s[i].rank < s[j].rank

normalizeConfigurationProjection(template, projection) ==
  LET selected == Selected(template, projection)
      references == [id \in {r.logical_id : r \in template} |->
                       (CHOOSE r \in template : r.logical_id = id).identity]
  IN IF \E r \in template : r.type = projection.resource_type /\ r.construct_path = <<>>
     THEN Err({"TEMPLATE_WITHOUT_PATH_METADATA"})
     ELSE IF selected = <<>> THEN Err({"PROJECTION_SELECTS_NOTHING"})
     ELSE Ok([i \in DOMAIN selected |->
                {projectProperty(selected[i], p, references) : p \in projection.property_paths}])

configurationProjections(policy, template) ==
  LET all == {[id |-> p.projection_id,
               result |-> normalizeConfigurationProjection(template, p)] :
                p \in policy.configuration_projections}
  IN [value |-> {[projection_id |-> a.id, resources |-> a.result.value] : a \in all},
      reasons |-> UNION {a.result.error : a \in all}]

-----------------------------------------------------------------------------
(* The snapshot. *)

entryPointBundles(policy, bundles) ==
  LET found(e) == {b \in bundles : b.entry_point = e}
  IN [value |-> {b \in bundles : b.entry_point \in policy.entry_points
                                  /\ Cardinality(found(b.entry_point)) = 1},
      reasons |-> IF \E e \in policy.entry_points : Cardinality(found(e)) # 1
                  THEN {"BUNDLE_MISSING_ENTRY_POINT"} ELSE {}]

isUnderSourceRoot(path, root) == root \in UnderRoot[path]

\* Every bundled local source and every committed file under a source root.
scopedSourceFiles(policy, bundles, committed, digests) ==
  LET closure == UNION {b.local_sources : b \in bundles}
      rooted == {p \in committed : \E r \in policy.source_roots : isUnderSourceRoot(p, r)}
      scoped == {p \in closure \cup rooted : isPackageRelativePath(p)}
      emptyRoot(r) == \A p \in committed : ~isUnderSourceRoot(p, r)
  IN [value |-> {[path |-> p, sha256 |-> digests[p]] : p \in {q \in scoped : digests[q] # 0}},
      reasons |-> (IF \E p \in closure : ~isPackageRelativePath(p)
                   THEN {"BUNDLE_INPUT_OUTSIDE_PROJECT"} ELSE {})
                  \cup (IF \E r \in policy.source_roots : emptyRoot(r)
                        THEN {"SOURCE_ROOT_EMPTY"} ELSE {})
                  \cup (IF \E p \in scoped : digests[p] = 0
                        THEN {"SCOPED_SOURCE_NOT_COMMITTED"} ELSE {})]

runtimeProperties(policy, provided) ==
  [value |-> [name \in policy.runtime_properties \cap DOMAIN provided |-> provided[name]],
   reasons |-> IF policy.runtime_properties \subseteq DOMAIN provided THEN {}
               ELSE {"RUNTIME_PROPERTY_MISSING"}]

timingViolations(timing) ==
  IF \E name \in DOMAIN timing : timing[name] < 1 THEN {"TIMING_VALUE_INVALID"} ELSE {}

computeScopeSnapshot(input, template) ==
  LET policy == input.policy.policy
      bundles == entryPointBundles(policy, input.bundles)
      sources == scopedSourceFiles(policy, bundles.value, input.files, input.digests)
      closure == resolveDependencyClosure(UNION {b.packages : b \in bundles.value},
                                          policy.dependencies, input.lock, input.versions)
      projections == configurationProjections(policy, template)
      runtime == runtimeProperties(policy, input.runtime)
      reasons == bundles.reasons \cup sources.reasons \cup closure.error
                   \cup projections.reasons \cup runtime.reasons \cup timingViolations(ScopeTiming)
  IN IF reasons # {} THEN Err(reasons)
     ELSE Ok([policy_sha256 |-> input.policy.policy_sha256,
              entry_points |-> policy.entry_points,
              source_files |-> sources.value,
              dependency_closure |-> closure.value.dependencies,
              lockfile_sha256 |-> closure.value.lockfile_sha256,
              configuration_projections |-> projections.value,
              runtime_properties |-> runtime.value,
              timing_values |-> ScopeTiming,
              provider_warmup |-> Warmups])

\* Drift: the two snapshots' digests differ; the items name the fields.
compareScopeSnapshots(selected, recomputed) ==
  {f \in DOMAIN selected : selected[f] # recomputed[f]}

-----------------------------------------------------------------------------
(* The recomputation, one read at a time.  `rc' holds what has been read.  *)

NewRecomputation == [at |-> "policy", policy |-> Absent, lock |-> Absent, bundles |-> {},
                     files |-> {}, digests |-> [p \in Paths |-> 0], pending |-> {},
                     versions |-> [p \in Packages |-> Absent], runtime |-> Absent]

\* A committed file is read at HEAD, whatever HEAD is by then.
readCommitted(head, path, absentCode) ==
  IF head[path] = 0 THEN Err({absentCode}) ELSE Ok(head[path])

readPolicy(rc, head) ==
  LET bytes == readCommitted(head, TRANSPORT_SCOPE_POLICY_PATH, "SCOPE_POLICY_UNREADABLE")
      policy == IF bytes.ok THEN parseTransportScopePolicy(bytes.value) ELSE bytes
  IN IF policy.ok THEN Ok([rc EXCEPT !.at = "lock", !.policy = policy.value]) ELSE policy

readLock(rc, head, runtime) ==
  LET bytes == readCommitted(head, PACKAGE_LOCK_PATH, "LOCKFILE_UNREADABLE")
      lock == IF bytes.ok THEN parsePackageLock(bytes.value) ELSE bytes
      merged == bundlerRuntime(runtime, BundlerRuntime)
  IN IF ~lock.ok THEN lock
     ELSE IF ~merged.ok THEN merged
     ELSE Ok([rc EXCEPT !.at = "bundles", !.lock = lock.value, !.runtime = merged.value])

readBundles(rc, work, installed) ==
  LET bundles == resolveBundles(rc.policy.policy.entry_points, work, installed)
  IN IF ~bundles.ok THEN bundles
     ELSE Ok([rc EXCEPT !.at = "files", !.bundles = bundles.value])

listCommitted(rc, head) ==
  LET files == {p \in Paths : head[p] > 0 /\ isPackageRelativePath(p)
                                /\ UnderRoot[p] \cap rc.policy.policy.source_roots # {}}
      scoped == files \cup UNION {b.local_sources : b \in rc.bundles}
  IN Ok([rc EXCEPT !.at = "digests", !.files = files,
                   !.pending = {p \in scoped : isPackageRelativePath(p)}])

\* One digest of committedDigests, or, when none is left, the next stage.
committedDigests(rc, head) ==
  IF rc.pending = {}
  THEN Ok([rc EXCEPT !.at = "installed",
                     !.pending = closureInstallPaths(UNION {b.packages : b \in rc.bundles},
                                                     rc.policy.policy.dependencies)])
  ELSE LET path == CHOOSE p \in rc.pending : TRUE
       IN Ok([rc EXCEPT !.pending = @ \ {path}, !.digests[path] = head[path]])

\* One version of installedVersions, or, when none is left, the computation.
installedVersions(rc, installed) ==
  IF rc.pending = {} THEN Ok([rc EXCEPT !.at = "compute"])
  ELSE LET path == CHOOSE p \in rc.pending : TRUE
       IN Ok([rc EXCEPT !.pending = @ \ {path}, !.versions[path] = installed[path]])

recomputeScopeSnapshot(rc, head, work, installed, runtime) ==
  CASE rc.at = "policy" -> readPolicy(rc, head)
    [] rc.at = "lock" -> readLock(rc, head, runtime)
    [] rc.at = "bundles" -> readBundles(rc, work, installed)
    [] rc.at = "files" -> listCommitted(rc, head)
    [] rc.at = "digests" -> committedDigests(rc, head)
    [] rc.at = "installed" -> installedVersions(rc, installed)
=============================================================================
