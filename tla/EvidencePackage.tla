--------------------------- MODULE EvidencePackage ---------------------------
(***************************************************************************)
(* The evidence package (src/study-1/src/evidence-package): which files of *)
(* a package are frozen by which index, what an amendment is, when a       *)
(* stored package with its amendments is eligible, and whether a stored    *)
(* transport probe may still qualify an execution.                         *)
(*                                                                         *)
(* A package is a function from paths to bytes.  Bytes are an identity,    *)
(* equal for equal bytes only, and the record they parse to; a digest is   *)
(* that identity.  A journal's identity is its sequence of lines, so the   *)
(* digest of a line prefix is that prefix.  A reason is its code.          *)
(***************************************************************************)
EXTENDS Integers, Sequences, FiniteSets, SequencesExt

CONSTANT Absent   \* what an undefined value is; equal to nothing else

bytesOf(id, record) == [id |-> id, record |-> record]
journalBytes(lines) == bytesOf(lines, [type |-> "journal"])
Unreadable == [type |-> "unreadable"]
digest(bytes) == bytes.id
NO_BYTES == <<>>
fileAt(files, path) == IF path \in DOMAIN files THEN files[path] ELSE Absent
digestAt(files, path) == IF path \in DOMAIN files THEN digest(files[path]) ELSE NO_BYTES
parsePackageRecord(files, path, type) ==
    IF path \in DOMAIN files /\ files[path].record.type = type THEN files[path].record ELSE Absent
belongsToExecution(record, identity) == record.execution = identity

\* The layout: admission, execution and probe files, and the directory of the deployment assembly.
AssemblyPaths == {"assembly/template"}
PROBE_CORE_PATHS == {"execution_manifest", "deployment_assembly_inventory", "resource_manifest", "checkpoint"}
UnitPaths == {"probe/ledger", "probe/result", "probe/evidence_index"}
Journals == {"coordination_journal", "runner_journal"}
DerivedPaths == {"probe/result", "probe/evidence_index", "summary"}
EXECUTION_FILE_CLASSES == PROBE_CORE_PATHS \cup Journals
                          \cup {"scope_snapshot", "cleanup_result", "leak_audit_result", "late_stream",
                                "late_assessment", "summary"}
classifyPackageArtifact(path) == path \in EXECUTION_FILE_CLASSES \cup AssemblyPaths \cup UnitPaths
REQUIRED_PAYLOAD == [LATE_EVIDENCE |-> "late_assessment", REASSESSMENT |-> "late_assessment",
                     OPERATIONAL_RECOVERY |-> "recovery_record", BILLING |-> "billing_import"]
PAYLOAD_RULES == [late_stream |-> {"LATE_EVIDENCE"}, late_assessment |-> {"LATE_EVIDENCE", "REASSESSMENT"},
                  cleanup_result |-> {"OPERATIONAL_RECOVERY"}, recovery_record |-> {"OPERATIONAL_RECOVERY"},
                  billing_import |-> {"BILLING"}, billing_export |-> {"BILLING"}]
classifyAmendmentPayload(path, kind) == path \in DOMAIN PAYLOAD_RULES /\ kind \in PAYLOAD_RULES[path]

\* Indexes: an entry per file with its digest; a file of no class, or a core file that is absent, builds none.
buildIndexEntries(files, paths) == {[path |-> p, sha256 |-> digest(files[p])] : p \in paths}
buildPackageIndex(files, identity) ==
    LET indexed == DOMAIN files \ {"package_index"}
    IN  IF "execution_manifest" \notin indexed \/ \E p \in indexed : ~classifyPackageArtifact(p) THEN Absent
        ELSE [type |-> "package_index", execution |-> identity, entries |-> buildIndexEntries(files, indexed),
              execution_manifest_sha256 |-> digestAt(files, "execution_manifest")]
isInScope(path) == path \in (UnitPaths \ {"probe/evidence_index"}) \cup PROBE_CORE_PATHS
buildEvidenceIndex(files, identity) ==
    IF ~(PROBE_CORE_PATHS \subseteq DOMAIN files) THEN Absent
    ELSE [type |-> "evidence_index", execution |-> identity,
          entries |-> buildIndexEntries(files, {p \in DOMAIN files : isInScope(p)})]
inventoryAssembly(files) ==
    LET listed == DOMAIN files \cap AssemblyPaths
    IN  IF listed = {} THEN Absent
        ELSE [type |-> "deployment_assembly_inventory", entries |-> buildIndexEntries(files, listed)]
\* The checkpoint covers the complete lines; a torn last line is outside it.
completeLines(lines) == IF lines # <<>> /\ Last(lines) = "torn" THEN Front(lines) ELSE lines
buildPrefixCheckpoint(lines) ==
    LET prefix == completeLines(lines)
    IN  IF prefix = <<>> THEN Absent ELSE [type |-> "checkpoint", count |-> Len(prefix), prefix_sha256 |-> prefix]

\* A set of files against the entries that index it: altered or missing files, and stored entries nothing lists.
alteredEntryReason(files, entry) ==
    IF entry.path \in DOMAIN files /\ digest(files[entry.path]) = entry.sha256 THEN {}
    ELSE {"ALTERED_BYTES"}
fileSetIntegrityReasons(entries, files, special, unlisted) ==
    UNION {alteredEntryReason(files, entry) : entry \in entries}
    \cup {"UNINDEXED_FILE" : p \in (DOMAIN files \ ({entry.path : entry \in entries} \cup unlisted)) \cup special}

\* The nested indexes still vouch for what they froze.
checkPrefixCheckpoint(checkpoint, lines) ==
    /\ checkpoint.count <= Len(lines)
    /\ SubSeq(lines, 1, checkpoint.count) = checkpoint.prefix_sha256
evidenceIndexReasons(files) ==
    LET index == parsePackageRecord(files, "probe/evidence_index", "evidence_index")
    IN  IF "probe/evidence_index" \notin DOMAIN files THEN {}
        ELSE IF index = Absent THEN {"ALTERED_BYTES"}
        ELSE UNION {alteredEntryReason(files, entry) : entry \in index.entries}
prefixCheckpointReasons(files) ==
    LET checkpoint == parsePackageRecord(files, "checkpoint", "checkpoint")
    IN  IF "checkpoint" \notin DOMAIN files THEN {}
        ELSE IF checkpoint = Absent THEN {"ALTERED_BYTES"}
        ELSE IF checkPrefixCheckpoint(checkpoint, digestAt(files, "coordination_journal")) THEN {}
        ELSE {"ALTERED_BYTES"}
inventoryReasons(files) ==
    LET inventory == parsePackageRecord(files, "deployment_assembly_inventory", "deployment_assembly_inventory")
    IN  IF "deployment_assembly_inventory" \notin DOMAIN files THEN {}
        ELSE IF inventory = Absent THEN {"ALTERED_BYTES"}
        ELSE UNION {alteredEntryReason(files, entry) : entry \in inventory.entries}
             \cup {"ALTERED_BYTES" : p \in (DOMAIN files \cap AssemblyPaths)
                                                 \ {entry.path : entry \in inventory.entries}}
nestedIndexReasons(files) == evidenceIndexReasons(files) \cup prefixCheckpointReasons(files) \cup inventoryReasons(files)

\* References of the derived records: the whole indexed file, or a line prefix of the runner journal.
collectReferences(record) == IF "refs" \in DOMAIN record THEN record.refs ELSE {}
referencedBytes(entry, sha256, files) ==
    \/ entry.sha256 = sha256
    \/ /\ entry.path = "runner_journal"
       /\ digestAt(files, "runner_journal") = entry.sha256
       /\ sha256 # <<>> /\ IsPrefix(sha256, entry.sha256)
referenceProblem(reference, index, files) ==
    \A entry \in index.entries :
        entry.path = reference.path =>
            ~(/\ referencedBytes(entry, reference.sha256, files)
              /\ reference.event_id # Absent => \E i \in DOMAIN reference.sha256 : reference.sha256[i] = reference.event_id)
unresolvedReferenceReasons(index, files) ==
    UNION {IF entry.path \notin DOMAIN files \/ files[entry.path].record = Unreadable
           THEN {"UNRESOLVED_REFERENCE"}
           ELSE {"UNRESOLVED_REFERENCE" :
                    r \in {ref \in collectReferences(files[entry.path].record) : referenceProblem(ref, index, files)}} :
           entry \in {e \in index.entries : e.path \in DerivedPaths}}

\* Amendments.  A stored amendment is its directory <<sequence, id>> and its files; the index is written last.
buildAmendment(kind, sequence, id, original, manifest, parent, payload, identity) ==
    IF \/ (sequence = 1) # (parent = Absent)
       \/ REQUIRED_PAYLOAD[kind] \notin DOMAIN payload
       \/ \E p \in DOMAIN payload : ~classifyAmendmentPayload(p, kind)
    THEN Absent
    ELSE [type |-> "amendment_index", execution |-> identity, id |-> id, kind |-> kind, sequence |-> sequence,
          original_package_index_sha256 |-> original, execution_manifest_sha256 |-> manifest,
          parent |-> parent, entries |-> buildIndexEntries(payload, DOMAIN payload)]
parsedIndex(amendment) == parsePackageRecord(amendment.files, "amendment_index", "amendment_index")
indexDigest(amendment) == digestAt(amendment.files, "amendment_index")
readAmendment(amendment) ==
    IF parsedIndex(amendment) = Absent THEN {"ALTERED_BYTES"}
    ELSE fileSetIntegrityReasons(parsedIndex(amendment).entries, amendment.files, amendment.special, {"amendment_index"})
readAmendments(stored) == [amendments |-> {a \in stored : parsedIndex(a) # Absent},
                           reasons    |-> UNION {readAmendment(a) : a \in stored}]

\* The chain from the selected head back to sequence 1, oldest first; it stops at an unknown or a visited parent.
byDigest(amendments, sha256) == {a \in amendments : indexDigest(a) = sha256}
parentOf(amendments, a) ==
    IF parsedIndex(a).parent = Absent THEN {} ELSE byDigest(amendments, parsedIndex(a).parent)
selectedChain(amendments, head) ==
    LET start == IF head = Absent THEN {} ELSE byDigest(amendments, head)
        n == Cardinality(amendments)
        walk[k \in 0..n] ==
            IF k = 0 THEN IF start = {} THEN <<>> ELSE << CHOOSE a \in start : TRUE >>
            ELSE LET w    == walk[k - 1]
                     next == IF w = <<>> THEN {} ELSE parentOf(amendments, w[1]) \ Range(w)
                 IN  IF next = {} THEN w ELSE << CHOOSE a \in next : TRUE >> \o w
    IN  walk[n]
membershipReasons(a, original, manifest, identity) ==
    IF /\ belongsToExecution(parsedIndex(a), identity)
       /\ parsedIndex(a).original_package_index_sha256 = original
       /\ parsedIndex(a).execution_manifest_sha256 = manifest
    THEN {} ELSE {"BROKEN_PARENT"}
parentReasons(amendments, a) ==
    IF IF parsedIndex(a).sequence = 1 THEN parsedIndex(a).parent = Absent
       ELSE \E p \in parentOf(amendments, a) : parsedIndex(p).sequence = parsedIndex(a).sequence - 1
    THEN {} ELSE {"BROKEN_PARENT"}
duplicateDigestReasons(amendments) ==
    {"BROKEN_PARENT" : a \in {x \in amendments : \E y \in amendments \ {x} : indexDigest(x) = indexDigest(y)}}
sequenceGapReasons(amendments) ==
    LET sequences == {parsedIndex(a).sequence : a \in amendments}
    IN  {"SEQUENCE_GAP" : s \in {t \in sequences : t # 1 /\ t - 1 \notin sequences}}
headReasons(amendments, head) ==
    IF head = Absent \/ byDigest(amendments, head) # {} THEN {} ELSE {"UNKNOWN_HEAD"}
\* Parents have smaller sequences in every amendment a writer builds, so following them never returns (CYCLE).
resolveAmendmentGraph(amendments, original, manifest, identity, head) ==
    LET chain == selectedChain(amendments, head)
    IN  [selected_chain |-> chain,
         reasons |-> UNION {membershipReasons(a, original, manifest, identity) : a \in amendments}
                     \cup (UNION {parentReasons(amendments, a) : a \in amendments})
                     \cup duplicateDigestReasons(amendments) \cup sequenceGapReasons(amendments)
                     \cup headReasons(amendments, head)
                     \cup {"UNSELECTED_DESCENDANT" : a \in amendments \ Range(chain)}]
ofKinds(chain, kinds) == SelectSeq(chain, LAMBDA a : parsedIndex(a).kind \in kinds)
finalAssessmentReasons(chain) ==
    LET assessing  == ofKinds(chain, {"LATE_EVIDENCE", "REASSESSMENT"})
        assessment == parsePackageRecord(Last(assessing).files, "late_assessment", "late_assessment")
    IN  IF assessing = <<>> THEN {}
        ELSE IF assessment = Absent THEN {"CONTRADICTORY_CHAIN"}
        ELSE IF assessment.status = "contradictory" THEN {"CONTRADICTORY_CHAIN"}
        ELSE {}

\* verifyPackage: the package index over the stored files, the summary, the amendments and the selected chain.
readPackageIndex(files, identity) ==
    LET index == parsePackageRecord(files, "package_index", "package_index")
    IN  IF index = Absent THEN Absent ELSE IF belongsToExecution(index, identity) THEN index ELSE Absent
indexedPackageReasons(index, files, special) ==
    (IF index.execution_manifest_sha256 = digestAt(files, "execution_manifest") THEN {}
     ELSE {"ALTERED_BYTES"})
    \cup fileSetIntegrityReasons(index.entries, files, special, {"package_index"})
    \cup nestedIndexReasons(files) \cup unresolvedReferenceReasons(index, files)
NON_TERMINAL_CLEANUP == {"not_started", "running"}
summaryReasons(files, identity) ==
    LET summary == parsePackageRecord(files, "summary", "summary")
    IN  IF summary = Absent THEN {"NON_TERMINAL_STATUS"}
        ELSE IF ~belongsToExecution(summary, identity) \/ summary.closure.cleanup_status \in NON_TERMINAL_CLEANUP
             THEN {"NON_TERMINAL_STATUS"}
        ELSE {}
verifyPackage(files, special, stored, head, identity) ==
    LET index == readPackageIndex(files, identity)
        read  == readAmendments(stored)
        graph == resolveAmendmentGraph(read.amendments, digestAt(files, "package_index"),
                                       digestAt(files, "execution_manifest"), identity, head)
        reasons == (IF index = Absent THEN {"INDEX_MISSING"}
                    ELSE indexedPackageReasons(index, files, special))
                   \cup summaryReasons(files, identity) \cup read.reasons \cup graph.reasons
                   \cup finalAssessmentReasons(graph.selected_chain)
    IN  [eligible |-> reasons = {}, reasons |-> reasons, original |-> digestAt(files, "package_index"),
         selected_head |-> head, selected_chain |-> IF head = Absent THEN <<>> ELSE graph.selected_chain]

\* The closure after the recoveries of the chain, newest last; anything unreadable on the way makes it unverified.
UNVERIFIED == [cleanup_status |-> "unverified", leak_audit_status |-> "unverified", lease_status |-> "unverified"]
recoveredClosure(amendment, original) ==
    LET record == parsePackageRecord(amendment.files, "recovery_record", "recovery_record")
    IN  IF record = Absent THEN UNVERIFIED
        ELSE IF record.original_package_index_sha256 # original THEN UNVERIFIED ELSE record.closure
effectiveOperationalState(verification, closure) ==
    LET recoveries == ofKinds(verification.selected_chain, {"OPERATIONAL_RECOVERY"})
        closures == [i \in DOMAIN recoveries |-> recoveredClosure(recoveries[i], verification.original)]
    IN  IF ~verification.eligible \/ closure.cleanup_status \in NON_TERMINAL_CLEANUP
           \/ UNVERIFIED \in Range(closures) THEN UNVERIFIED
        ELSE IF closures = <<>> THEN closure ELSE Last(closures)

-----------------------------------------------------------------------------
(* Whether a stored transport probe may still qualify an execution         *)
(* (transport-qualification/verdict/probe-usability*.ts): the frozen       *)
(* result, the last reassessment, the effective closure and every bill of  *)
(* the selected amendment chain, read from the package itself.             *)

UNKNOWN_PROBE == [transport_probe_verdict |-> "indeterminate", probe_validity |-> "indeterminate",
                  treatment_fidelity |-> "unverified", evidence_integrity |-> "unverified"]
readProbeRecord(files, path, type) == parsePackageRecord(files, path, type)
readAmendmentRecord(amendment, path, type) == readProbeRecord(amendment.files, path, type)
\* The result the summary names by its digest, of this probe.
frozenResult(files, summary, identity) ==
    LET result == readProbeRecord(files, "probe/result", "result")
    IN  IF Absent \in {result, summary} THEN UNKNOWN_PROBE
        ELSE IF summary.probe_result_sha256 # digestAt(files, "probe/result") \/ ~belongsToExecution(result, identity)
        THEN UNKNOWN_PROBE ELSE result.facts
indexedScopeSnapshot(files) ==
    LET index == readProbeRecord(files, "package_index", "package_index")
    IN  IF index = Absent THEN Absent
        ELSE IF "scope_snapshot" \notin {entry.path : entry \in index.entries} THEN Absent
        ELSE readProbeRecord(files, "scope_snapshot", "scope_snapshot")
lateEvidenceStatus(chain, summary) ==
    LET assessing == ofKinds(chain, {"LATE_EVIDENCE", "REASSESSMENT"})
        assessment == readAmendmentRecord(Last(assessing), "late_assessment", "late_assessment")
    IN  IF assessing = <<>> THEN IF summary = Absent THEN "unverified" ELSE summary.late_status
        ELSE IF assessment = Absent THEN "unverified" ELSE assessment.status
effectiveClosure(verification, summary) ==
    IF summary = Absent THEN UNVERIFIED ELSE effectiveOperationalState(verification, summary.closure)
\* Faulty variant: only the last amendment is asked for a breach.
safetyStatusLast(chain, summary) ==
    LET bill == IF chain = <<>> THEN Absent ELSE readAmendmentRecord(Last(chain), "billing_import", "billing_import")
    IN  IF bill # Absent /\ bill.billed_cost_check = "breached" THEN "breached"
        ELSE IF summary = Absent THEN "unverified" ELSE summary.safety_status
safetyStatus(chain, summary) ==
    LET bills == ofKinds(chain, {"BILLING"})
        breached(a) == LET bill == readAmendmentRecord(a, "billing_import", "billing_import")
                       IN  IF bill = Absent THEN FALSE ELSE bill.billed_cost_check = "breached"
    IN  IF \E i \in DOMAIN bills : breached(bills[i]) THEN "breached"
        ELSE IF summary = Absent THEN "unverified" ELSE summary.safety_status
readProbeUsabilityInput(files, special, stored, head, identity) ==
    LET verification == verifyPackage(files, special, stored, head, identity)
        summary == readProbeRecord(files, "summary", "summary")
    IN  [probe |-> frozenResult(files, summary, identity), scope |-> indexedScopeSnapshot(files),
         late_evidence_status |-> lateEvidenceStatus(verification.selected_chain, summary),
         closure |-> effectiveClosure(verification, summary),
         safety_status |-> safetyStatus(verification.selected_chain, summary), eligible |-> verification.eligible]
lateEvidenceRow(status) ==
    IF status \in {"none", "consistent"} THEN {}
    ELSE {IF status = "contradictory" THEN "LATE_EVIDENCE_CONTRADICTORY" ELSE "LATE_EVIDENCE_UNVERIFIED"}
unmetRows(input) ==
    LET unmet(holds, code) == IF holds THEN {} ELSE {code}
        probe == input.probe
    IN  unmet(probe.transport_probe_verdict = "pass", "PROBE_NOT_PASSING")
        \cup unmet(probe.probe_validity = "valid" /\ probe.treatment_fidelity = "verified", "PROBE_INVALID_OR_UNFAITHFUL")
        \cup unmet(probe.evidence_integrity = "verified", "EVIDENCE_NOT_VERIFIED")
        \cup lateEvidenceRow(input.late_evidence_status)
        \cup unmet(input.closure = [cleanup_status |-> "succeeded", leak_audit_status |-> "clean",
                                    lease_status |-> "released"], "OPERATIONAL_CLOSURE_NOT_CLEAN")
        \cup unmet(input.safety_status # "breached", "KNOWN_SAFETY_BREACH")
        \cup unmet(input.eligible, "PACKAGE_NOT_VERIFIED")
        \cup unmet(input.scope # Absent, "NO_TRANSPORT_SCOPE_SNAPSHOT")
assessProbeUsability(input) == [usable |-> unmetRows(input) = {}, reasons |-> unmetRows(input)]
==============================================================================
