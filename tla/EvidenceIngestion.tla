-------------------------- MODULE EvidenceIngestion --------------------------
(***************************************************************************)
(* Evidence ingestion (src/study-1/src/evidence-ingestion): the raw        *)
(* artifacts of one trial or probe are read, scoped, classified, indexed   *)
(* and judged, and three of the nine validity gates (G2 traceability, G3   *)
(* identity_integrity, G8 evidence_integrity) are assessed over them.      *)
(*                                                                         *)
(* A JSON value is a function from its own members to their values, so a   *)
(* member the writer left out is outside its domain.  "ok" stands for the  *)
(* part of a record's schema that is not correlation.  A digest is a token *)
(* that two byte sequences share exactly when they are equal.  An expected *)
(* artifact is found by its class, which is also its path.                 *)
(***************************************************************************)
EXTENDS Integers, Sequences, FiniteSets, SequencesExt

CONSTANT Absent   \* what an undefined member or value is; equal to nothing else

EXECUTION_PARTITION == "execution"

Own(value, member) == IF member \in DOMAIN value THEN value[member] ELSE Absent
Pick(s, P(_)) == LET idx == SelectSeq([i \in DOMAIN s |-> i], LAMBDA i : P(i)) IN [n \in DOMAIN idx |-> s[idx[n]]]
\* The first element of each group of s that shares a key, in order.
Firsts(s, Key(_)) == Pick(s, LAMBDA i : \A j \in 1..(i - 1) : Key(s[j]) # Key(s[i]))
First(s) == IF s = <<>> THEN Absent ELSE s[1]
LastOf(s) == IF s = <<>> THEN Absent ELSE s[Len(s)]
\* s in the order of a key; elements that share it keep their order.
SortedBy(s, Key(_)) ==
    LET rank(i) == Cardinality({j \in DOMAIN s : Key(s[j]) < Key(s[i]) \/ (Key(s[j]) = Key(s[i]) /\ j <= i)})
    IN  [n \in DOMAIN s |-> s[CHOOSE i \in DOMAIN s : rank(i) = n]]
FlatMap(s, F(_)) == FlattenSeq([i \in DOMAIN s |-> F(s[i])])

ingestionFinding(code, path, event, key) == [code |-> code, path |-> path, event_id |-> event, key |-> key]

\* Artifacts: the first bytes given for a path are kept; a torn line or a second byte sequence is a finding.
originOf(path, expected) == IF path \in DOMAIN expected THEN "subject" ELSE "supplementary"
sourcesOf(input) ==
    [i \in DOMAIN input.artifacts |->
        input.artifacts[i] @@ [origin |-> originOf(input.artifacts[i].path, input.expected)]]
    \o [i \in DOMAIN input.scope_artifacts |-> input.scope_artifacts[i] @@ [origin |-> "execution_scope"]]
acceptPath(raws) ==
    FlatMap(Pick(raws, LAMBDA i : \E j \in 1..(i - 1) :
                        /\ raws[j].path = raws[i].path
                        /\ \A k \in 1..(j - 1) : raws[k].path # raws[i].path
                        /\ raws[j].sha256 # raws[i].sha256),
            LAMBDA raw : << ingestionFinding("ARTIFACT_UNPARSEABLE", raw.path, Absent, Absent) >>)
parseArtifact(raw) ==
    IF raw.torn THEN << ingestionFinding("ARTIFACT_UNPARSEABLE", raw.path, Absent, Absent) >> ELSE <<>>
missingRequired(input, artifacts) ==
    FlatMap(SetToSeq({path \in DOMAIN input.expected :
                        /\ input.expected[path] = "required"
                        /\ \A i \in DOMAIN artifacts : artifacts[i].path # path}),
            LAMBDA path : << ingestionFinding("ARTIFACT_MISSING", path, Absent, Absent) >>)
readArtifacts(input) ==
    LET raws == sourcesOf(input)
        kept == Firsts(raws, LAMBDA raw : raw.path)
    IN  [artifacts |-> kept,
         findings  |-> acceptPath(raws) \o FlatMap(kept, parseArtifact) \o missingRequired(input, kept)]

subjectArtifacts(artifacts) == SelectSeq(artifacts, LAMBDA a : a.origin = "subject")
subjectArtifact(artifacts, class) == First(SelectSeq(artifacts, LAMBDA a : a.origin = "subject" /\ a.path = class))
\* Faulty variant: the execution's runner journal counts as the trial's own.
isUnitFileShared(a) == a.origin = "subject" /\ a.path \notin {"execution_manifest", "resource_manifest"}
isUnitFile(a) == a.origin = "subject" /\ a.path \notin {"execution_manifest", "resource_manifest", "runner_journal"}

EventTypes == {"trial_message_published", "settlement_assessed", "trial_interrupted", "caller_invocation_started",
    "attempt_registered", "attempt_not_dispatched", "dispatch_started", "attempt_outcome_recorded",
    "caller_timeout_recorded", "transport_settled_after_timeout", "request_state_recorded",
    "trial_message_rejected", "provider_call_received", "provider_call_accepted", "provider_call_rejected",
    "provider_warmup_completed", "provider_transaction_committed", "provider_commit_failed",
    "provider_commit_confirmed", "treatment_armed", "timeout_signal_recorded",
    "timeout_signal_conflict_recorded", "treatment_timeout_observed", "treatment_response_released",
    "treatment_safety_released", "probe_workload_invoked", "trial_evidence_frozen",
    "phase_transition_recorded"}
Journals == {"runner_journal", "caller_journal", "provider_journal", "controller_journal"}
DIGEST_BOUND_INPUT_TYPES == {"payment", "approved_decision"}
EXECUTION_ID_FIELDS == {"run_id", "variant_validation_id", "transport_probe_id"}
hasExecutionId(value) == EXECUTION_ID_FIELDS \cap DOMAIN value # {}

\* The catalogued schema of a record, as far as correlation goes.
validates(value) ==
    /\ value.ok
    /\ \/ value.record_type \in DIGEST_BOUND_INPUT_TYPES
       \/ /\ hasExecutionId(value)
          /\ value.record_type = "execution_manifest" \/ "execution_manifest_sha256" \in DOMAIN value
          /\ value.record_type = "trial_manifest"
             \/ ("trial_id" \in DOMAIN value <=> "trial_manifest_sha256" \in DOMAIN value)
recordShape(class) == CASE class = "published_message" -> "trial_message"
                       [] class = "settlement_samples" -> "settlement_sample"
                       [] class \in {"source_observations", "dlq_observations"} -> "queue_observation"
                       [] OTHER -> class
\* The shape an artifact's class expects of its records.
checkShape(value, a) ==
    /\ validates(value)
    /\ a.origin # "subject" \/ IF a.path \in Journals THEN value.record_type \in EventTypes
                               ELSE value.record_type = recordShape(a.path)

\* Scope: the execution and the trial, each from a schema-valid manifest only.
validManifest(artifacts, class) ==
    LET a == subjectArtifact(artifacts, class)
    IN  IF a = Absent \/ a.values = <<>> THEN Absent
        ELSE IF checkShape(a.values[1], a) THEN a ELSE Absent
executionIdField(kind) == CASE kind = "RUN" -> "run_id"
                            [] kind = "TRANSPORT_PROBE" -> "transport_probe_id"
                            [] kind = "VARIANT_VALIDATION" -> "variant_validation_id"
executionIdentityOf(manifest) ==
    IF manifest = Absent THEN Absent
    ELSE [kind |-> manifest.values[1].execution_kind, sha256 |-> manifest.sha256,
          id   |-> manifest.values[1][executionIdField(manifest.values[1].execution_kind)]]
subjectTrialOf(manifest) ==
    IF manifest = Absent THEN Absent
    ELSE [trial_id |-> manifest.values[1].trial_id, sha256 |-> manifest.sha256, scenario |-> manifest.values[1].scenario]
resolveScope(artifacts, input) ==
    LET trialKind == "trial_manifest" \in DOMAIN input.expected
    IN  [subject_kind |-> IF trialKind THEN "trial" ELSE "probe",
         execution    |-> executionIdentityOf(validManifest(artifacts, "execution_manifest")),
         trial        |-> IF trialKind THEN subjectTrialOf(validManifest(artifacts, "trial_manifest")) ELSE Absent,
         reevaluation |-> input.indexed_digests # Absent]

\* Records: valid, schema_invalid, or correlation_missing when only correlation members are absent.
lacksTrialIdentity(value, trialUnit) ==
    trialUnit /\ value.record_type \notin DIGEST_BOUND_INPUT_TYPES /\ "trial_id" \notin DOMAIN value
absentCorrelation(value, trialUnit, scope) ==
    {{IF scope.execution = Absent THEN "run_id" ELSE executionIdField(scope.execution.kind)} : x \in
        IF hasExecutionId(value) THEN {} ELSE {1}}
    \cup ({{"execution_manifest_sha256"} \ DOMAIN value,
           IF trialUnit THEN {"trial_id", "trial_manifest_sha256"} \ DOMAIN value ELSE {}} \ {{}})
withMembers(value, units) == [m \in UNION units |-> "(placeholder)"] @@ value
classifyValue(value, a, scope) ==
    LET trialUnit == scope.subject_kind = "trial" /\ isUnitFile(a)
    IN  IF checkShape(value, a)
        THEN IF lacksTrialIdentity(value, trialUnit) THEN "correlation_missing" ELSE "valid"
        ELSE IF \E units \in SUBSET absentCorrelation(value, trialUnit, scope) \ {{}} :
                    checkShape(withMembers(value, units), a)
             THEN "correlation_missing" ELSE "schema_invalid"
classifyArtifact(a, scope) ==
    [path |-> a.path, sha256 |-> a.sha256, origin |-> a.origin, torn |-> a.torn,
     records |-> [i \in DOMAIN a.values |-> [value |-> a.values[i], validity |-> classifyValue(a.values[i], a, scope)]]]
someRecord(a, validity) == \E i \in DOMAIN a.records : a.records[i].validity = validity
classifiedFindings(a) ==
    (IF someRecord(a, "schema_invalid")
     THEN << ingestionFinding("RECORD_SCHEMA_INVALID", a.path, Absent, Absent) >> ELSE <<>>)
    \o (IF someRecord(a, "correlation_missing")
        THEN << ingestionFinding("CORRELATION_MISSING", a.path, Absent, Absent) >> ELSE <<>>)
usableRecords(a) == SelectSeq(a.records, LAMBDA r : r.validity # "schema_invalid")
soleRecord(artifacts, class) ==
    LET a == subjectArtifact(artifacts, class)
    IN  IF a = Absent THEN Absent
        ELSE IF a.records = <<>> THEN Absent
        ELSE IF a.records[1].validity = "schema_invalid" THEN Absent ELSE a.records[1].value
streamRecords(artifacts, class) ==
    LET a == subjectArtifact(artifacts, class)
    IN  IF a = Absent THEN <<>> ELSE [i \in DOMAIN usableRecords(a) |-> usableRecords(a)[i].value]
partitionOf(value) == IF "trial_id" \in DOMAIN value THEN value.trial_id ELSE EXECUTION_PARTITION

\* Events: one per event_id, the subject's copy first; other copies are equal or conflicting.
eventsOf(a) ==
    LET usable == SelectSeq(usableRecords(a), LAMBDA r : r.value.record_type \in EventTypes)
    IN  [i \in DOMAIN usable |-> [r |-> usable[i].value, path |-> a.path, origin |-> a.origin,
                                  partition |-> partitionOf(usable[i].value)]]
copiesOf(artifacts) ==
    LET from(origin) == FlatMap(SelectSeq(artifacts, LAMBDA a : a.origin = origin), eventsOf)
    IN  from("subject") \o from("supplementary") \o from("execution_scope")
indexEvents(copies) == Firsts(copies, LAMBDA e : e.r.event_id)
groupFindings(copies, kept) ==
    LET group    == SelectSeq(copies, LAMBDA c : c.r.event_id = kept.r.event_id)
        examined == \E i \in DOMAIN group : group[i].origin # "execution_scope"
    IN  (IF examined /\ \E i \in DOMAIN group : group[i].r # kept.r
         THEN << ingestionFinding("CONFLICTING_EVENT_CONTENT", kept.path, kept.r.event_id, Absent) >> ELSE <<>>)
        \o (IF examined /\ \E i \in 2..Len(group) : group[i].r = kept.r
            THEN << ingestionFinding("EQUIVALENT_DUPLICATE_COLLAPSED", kept.path, kept.r.event_id, Absent) >>
            ELSE <<>>)

\* Sequence density of each source instance of the trial's own and supplementary evidence.
instanceKey(e) == <<e.r.source, e.r.source_instance_id>>
judgeInstance(events, first) ==
    LET of    == {i \in DOMAIN events : instanceKey(events[i]) = instanceKey(first)}
        seqs  == {events[i].r.source_sequence : i \in of}
        top   == CHOOSE n \in seqs : \A m \in seqs : m <= n
    IN  (IF Cardinality(of) > Cardinality(seqs)
         THEN << ingestionFinding("CONFLICTING_SOURCE_SEQUENCE", first.path, Absent, instanceKey(first)) >> ELSE <<>>)
        \o (IF top > Cardinality(seqs)
            THEN << ingestionFinding("SOURCE_SEQUENCE_GAP", first.path, Absent, instanceKey(first)) >> ELSE <<>>)
checkSequenceDensity(events) == FlatMap(Firsts(events, instanceKey), LAMBDA first : judgeInstance(events, first))

unresolvedCausation(examined, ids) == SelectSeq(examined, LAMBDA e : ~(e.r.causation_event_ids \subseteq ids))

\* Core digests: manifest pins, manifest digests named by records, and the evidence index.
TRIAL_MANIFEST_PINS == [resource_manifest |-> "resource_manifest_sha256", payment |-> "payment_sha256",
                        approved_decision |-> "approved_decision_sha256"]
trialManifestPins(artifacts) ==
    LET manifest == First(SelectSeq(artifacts, LAMBDA a : a.path = "trial_manifest"))
        pinned   == SelectSeq(artifacts, LAMBDA a : a.path \in DOMAIN TRIAL_MANIFEST_PINS)
    IN  IF manifest = Absent THEN <<>>
        ELSE IF manifest.records = <<>> THEN <<>>
        ELSE IF manifest.records[1].validity # "valid" THEN <<>>
        ELSE FlatMap(pinned, LAMBDA a :
                IF Own(manifest.records[1].value, TRIAL_MANIFEST_PINS[a.path]) = a.sha256 THEN <<>>
                ELSE << ingestionFinding("CORE_FILE_DIGEST_MISMATCH", manifest.path, Absent, Absent) >>)
namesExecutionOf(value, execution) == Own(value, executionIdField(execution.kind)) = execution.id
referenceMismatches(a, scope) ==
    LET wrong(value, member, actual) == member \in DOMAIN value /\ value[member] # actual
        execution == SelectSeq(usableRecords(a), LAMBDA r :
                        /\ scope.execution # Absent
                        /\ namesExecutionOf(r.value, scope.execution)
                        /\ wrong(r.value, "execution_manifest_sha256", scope.execution.sha256))
        trial     == SelectSeq(usableRecords(a), LAMBDA r :
                        /\ scope.trial # Absent
                        /\ Own(r.value, "trial_id") = scope.trial.trial_id
                        /\ wrong(r.value, "trial_manifest_sha256", scope.trial.sha256))
        finding(s) == IF s = <<>> THEN <<>>
                      ELSE << ingestionFinding("CORE_FILE_DIGEST_MISMATCH", a.path, Own(s[1].value, "event_id"), Absent) >>
    IN  finding(execution) \o finding(trial)
indexMismatch(a, indexed) ==
    IF indexed = Absent THEN <<>>
    ELSE IF a.path \notin DOMAIN indexed \/ indexed[a.path] = a.sha256 THEN <<>>
    ELSE << ingestionFinding("CORE_FILE_DIGEST_MISMATCH", a.path, Absent, Absent) >>
checkCoreDigests(artifacts, scope, indexed) ==
    LET examined == SelectSeq(artifacts, LAMBDA a : a.origin # "execution_scope")
    IN  trialManifestPins(examined)
        \o FlatMap(examined, LAMBDA a : referenceMismatches(a, scope))
        \o FlatMap(examined, LAMBDA a : indexMismatch(a, indexed))

\* The ledger snapshot: its duplicates and the problems of its pages.
duplicateTransactionIds(txns) ==
    {txns[i].provider_transaction_id : i \in {i \in DOMAIN txns :
        \E j \in 1..(i - 1) : txns[j].provider_transaction_id = txns[i].provider_transaction_id}}
\* A page is its number of items, its own number, and the cursors it starts at and ends with.
itemCount(pages) == FoldSeq(LAMBDA page, n : page.item_count + n, 0, pages)
paginationProblem(snapshot) ==
    \/ ~snapshot.complete
    \/ snapshot.pages = <<>>
    \/ \E i \in DOMAIN snapshot.pages :
        LET page == snapshot.pages[i]
        IN  \/ page.page_number # i
            \/ i = Len(snapshot.pages) /\ page.next_cursor # Absent
            \/ i < Len(snapshot.pages)
               /\ (page.next_cursor = Absent \/ snapshot.pages[i + 1].start_cursor # page.next_cursor)
    \/ itemCount(snapshot.pages) # Len(snapshot.transactions)
ledgerOf(snapshot) ==
    LET at(code) == ingestionFinding(code, "ledger_snapshot", Absent, Absent)
    IN  IF snapshot = Absent
        THEN [snapshot |-> Absent, transactions |-> <<>>, duplicates |-> {}, complete |-> FALSE, findings |-> <<>>]
        ELSE [snapshot |-> snapshot, transactions |-> snapshot.transactions,
              duplicates |-> duplicateTransactionIds(snapshot.transactions), complete |-> ~paginationProblem(snapshot),
              findings |-> (IF duplicateTransactionIds(snapshot.transactions) = {} THEN <<>>
                            ELSE << at("DUPLICATE_LEDGER_TRANSACTION_ID") >>)
                           \o (IF paginationProblem(snapshot) THEN << at("LEDGER_PAGINATION_INCOMPLETE") >> ELSE <<>>)
                           \o (IF Len(snapshot.transactions) > 1 THEN << at("LEDGER_LARGER_THAN_EXPECTED") >> ELSE <<>>)]
readLedger(artifacts) == ledgerOf(soleRecord(artifacts, "ledger_snapshot"))
\* A sample that correlates DLQ messages makes the conditional DLQ snapshot required.
conditionalDlqSnapshot(artifacts, expected) ==
    LET samples == streamRecords(artifacts, "settlement_samples")
    IN  IF /\ "dlq_snapshot" \in DOMAIN expected
           /\ \E i \in DOMAIN samples : samples[i].correlated_dlq_message_ids # {}
           /\ subjectArtifact(artifacts, "dlq_snapshot") = Absent
        THEN << ingestionFinding("ARTIFACT_MISSING", "dlq_snapshot", Absent, Absent) >> ELSE <<>>

\* Identities: every occurrence of a caller or provider identity, and which of them collide.
CALLER_KINDS == {"attempt_id", "provider_request_id"}
COMMIT_KINDS == {"provider_transaction_id", "provider_commit_id"}
CALL_KINDS == {"provider_call_id"}
originKinds(e) ==
    CASE e.r.record_type = "attempt_registered" -> CALLER_KINDS
      [] e.r.record_type \in {"provider_call_received", "provider_warmup_completed"} -> CALL_KINDS
      [] e.r.record_type = "provider_call_rejected" /\ e.partition = EXECUTION_PARTITION -> CALL_KINDS
      [] e.r.record_type \in {"provider_transaction_committed", "provider_commit_failed"} -> COMMIT_KINDS
      [] OTHER -> {}
appearanceKinds(e) ==
    CASE e.r.record_type \in {"dispatch_started", "attempt_not_dispatched", "attempt_outcome_recorded",
                              "transport_settled_after_timeout"} -> CALLER_KINDS
      [] e.r.record_type \in {"provider_call_accepted", "provider_transaction_committed"} -> CALLER_KINDS \cup CALL_KINDS
      [] e.r.record_type = "provider_commit_failed" -> CALL_KINDS
      [] OTHER -> {}
occurrence(kind, value, origin, partition, item, examined) ==
    [kind |-> kind, id |-> value[kind], origin |-> origin, partition |-> partition, item |-> item,
     examined |-> examined, paired |-> IF kind = "provider_request_id" THEN Own(value, "attempt_id") ELSE Absent]
eventOccurrences(e) ==
    {occurrence(k, e.r, IF k \in originKinds(e) THEN e.r.event_id ELSE Absent, e.partition, Absent, e.origin = "subject") :
        k \in (originKinds(e) \cup appearanceKinds(e)) \cap DOMAIN e.r}
ledgerOccurrences(a) ==
    UNION {LET snapshot == usableRecords(a)[1].value
           IN  {occurrence(k, snapshot.transactions[i], Absent, partitionOf(snapshot), <<a.path, i>>, a.origin = "subject") :
                    k \in CALLER_KINDS \cup CALL_KINDS \cup COMMIT_KINDS}
           : i \in IF usableRecords(a) = <<>> THEN {}
                   ELSE IF usableRecords(a)[1].value.record_type # "ledger_snapshot" THEN {}
                   ELSE DOMAIN usableRecords(a)[1].value.transactions}
isJudgedCollision(group) ==
    LET several(S) == Cardinality(S \ {Absent}) > 1
    IN  /\ \E o \in group : o.examined
        /\ \/ several({o.origin : o \in group})
           \/ several({o.partition : o \in group})
           \/ several({o.paired : o \in group})
           \/ several({o.item : o \in {o \in group : o.kind \in COMMIT_KINDS}})
ATTEMPT_REFERENCES == {"dispatch_started", "attempt_not_dispatched", "attempt_outcome_recorded",
    "caller_timeout_recorded", "transport_settled_after_timeout", "provider_call_accepted",
    "provider_transaction_committed"}
buildIdentityRegistry(events, artifacts) ==
    LET occurrences == UNION {eventOccurrences(events[i]) : i \in DOMAIN events}
                       \cup UNION {ledgerOccurrences(artifacts[i]) : i \in DOMAIN artifacts}
        collide(kinds) == \E x \in {<<o.kind, o.id>> : o \in {o \in occurrences : o.kind \in kinds}} :
                             isJudgedCollision({o \in occurrences : <<o.kind, o.id>> = x})
        registered == {o.id : o \in {o \in occurrences : o.kind = "attempt_id" /\ o.origin # Absent}}
    IN  [caller_collisions   |-> collide(CALLER_KINDS),
         provider_collisions |-> collide(COMMIT_KINDS \cup CALL_KINDS),
         unregistered_attempts |-> \E i \in DOMAIN events :
            /\ events[i].origin = "subject" /\ events[i].r.source # "runner"
            /\ events[i].r.record_type \in ATTEMPT_REFERENCES
            /\ "attempt_id" \in DOMAIN events[i].r /\ events[i].r.attempt_id \notin registered]

\* Findings that share a code, a path and an instance become one, which keeps the first one's event.
mergeFindings(findings) == Firsts(findings, LAMBDA f : <<f.code, f.path, f.key>>)

\* The event index and the ledger, and every finding in the order the steps report it.
indexEvidence(input, scope, artifacts, copies, events, earlier) ==
    LET examined   == SelectSeq(events, LAMBDA e : e.origin # "execution_scope")
        unresolved == unresolvedCausation(examined, {events[i].r.event_id : i \in DOMAIN events})
        ledger     == readLedger(artifacts)
    IN  [scope |-> scope, expected |-> input.expected, artifacts |-> artifacts,
         subject |-> SelectSeq(events, LAMBDA e : e.origin = "subject"),
         unresolved_causation |-> {unresolved[i].r.event_id : i \in DOMAIN unresolved},
         ledger |-> ledger, identities |-> buildIdentityRegistry(events, artifacts),
         findings |-> mergeFindings(
            earlier \o FlatMap(artifacts, classifiedFindings)
            \o checkCoreDigests(artifacts, scope, input.indexed_digests)
            \o FlatMap(events, LAMBDA e : groupFindings(copies, e))
            \o checkSequenceDensity(examined)
            \o FlatMap(unresolved, LAMBDA e :
                   << ingestionFinding("CAUSAL_PREDECESSOR_MISSING", e.path, e.r.event_id, Absent) >>)
            \o ledger.findings \o conditionalDlqSnapshot(artifacts, input.expected)),
         indexed_digests |-> input.indexed_digests]
classifyEvidence(input, scope, read, earlier) ==
    LET artifacts == [i \in DOMAIN read |-> classifyArtifact(read[i], scope)]
        copies == copiesOf(artifacts)
    IN  indexEvidence(input, scope, artifacts, copies, indexEvents(copies), earlier)
ingestEvidence(input) ==
    LET reading == readArtifacts(input)
    IN  classifyEvidence(input, resolveScope(reading.artifacts, input), reading.artifacts, reading.findings)

\* Any invalid cause makes a gate invalid, any other cause unverified, none verified.
assembleGate(invalid, unverified) == IF invalid THEN "invalid" ELSE IF unverified THEN "unverified" ELSE "verified"
someFinding(ev, codes, P(_)) == \E i \in DOMAIN ev.findings : ev.findings[i].code \in codes /\ P(ev.findings[i].path)
subjectOf(ev, path) == subjectArtifact(ev.artifacts, path) # Absent

otherExecution(value, execution) ==
    \E f \in EXECUTION_ID_FIELDS \cap DOMAIN value :
        f # executionIdField(execution.kind) \/ value[f] # execution.id
foreignRecord(a, scope) ==
    \E i \in DOMAIN usableRecords(a) :
        LET value == usableRecords(a)[i].value
        IN  \/ scope.execution # Absent /\ otherExecution(value, scope.execution)
            \/ /\ "trial_id" \in DOMAIN value /\ isUnitFile(a)
               /\ scope.subject_kind = "probe" \/ (scope.trial # Absent /\ value.trial_id # scope.trial.trial_id)
rejectedWith(ev, reasons) ==
    \E i \in DOMAIN ev.subject : /\ ev.subject[i].r.record_type = "trial_message_rejected"
                                 /\ ev.subject[i].r.reason \in reasons
\* References of records to artifacts, resolved against the index when a package is re-evaluated.
referenceCause(ev, wrong) ==
    /\ ev.scope.reevaluation
    /\ \E a \in Range(subjectArtifacts(ev.artifacts)) : \E i \in DOMAIN usableRecords(a) :
        LET value == usableRecords(a)[i].value
            refs  == IF "evidence_refs" \in DOMAIN value THEN value.evidence_refs ELSE {}
        IN  \E ref \in refs :
                IF ref.path \in DOMAIN ev.indexed_digests THEN wrong /\ ev.indexed_digests[ref.path] # ref.sha256
                ELSE ~wrong
assessTraceability(ev) ==
    assembleGate(\/ \E a \in Range(subjectArtifacts(ev.artifacts)) : foreignRecord(a, ev.scope)
                 \/ checkCoreDigests(subjectArtifacts(ev.artifacts), ev.scope, Absent) # <<>>
                 \/ rejectedWith(ev, {"EXECUTION_IDENTITY_MISMATCH", "TRIAL_MANIFEST_DIGEST_MISMATCH"})
                 \/ referenceCause(ev, TRUE),
                 \/ rejectedWith(ev, {"CORRELATION_MISSING"})
                 \/ someFinding(ev, {"CORRELATION_MISSING"}, LAMBDA p : subjectOf(ev, p))
                 \/ \E i \in DOMAIN ev.subject : ev.subject[i].r.event_id \in ev.unresolved_causation
                 \/ ev.scope.execution = Absent /\ "execution_manifest" \in DOMAIN ev.expected
                 \/ ev.scope.subject_kind = "trial" /\ ev.scope.trial = Absent
                 \/ referenceCause(ev, FALSE))
assessIdentityIntegrity(ev) ==
    assembleGate(ev.identities.caller_collisions,
                 \/ ev.identities.unregistered_attempts
                 \/ "caller_journal" \in DOMAIN ev.expected
                    /\ \/ ~subjectOf(ev, "caller_journal")
                       \/ someFinding(ev, {"ARTIFACT_UNPARSEABLE", "SOURCE_SEQUENCE_GAP"}, LAMBDA p : p = "caller_journal")
                 \/ \E i \in DOMAIN ev.artifacts :
                        /\ ev.artifacts[i].origin = "execution_scope"
                        /\ ev.artifacts[i].torn \/ someRecord(ev.artifacts[i], "schema_invalid"))
isRequiredEvidence(ev, path) == subjectOf(ev, path) /\ ev.expected[path] \in {"required", "conditional"}
isJudgedEvidence(ev, path) ==
    subjectOf(ev, path) \/ (/\ ev.indexed_digests # Absent /\ path \in DOMAIN ev.indexed_digests
                            /\ \E i \in DOMAIN ev.artifacts : ev.artifacts[i].path = path)
assessEvidenceIntegrity(ev) ==
    assembleGate(\/ someFinding(ev, {"CONFLICTING_EVENT_CONTENT", "CONFLICTING_SOURCE_SEQUENCE", "CORE_FILE_DIGEST_MISMATCH"},
                                LAMBDA p : isJudgedEvidence(ev, p))
                 \/ someFinding(ev, {"ARTIFACT_UNPARSEABLE", "RECORD_SCHEMA_INVALID"}, LAMBDA p : isRequiredEvidence(ev, p))
                 \/ ev.identities.provider_collisions,
                 IF ev.indexed_digests = Absent THEN FALSE ELSE DOMAIN ev.indexed_digests = {})
=============================================================================
