---------------------------- MODULE LateEvidence ----------------------------
(***************************************************************************)
(* Late evidence (src/study-1/src/trial-oracle/late-evidence): records     *)
(* that reached the evidence stores after a trial was frozen are joined to *)
(* its frozen evidence, the trial is evaluated again, and each frozen      *)
(* result is found consistent, contradicted or unverified.  Nothing here   *)
(* changes the frozen result.                                              *)
(*                                                                         *)
(* A late line is readable or not, and ok when it conforms to its schema;  *)
(* a torn stream or file lost the newline that ends its last line.         *)
(***************************************************************************)
EXTENDS TrialOracle

\* Where a late record of a source belongs, and how it joins what is frozen there.
EXECUTION_ROUTES == [RUNNER_JOURNAL |-> "runner_journal", PROVIDER_JOURNAL |-> "execution_provider_journal"]
TRIAL_JOURNAL_ROUTES == [CALLER_JOURNAL |-> "caller_journal", PROVIDER_JOURNAL |-> "provider_journal",
                         CONTROLLER_JOURNAL |-> "controller_journal", RUNNER_JOURNAL |-> "runner_journal"]
TRIAL_DOCUMENT_ROUTES ==
    { [source |-> "LEDGER", accepts |-> "ledger_snapshot", path |-> "ledger_snapshot", fold |-> "transactions"],
      [source |-> "SOURCE_QUEUE", accepts |-> "queue_observation", path |-> "source_observations", fold |-> "append_line"],
      [source |-> "DLQ", accepts |-> "queue_observation", path |-> "dlq_observations", fold |-> "append_line"],
      [source |-> "DLQ", accepts |-> "dlq_snapshot", path |-> "dlq_snapshot", fold |-> "messages"],
      [source |-> "DURABLE_EXECUTION_METADATA", accepts |-> "durable_execution_metadata",
       path |-> "durable_executions", fold |-> "executions"] }
routeLateRecord(record) ==
    LET event == record.late_record_type \in EventTypes
        documents == {r \in TRIAL_DOCUMENT_ROUTES : /\ r.source = record.late_source
                                                    /\ r.accepts = record.late_record_type}
        line(path, shared) == [path |-> path, fold |-> "append_line", shared |-> shared]
    IN  IF "trial_id" \notin DOMAIN record
        THEN IF event /\ record.late_source \in DOMAIN EXECUTION_ROUTES
             THEN line(EXECUTION_ROUTES[record.late_source], TRUE) ELSE Absent
        ELSE IF event /\ record.late_source \in DOMAIN TRIAL_JOURNAL_ROUTES
        THEN line(TRIAL_JOURNAL_ROUTES[record.late_source], record.late_source = "RUNNER_JOURNAL")
        ELSE IF documents = {} THEN Absent
        ELSE LET r == CHOOSE r \in documents : TRUE IN [path |-> r.path, fold |-> r.fold, shared |-> FALSE]

\* Reading the stream: each line is accepted with its route, ignored, or a problem.
foreignMember(record, context) ==
    \/ \E value \in {record, record.late_record} :
        \/ otherExecution(value, context.execution)
        \/ Own(value, "execution_manifest_sha256") \notin {Absent, context.execution.sha256}
    \/ /\ "trial_id" \in DOMAIN record
       /\ Own(record.late_record, "trial_id") \notin {Absent, record.trial_id}
trialManifestProblem(record, context) ==
    /\ "trial_id" \in DOMAIN record
    /\ record.trial_id \in DOMAIN context.trial_manifests
    /\ context.trial_manifests[record.trial_id] # Own(record, "trial_manifest_sha256")
readLine(record, n, context) ==
    IF ~record.readable THEN "LATE_RECORD_UNREADABLE"
    ELSE IF ~record.ok THEN "LATE_RECORD_SCHEMA_INVALID"
    ELSE IF record.sequence # n THEN "LATE_SEQUENCE_BROKEN"
    ELSE IF ~record.correlated THEN "uncorrelated"
    ELSE IF foreignMember(record, context) THEN "LATE_RECORD_FOREIGN"
    ELSE IF Own(record.late_record, "record_type") # record.late_record_type THEN "LATE_RECORD_TYPE_MISMATCH"
    ELSE IF trialManifestProblem(record, context) THEN "LATE_TRIAL_MANIFEST_MISMATCH"
    ELSE IF routeLateRecord(record) = Absent THEN "LATE_RECORD_UNROUTABLE"
    ELSE IF ~validates(record.late_record) THEN "LATE_RECORD_SCHEMA_INVALID"
    ELSE "accepted"
\* An accepted record keeps its route.
readStream(stream, Verdict(_), Route(_)) ==
    IF stream = Absent THEN [accepted |-> <<>>, problems |-> {}]
    ELSE LET accepted == Pick(stream.lines, LAMBDA n : Verdict(n) = "accepted")
         IN  [accepted |-> [i \in DOMAIN accepted |-> [route |-> Route(accepted[i])] @@ accepted[i]],
              problems |-> ({Verdict(n) : n \in DOMAIN stream.lines} \ {"accepted", "uncorrelated"})
                           \cup IF stream.torn /\ stream.lines # <<>> THEN {"LATE_STREAM_TRUNCATED"} ELSE {}]
readLateStream(stream, context) ==
    readStream(stream, LAMBDA n : readLine(stream.lines[n], n, context), routeLateRecord)

\* Joining: a line is appended to a whole file; a document's unknown items join the frozen document's.
newItems(frozen, late) == Firsts(SelectSeq(late, LAMBDA item : item \notin Range(frozen)), LAMBDA item : item)
withLastPageCount(document, added) ==
    IF document.pages = <<>> THEN document
    ELSE [document EXCEPT !.pages[Len(document.pages)].item_count = @ + added]
foldLateDocument(fold, frozen, late) ==
    IF frozen = Absent THEN late
    ELSE IF frozen.torn \/ frozen.values = <<>> THEN Absent
    ELSE LET document == frozen.values[1]
             added == newItems(document[fold], late[fold])
             union == [document EXCEPT ![fold] = @ \o added]
         IN  IF ~validates(document) \/ document.record_type # late.record_type THEN Absent
             ELSE IF fold = "transactions" THEN withLastPageCount(union, Len(added)) ELSE union
\* The artifact after a late record joined it; Absent when it cannot.
rewritten(raw, path, values) ==
    [path |-> path, values |-> values, torn |-> FALSE,
     sha256 |-> IF raw = Absent THEN <<path, "late">> ELSE IF raw.values = values THEN raw.sha256 ELSE Append(raw.sha256, "late")]
joinLateRecord(raw, record) ==
    LET route == record.route
        folded == foldLateDocument(route.fold, raw, record.late_record)
    IN  IF route.fold = "append_line"
        THEN IF raw = Absent THEN rewritten(raw, route.path, <<record.late_record>>)
             ELSE IF raw.torn THEN Absent
             ELSE rewritten(raw, route.path, Append(raw.values, record.late_record))
        ELSE IF folded = Absent THEN Absent ELSE rewritten(raw, route.path, <<folded>>)
augmentOne(state, record) ==
    LET path == record.route.path
        at == SelectSeq([i \in DOMAIN state.artifacts |-> i], LAMBDA i : state.artifacts[i].path = path)
        joined == joinLateRecord(IF at = <<>> THEN Absent ELSE state.artifacts[at[1]], record)
    IN  IF joined = Absent THEN [state EXCEPT !.problems = @ \cup {"LATE_DOCUMENT_UNFOLDABLE"}]
        ELSE [state EXCEPT !.changed = @ \cup {path},
                           !.artifacts = IF at = <<>> THEN Append(@, joined) ELSE [@ EXCEPT ![at[1]] = joined]]
\* The index keeps the digest of an extended file only if the frozen bytes already disagreed with it.
setAsideExtended(indexed, original, changed) ==
    LET agreed == {original[i].path : i \in {i \in DOMAIN original :
                    original[i].path \in DOMAIN indexed /\ indexed[original[i].path] = original[i].sha256}}
    IN  [path \in DOMAIN indexed \ (changed \cap agreed) |-> indexed[path]]
\* Faulty variant: the problems are kept and the joined evidence is not.
augmentFrozenEvidenceDropped(frozen, records) ==
    [problems |-> FoldLeft(augmentOne, [artifacts |-> frozen.artifacts, changed |-> {}, problems |-> {}], records).problems,
     input |-> frozen]
augmentFrozenEvidence(frozen, records) ==
    LET all == FoldLeft(augmentOne, [artifacts |-> frozen.artifacts, changed |-> {}, problems |-> {}], records)
    IN  [problems |-> all.problems,
         input |-> [frozen EXCEPT !.artifacts = all.artifacts,
                                  !.indexed_digests = IF @ = Absent THEN Absent
                                                      ELSE setAsideExtended(@, frozen.artifacts, all.changed)]]

\* Monitoring counts as complete only when declared so, long enough and without a problem.
MINIMUM_MONITORING_MS == 120
windowInvalid(m) ==
    /\ m.outcome # "skipped"
    /\ m.ended_at # Absent
    /\ IF m.started_at = Absent THEN TRUE ELSE m.ended_at < m.started_at
effectiveMonitoring(m, problems) ==
    IF m.outcome # "complete" THEN m.outcome
    ELSE IF problems # {} THEN "failed"
    ELSE IF m.ended_at - m.started_at < MINIMUM_MONITORING_MS THEN "shortened" ELSE "complete"

\* A frozen result is usable when it is the one result of its trial, in its place and of this execution.
frozenResultRefused(trials, execution) ==
    \/ \E i \in DOMAIN trials :
        LET result == trials[i].result
        IN  \/ ~result.ok
            \/ otherExecution(result, execution) \/ result.execution_manifest_sha256 # execution.sha256
            \/ result.path # result.trial_id
    \/ \E i, j \in DOMAIN trials : i # j /\ trials[i].result.trial_id = trials[j].result.trial_id
projectionOf(ev) ==
    IF evaluationRefused(ev) THEN Absent
    ELSE [trial_id |-> ev.scope.trial.trial_id, projection |-> verdictProjection(evaluateTrial(ev))]
reevaluatedProjection(input) == projectionOf(ingestEvidence(input))
\* Whether the frozen result is reproduced first, and whether the augmented evidence says otherwise.
compareTrial(result, baseline, again, problems) ==
    LET outcome(refused, changed) == [refused |-> refused, changed |-> changed, problems |-> problems]
    IN  IF Absent \in {baseline, again} THEN outcome("REEVALUATION_REFUSED", FALSE)
        ELSE IF {baseline.trial_id, again.trial_id} # {result.trial_id} THEN outcome("REEVALUATION_TRIAL_MISMATCH", FALSE)
        ELSE IF baseline.projection # result.projection THEN outcome("FROZEN_RESULT_NOT_REPRODUCED", FALSE)
        ELSE outcome(Absent, again.projection # result.projection)
reevaluateTrial(trial, accepted) ==
    LET id == trial.result.trial_id
        joining == SelectSeq(accepted, LAMBDA r : Own(r, "trial_id") = id \/ r.route.shared)
        counted == Len(SelectSeq(joining, LAMBDA r : Own(r, "trial_id") \in {Absent, id}))
        augmented == augmentFrozenEvidence(trial.frozen, joining)
    IN  [counted |-> counted]
        @@ IF counted = 0 THEN [refused |-> Absent, changed |-> FALSE, problems |-> {}]
           ELSE compareTrial(trial.result, reevaluatedProjection(trial.frozen),
                             reevaluatedProjection(augmented.input), augmented.problems)
reassessmentStatus(counted, changed, monitoringComplete) ==
    IF changed THEN "contradictory" ELSE IF ~monitoringComplete THEN "unverified"
    ELSE IF counted = 0 THEN "none" ELSE "consistent"
refusedAssessment(reason) == [refused |-> reason, late_evidence_status |-> Absent, reassessments |-> <<>>]
assessmentOf(input, reading, again) ==
    LET refused == First(SelectSeq(again, LAMBDA r : r.refused # Absent))
        problems == (IF input.stream = Absent /\ input.monitoring.outcome # "skipped" THEN {"LATE_STREAM_MISSING"} ELSE {})
                    \cup reading.problems \cup UNION {r.problems : r \in Range(again)}
        monitoring == effectiveMonitoring(input.monitoring, problems)
        statuses == [i \in DOMAIN again |->
                        reassessmentStatus(again[i].counted, again[i].changed, monitoring = "complete")]
    IN  IF windowInvalid(input.monitoring) THEN refusedAssessment("MONITORING_WINDOW_INVALID")
        ELSE IF frozenResultRefused(input.trials, input.execution) THEN refusedAssessment("FROZEN_RESULT_INVALID")
        ELSE IF refused # Absent THEN refusedAssessment(refused.refused)
        ELSE [refused |-> Absent, reassessments |-> statuses,
              late_evidence_status |-> IF monitoring # "complete" THEN "unverified"
                                       ELSE IF reading.accepted = <<>> THEN "none"
                                       ELSE IF "contradictory" \in Range(statuses) THEN "contradictory" ELSE "consistent"]
assessRead(input, reading) ==
    assessmentOf(input, reading, [i \in DOMAIN input.trials |-> reevaluateTrial(input.trials[i], reading.accepted)])
assessLateEvidence(input) ==
    LET results == {t.result : t \in Range(input.trials)}
        context == [execution |-> input.execution,
                    trial_manifests |-> [id \in {r.trial_id : r \in results} |->
                        (CHOOSE r \in results : r.trial_id = id).trial_manifest_sha256]]
    IN  assessRead(input, readLateStream(input.stream, context))
=============================================================================
