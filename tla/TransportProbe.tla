--------------------------- MODULE TransportProbe ---------------------------
(***************************************************************************)
(* The verdict of a transport probe (src/study-1/src/transport-            *)
(* qualification/verdict) and its reassessment over late evidence          *)
(* (execution-lifecycle/probe-late-evidence.ts).  A probe is one recorded  *)
(* invocation of the probe caller, one attempt and no trial; its evidence  *)
(* is ingested and its six treatment conditions are evaluated by the same  *)
(* code as a trial's.  Its settlement policy differs from a trial's only   *)
(* in the lengths, which are constants here.                               *)
(***************************************************************************)
EXTENDS LateEvidence

\* BR-RUA-027: how often the caller ran, calls were accepted and transactions committed, and whether the evidence
\* establishes each count.
judgement(count, established) == [count |-> count, established |-> established]
invocationCount(ev) ==
    LET events == partitionEvents(ev)
        started == SelectSeq(eventsOfType(events, "caller_invocation_started"), LAMBDA e : e.r.source = "probe_caller")
        ids(s) == {e.r.lambda_request_id : e \in Range(s)}
        invoked == ids(eventsOfType(events, "probe_workload_invoked"))
    IN  judgement(Max({Len(started), Cardinality(invoked)}),
                  complete(ev, "caller_journal") /\ complete(ev, "runner_journal") /\ ids(started) = invoked)
acceptedCallCount(ev) ==
    judgement(Len(eventsOfType(partitionEvents(ev), "provider_call_accepted")), complete(ev, "provider_journal"))
transactionCount(ev) ==
    judgement(Cardinality({t.provider_transaction_id : t \in Range(ev.ledger.transactions)}),
              ev.ledger.snapshot # Absent /\ ev.ledger.complete /\ ev.ledger.duplicates = {})
assessProbeValidity(ev) ==
    LET counts == [caller_invocations |-> invocationCount(ev), accepted_provider_calls |-> acceptedCallCount(ev),
                   committed_transactions |-> transactionCount(ev)]
    IN  [cardinality |-> [field \in DOMAIN counts |-> counts[field].count],
         probe_validity |-> IF \E c \in Range(counts) : c.count > 1 THEN "invalid"
                            ELSE IF \A c \in Range(counts) : c.established THEN "valid" ELSE "indeterminate"]

\* The runner's settlement is re-derived from the samples, from the instant of the first recorded invocation.
probeSettlementVerified(ev) ==
    LET events == partitionEvents(ev)
        invoked == First(eventsOfType(events, "probe_workload_invoked"))
        assessed == LastOf(eventsOfType(events, "settlement_assessed"))
    IN  /\ complete(ev, "settlement_samples") /\ subjectOf(ev, "runner_journal")
        /\ Absent \notin {invoked, assessed}
        /\ assessed.r.status = "established"
        /\ ~settlementDiffers(derivedSettlement(ev, invoked), assessed.r)
\* The same three checks as gate G5 of a trial.
assessProbeLedgerAccess(ev) == assessLedgerAccess(ev)
assessProbeEvidenceIntegrity(ev, validity) ==
    LET gates == {assessEvidenceIntegrity(ev), assessTraceability(ev), assessIdentityIntegrity(ev),
                  assessProbeLedgerAccess(ev)}
    IN  assembleGate("invalid" \in gates,
                     "unverified" \in gates \/ ~probeSettlementVerified(ev) \/ 0 \in Range(validity.cardinality))

\* A condition that a finding affects is indeterminate already, so one that fails is not affected.
deriveProbeVerdict(validity, conditions, integrity) ==
    IF validity = "invalid" THEN "indeterminate"
    ELSE IF \E i \in DOMAIN conditions : conditions[i].result = "fail" THEN "fail"
    ELSE IF integrity = "verified" /\ \A i \in DOMAIN conditions : conditions[i].result = "pass" THEN "pass"
    ELSE "indeterminate"
\* A pass needs exactly one of everything, whatever the validity says.
probeVerdictOutcome(verdict, validity, integrity) ==
    IF verdict = "pass" /\ (integrity # "verified" \/ Range(validity.cardinality) # {1}) THEN "indeterminate"
    ELSE verdict
probeResultRefused(ev) == IF ev.scope.execution = Absent THEN TRUE ELSE ev.scope.execution.kind # "TRANSPORT_PROBE"
assembleProbeResult(ev, conditions, fidelity, validity, integrity) ==
    [transport_probe_id |-> ev.scope.execution.id, execution_manifest_sha256 |-> ev.scope.execution.sha256,
     transport_probe_verdict |->
        probeVerdictOutcome(deriveProbeVerdict(validity.probe_validity, conditions, integrity), validity, integrity),
     probe_validity |-> validity.probe_validity, probe_cardinality |-> validity.cardinality,
     evidence_integrity |-> integrity, treatment_fidelity |-> fidelity,
     condition_results |-> [i \in DOMAIN conditions |-> conditions[i].result]]
judgeProbe(ev, view, conditions, validity) ==
    assembleProbeResult(ev, conditions, deriveTreatmentFidelity(ev, view, conditions), validity,
                        assessProbeEvidenceIntegrity(ev, validity))
viewedProbe(ev, view) == judgeProbe(ev, view, evaluateTreatmentConditions(ev, view), assessProbeValidity(ev))
buildProbeResult(ev) == IF probeResultRefused(ev) THEN Absent ELSE viewedProbe(ev, buildTreatmentView(ev))
probeProjection(result) ==
    [f \in DOMAIN result \ {"transport_probe_id", "execution_manifest_sha256"} |-> result[f]]

-----------------------------------------------------------------------------
\* Late evidence of a probe.  A rejection no cause attributes to a call belongs to the execution.
PROBE_JOURNALS == [CALLER_JOURNAL |-> "caller_journal", PROVIDER_JOURNAL |-> "provider_journal",
                   CONTROLLER_JOURNAL |-> "controller_journal", RUNNER_JOURNAL |-> "runner_journal"]
isUnattributedRejection(carried) ==
    Own(carried, "record_type") = "provider_call_rejected" /\ "causation_event_ids" \notin DOMAIN carried
routeProbeLateRecord(record) ==
    LET line(path, shared) == [path |-> path, fold |-> "append_line", shared |-> shared]
    IN  IF record.late_source = "LEDGER"
        THEN IF record.late_record_type = "ledger_snapshot"
             THEN [path |-> "ledger_snapshot", fold |-> "transactions", shared |-> FALSE] ELSE Absent
        ELSE IF record.late_source \notin DOMAIN PROBE_JOURNALS \/ record.late_record_type \notin EventTypes THEN Absent
        ELSE IF record.late_source = "PROVIDER_JOURNAL" /\ isUnattributedRejection(record.late_record)
        THEN line("execution_provider_journal", TRUE)
        ELSE line(PROBE_JOURNALS[record.late_source], record.late_source = "RUNNER_JOURNAL")
foreignProbeMember(record, execution) ==
    \E value \in {record, record.late_record} :
        \/ otherExecution(value, execution)
        \/ Own(value, "execution_manifest_sha256") \notin {Absent, execution.sha256}
        \/ "trial_id" \in DOMAIN value
readProbeLine(record, n, execution) ==
    IF ~record.readable THEN "LATE_RECORD_UNREADABLE"
    ELSE IF ~record.ok THEN "LATE_RECORD_SCHEMA_INVALID"
    ELSE IF record.sequence # n THEN "LATE_SEQUENCE_BROKEN"
    ELSE IF ~record.correlated THEN "uncorrelated"
    ELSE IF foreignProbeMember(record, execution) THEN "LATE_RECORD_FOREIGN"
    ELSE IF Own(record.late_record, "record_type") # record.late_record_type THEN "LATE_RECORD_TYPE_MISMATCH"
    ELSE IF routeProbeLateRecord(record) = Absent THEN "LATE_RECORD_UNROUTABLE"
    ELSE IF ~validates(record.late_record) THEN "LATE_RECORD_SCHEMA_INVALID"
    ELSE "accepted"
readProbeLateStream(stream, execution) ==
    readStream(stream, LAMBDA n : readProbeLine(stream.lines[n], n, execution), routeProbeLateRecord)

\* The runner journal as it was when the probe's result was derived: everything before the first freeze event.
isFreezeEvent(value) ==
    \/ Own(value, "record_type") = "trial_evidence_frozen"
    \/ Own(value, "record_type") = "phase_transition_recorded" /\ Own(value, "phase") = "PROBE_FREEZE"
runnerJournalBeforeFreeze(file) ==
    LET freezes == {i \in DOMAIN file.values : isFreezeEvent(file.values[i])}
    IN  IF freezes = {} THEN file
        ELSE [file EXCEPT !.values = SubSeq(@, 1, Min(freezes) - 1), !.torn = FALSE, !.sha256 = <<"runner_journal">>]
frozenProbeArtifacts(package) ==
    [i \in DOMAIN package |->
        IF package[i].path = "runner_journal" THEN runnerJournalBeforeFreeze(package[i]) ELSE package[i]]

\* The probe's plan is read from the resource manifest again.
frozenProbeUnreadable(package) ==
    ~ \E f \in Range(package) : f.path = "resource_manifest" /\ f.values # <<>> /\ f.values[1].ok

rederived(input) == buildProbeResult(ingestEvidence(input))
compareProbe(result, baseline, again, problems) ==
    LET outcome(refused, changed, found) == [refused |-> refused, changed |-> changed, problems |-> found]
    IN  IF Absent \in {baseline, again} THEN outcome("REEVALUATION_REFUSED", FALSE, {})
        ELSE IF probeProjection(baseline) # probeProjection(result)
        THEN outcome("FROZEN_RESULT_NOT_REPRODUCED", FALSE, {})
        ELSE outcome(Absent, probeProjection(again) # probeProjection(result), problems)
reevaluateProbe(frozen, result, accepted) ==
    LET augmented == augmentFrozenEvidence(frozen, accepted)
    IN  [counted |-> Len(accepted)]
        @@ IF accepted = <<>> THEN [refused |-> Absent, changed |-> FALSE, problems |-> {}]
           ELSE compareProbe(result, rederived(frozen), rederived(augmented.input), augmented.problems)
\* A probe that froze no result has late evidence and nothing to reassess with it.
nothingFrozen == [counted |-> 0, refused |-> Absent, changed |-> FALSE, problems |-> {}]
foreignProbeResult(result, execution) ==
    result # Absent /\ [id |-> result.transport_probe_id, sha256 |-> result.execution_manifest_sha256]
                       # [id |-> execution.id, sha256 |-> execution.sha256]
probeAssessment(result, execution, stream, monitoring, reading, again) ==
    LET missing == IF stream = Absent /\ monitoring.outcome # "skipped" THEN {"LATE_STREAM_MISSING"} ELSE {}
        outcome == effectiveMonitoring(monitoring, missing \cup reading.problems \cup again.problems)
        status == reassessmentStatus(again.counted, again.changed, outcome = "complete")
    IN  IF windowInvalid(monitoring) THEN refusedAssessment("MONITORING_WINDOW_INVALID")
        ELSE IF foreignProbeResult(result, execution) THEN refusedAssessment("FROZEN_RESULT_FOREIGN")
        ELSE IF again.refused # Absent THEN refusedAssessment(again.refused)
        ELSE [refused |-> Absent, reassessments |-> IF result = Absent THEN <<>> ELSE <<status>>,
              late_evidence_status |-> IF outcome # "complete" THEN "unverified"
                                       ELSE IF reading.accepted = <<>> THEN "none"
                                       ELSE IF again.changed THEN "contradictory" ELSE "consistent"]
assessProbeLateEvidence(execution, frozen, result, stream, monitoring) ==
    LET reading == readProbeLateStream(stream, execution)
    IN  probeAssessment(result, execution, stream, monitoring, reading,
                        IF result = Absent THEN nothingFrozen ELSE reevaluateProbe(frozen, result, reading.accepted))
=============================================================================
