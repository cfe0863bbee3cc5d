----------------------------- MODULE TrialOracle -----------------------------
(***************************************************************************)
(* The trial oracle (src/study-1/src/trial-oracle): from the ingested      *)
(* evidence of one trial, the nine validity gates, the business rules and  *)
(* the preservation verdict.  The oracle has no state: a trial is refused  *)
(* or evaluated to the projection of its result that a verdict depends on. *)
(* The settlement judgement is the one the runner used (module Settlement).*)
(***************************************************************************)
EXTENDS TreatmentFidelity, AttemptLifecycle, Settlement

callerEvents(ev) == SelectSeq(partitionEvents(ev), isCallerEvent)
requestStates(ev) ==
    SortedBy(eventsOfType(callerEvents(ev), "request_state_recorded"), LAMBDA e : e.r.version)

\* What the caller's journal says of one registered attempt.
classifyDispatch(notDispatched, started) ==
    IF started THEN "DISPATCHED" ELSE IF notDispatched THEN "NOT_DISPATCHED" ELSE "UNKNOWN"
attemptFacts(events, registered) ==
    LET mine == SelectSeq(events, LAMBDA e : Own(e.r, "attempt_id") = registered.r.attempt_id)
        has(type) == eventsOfType(mine, type) # <<>>
        event == First(eventsOfType(mine, "attempt_outcome_recorded"))
        outcome == IF event = Absent THEN Absent ELSE event.r.outcome
        recorded == classifyDispatch(has("attempt_not_dispatched"), has("dispatch_started"))
        dispatch == IF outcome \notin {Absent, "FAILED"} /\ recorded = "UNKNOWN" THEN "DISPATCHED" ELSE recorded
        class == IF outcome = Absent THEN classOfPhase(dispatch) ELSE classifyOutcome(outcome, dispatch)
    IN  [registered |-> registered, dispatch_state |-> dispatch, outcome |-> outcome, event |-> event,
         invocation |-> First(SelectSeq(eventsOfType(events, "caller_invocation_started"), LAMBDA e :
                                e.r.source_instance_id = registered.r.source_instance_id)),
         outcome_class |-> IF class = "INVALID" THEN "AMBIGUOUS" ELSE class, contradiction |-> class = "INVALID"]
readAttempts(ev) ==
    LET events == callerEvents(ev)
        registrations == SortedBy(eventsOfType(events, "attempt_registered"), LAMBDA e : e.r.occurred_at)
    IN  [i \in DOMAIN registrations |-> attemptFacts(events, registrations[i])]

\* The settlement the frozen samples re-derive, and the one the runner recorded.
settlementInstants(judged, at(_)) ==
    IF Established(judged)
    THEN [status |-> "established", window_start |-> at(judged.windowStart),
          established_at |-> at(judged.quietUntil), rechecked_at |-> at(judged.recheck)]
    ELSE [status |-> "not_established"]
derivedSettlement(ev, origin) ==
    LET records == streamRecords(ev.artifacts, "settlement_samples")
        samples == [i \in DOMAIN records |-> [records[i] EXCEPT !.at = @ - origin.r.occurred_at]]
        timely == SelectSeq(samples, InTime)
    IN  settlementInstants(evaluateSettlement(samples), LAMBDA i : timely[i].at + origin.r.occurred_at)
readTrialSettlement(ev) ==
    LET events == partitionEvents(ev)
        published == LastOf(eventsOfType(events, "trial_message_published"))
    IN  [published |-> published, assessed |-> LastOf(eventsOfType(events, "settlement_assessed")),
         derived |-> IF published = Absent \/ ~complete(ev, "settlement_samples") THEN Absent
                     ELSE derivedSettlement(ev, published)]

\* The one terminal reason of the request's processing, or Absent (null) when the evidence does not agree.
MAX_RECEIVE_COUNT == 2
dlqHoldsMessage(ev) ==
    LET snapshot == soleRecord(ev.artifacts, "dlq_snapshot")
        published == LastOf(eventsOfType(partitionEvents(ev), "trial_message_published"))
    IN  IF Absent \in {snapshot, published} THEN FALSE
        ELSE \E m \in Range(snapshot.messages) : \/ m.message_id = published.r.message_id
                                                 \/ m.body_sha256 = published.r.message_body_sha256
decidingInvocation(events, state) ==
    First(SelectSeq(eventsOfType(events, "caller_invocation_started"), LAMBDA e :
            /\ e.r.source # "probe_caller"
            /\ e.r.source = state.r.source /\ e.r.source_instance_id = state.r.source_instance_id))
fromFinishedState(ev, finished) ==
    LET claimed == LastOf(finished).r.processing_terminal_reason
        invocation == decidingInvocation(partitionEvents(ev), LastOf(finished))
        lastReceive == IF invocation = Absent THEN FALSE ELSE invocation.r.receive_count >= MAX_RECEIVE_COUNT
    IN  IF \/ \E i \in DOMAIN finished : finished[i].r.processing_terminal_reason # claimed
           \/ claimed # "RETRIES_EXHAUSTED" /\ dlqHoldsMessage(ev)
           \/ claimed = "RETRIES_EXHAUSTED" /\ ~dlqHoldsMessage(ev) /\ ~lastReceive
        THEN Absent ELSE claimed
deriveProcessingTerminalReason(ev) ==
    LET finished == SelectSeq(requestStates(ev), LAMBDA e : e.r.processing_state = "FINISHED")
        interrupted == LastOf(eventsOfType(partitionEvents(ev), "trial_interrupted"))
    IN  IF finished # <<>> THEN fromFinishedState(ev, finished)
        ELSE IF dlqHoldsMessage(ev) THEN "RETRIES_EXHAUSTED"
        ELSE IF interrupted = Absent THEN Absent
        ELSE IF interrupted.r.cause = "SAFETY_DEADLINE" THEN "SAFETY_DEADLINE" ELSE "INTERRUPTED"

\* G1: the ledger was read by the collector, consistently, inside the settled window.
assessIndependentOracle(ev, settlement) ==
    LET snapshot == ev.ledger.snapshot
        derived == settlement.derived
    IN  IF snapshot = Absent THEN "unverified"
        ELSE assembleGate(~snapshot.consistent_read \/ snapshot.writer # "evidence_collector",
                          IF derived = Absent THEN TRUE
                          ELSE IF derived.status # "established" THEN TRUE
                          ELSE snapshot.captured_at \notin derived.established_at..derived.rechecked_at)
\* G5: the whole ledger was read.  Faulty variant: its pages are not checked.
assessLedgerAccessUnpaged(ev) ==
    IF ev.ledger.snapshot = Absent THEN "unverified"
    ELSE assembleGate(ev.ledger.duplicates # {}, ~ev.ledger.snapshot.consistent_read)
assessLedgerAccess(ev) ==
    IF ev.ledger.snapshot = Absent THEN "unverified"
    ELSE assembleGate(ev.ledger.duplicates # {}, ~ev.ledger.complete \/ ~ev.ledger.snapshot.consistent_read)
\* G6: the samples re-derive the settlement the runner recorded, and processing is terminal.
settlementDiffers(derived, runner) ==
    IF derived.status # "established" THEN TRUE
    ELSE \E f \in {"window_start", "established_at", "rechecked_at"} : derived[f] # runner[f]
assessSettlementGate(settlement, terminal) ==
    LET derived == settlement.derived
        runner == IF settlement.assessed = Absent THEN Absent ELSE settlement.assessed.r
    IN  IF Absent \in {derived, settlement.published, runner} THEN "unverified"
        ELSE assembleGate(runner.status = "established" /\ settlementDiffers(derived, runner),
                          runner.status # "established" \/ terminal = Absent)
\* G7: what the rules read is there.
assessRuleEvidence(ev) ==
    assembleGate(FALSE, \/ ~complete(ev, "caller_journal") \/ ev.ledger.snapshot = Absent
                        \/ Absent \in {soleRecord(ev.artifacts, "payment"), soleRecord(ev.artifacts, "approved_decision")})

viewedFidelity(ev, view) == deriveTreatmentFidelity(ev, view, evaluateTreatmentConditions(ev, view))
assessTreatment(ev) == IF viewRefused(ev) THEN "not_applicable" ELSE viewedFidelity(ev, buildTreatmentView(ev))
assessValidityGates(ev, settlement, terminal) ==
    [independent_oracle |-> assessIndependentOracle(ev, settlement), traceability |-> assessTraceability(ev),
     identity_integrity |-> assessIdentityIntegrity(ev), control_integrity |-> deriveControlIntegrity(ev),
     treatment_fidelity |-> assessTreatment(ev), ledger_access |-> assessLedgerAccess(ev),
     settlement |-> assessSettlementGate(settlement, terminal), rule_evidence |-> assessRuleEvidence(ev),
     evidence_integrity |-> assessEvidenceIntegrity(ev)]
deriveTrialValidity(gates) ==
    IF "invalid" \in Range(gates) THEN "invalid"
    ELSE IF "unverified" \in Range(gates) THEN "indeterminate" ELSE "valid"

\* BR-RUA-001, 002 and 009 over the ledger, once the ledger is known to be whole, independent and settled.
deriveMonetaryBasis(ev, gates, payment, decision) ==
    /\ Absent \notin {ev.ledger.snapshot, payment, decision}
    /\ {gates.independent_oracle, gates.ledger_access, gates.settlement} = {"verified"}
sumMinorUnits(txns) == FoldSeq(LAMBDA t, n : t.amount_minor + n, 0, txns)
authorizedEffect(t, payment, decision) ==
    /\ t.refund_request_id = decision.refund_request_id /\ t.payment_id = payment.payment_id
    /\ t.amount_minor = decision.approved_amount_minor /\ t.currency = decision.currency
    /\ t.status = "SUCCEEDED"
passIf(holds) == IF holds THEN "pass" ELSE "fail"
evaluateMonetaryRules(ev, gates) ==
    LET payment == soleRecord(ev.artifacts, "payment")
        decision == soleRecord(ev.artifacts, "approved_decision")
        txns == ev.ledger.transactions
        forRequest == SelectSeq(txns, LAMBDA t : t.refund_request_id = decision.refund_request_id)
        forPayment == SelectSeq(txns, LAMBDA t : t.payment_id = payment.payment_id)
    IN  IF ~deriveMonetaryBasis(ev, gates, payment, decision)
        THEN [one_effect |-> "indeterminate", payment_limit |-> "indeterminate", exact_effect |-> "indeterminate"]
        ELSE [one_effect    |-> passIf(Len(forRequest) = 1),
              payment_limit |-> passIf(sumMinorUnits(forPayment) <= payment.captured_amount_minor),
              exact_effect  |-> passIf(/\ Len(txns) = 1
                                       /\ \A i \in DOMAIN txns : authorizedEffect(txns[i], payment, decision))]

\* BR-RUA-003: every attempt carries the approved decision's refund request.
evaluateLogicalIdentity(ev, attempts, identity) ==
    LET decision == soleRecord(ev.artifacts, "approved_decision")
    IN  IF ~complete(ev, "caller_journal") THEN "indeterminate"
        ELSE IF attempts = <<>> THEN "not_applicable"
        ELSE IF decision = Absent THEN "indeterminate"
        ELSE IF \E a \in Range(attempts) : a.registered.r.refund_request_id # decision.refund_request_id THEN "fail"
        ELSE IF identity = "unverified" THEN "indeterminate" ELSE "pass"
\* BR-RUA-004: from the first state that names an ambiguous attempt on, the recorded knowledge is UNKNOWN.
\* Faulty variant: the state that first names the attempt is not covered.
isCoveredLater(state, first) == first # Absent /\ state.r.version > first.r.version
isCovered(state, first) == IF first = Absent THEN FALSE ELSE state.r.version >= first.r.version
evaluateUnknownOutcome(ev, attempts) ==
    LET ambiguous == {a \in Range(attempts) : a.outcome_class = "AMBIGUOUS"}
        ids == {a.registered.r.attempt_id : a \in ambiguous}
        states == requestStates(ev)
        first == First(SelectSeq(states, LAMBDA e : Range(e.r.attempt_ids) \cap ids # {}))
        covered == SelectSeq(states, LAMBDA e : isCovered(e, first))
    IN  IF ~complete(ev, "caller_journal") THEN "indeterminate"
        ELSE IF ambiguous = {} THEN "not_applicable"
        ELSE IF \E i \in DOMAIN covered : covered[i].r.effect_knowledge # "UNKNOWN" THEN "fail"
        ELSE IF \/ \E a \in ambiguous : a.contradiction \/ a.outcome = Absent
                \/ \E i \in DOMAIN states : states[i].r.version # i
                \/ covered = <<>>
        THEN "indeterminate" ELSE "pass"
mirrorRule(gate) == CASE gate = "verified" -> "pass" [] gate = "invalid" -> "fail" [] OTHER -> "indeterminate"
evaluateBusinessRules(ev, gates, attempts) ==
    LET monetary == evaluateMonetaryRules(ev, gates)
    IN  << monetary.one_effect, monetary.payment_limit,
           evaluateLogicalIdentity(ev, attempts, gates.identity_integrity), evaluateUnknownOutcome(ev, attempts),
           mirrorRule(gates.independent_oracle), "not_applicable", mirrorRule(gates.traceability),
           monetary.exact_effect, mirrorRule(gates.identity_integrity),
           mirrorRule(IF gates.control_integrity = "not_applicable" THEN gates.treatment_fidelity
                      ELSE gates.control_integrity) >>

\* Positions of BR-RUA-001, 002, 003, 004 and 009 among the ten rules.
VERDICT_BUSINESS_RULES == {1, 2, 3, 4, 8}
derivePreservationVerdict(validity, rules) ==
    LET results == {rules[i] : i \in VERDICT_BUSINESS_RULES}
    IN  IF validity # "valid" THEN "indeterminate"
        ELSE IF "fail" \in results THEN "fail"
        ELSE IF "indeterminate" \in results THEN "indeterminate" ELSE "pass"
verdictOutcome(verdict, terminal) ==
    IF terminal = Absent \/ verdict = "indeterminate"
    THEN [preservation_verdict |-> "indeterminate", correct_completion |-> "null"]
    ELSE [preservation_verdict |-> verdict,
          correct_completion |-> IF verdict = "pass" /\ terminal = "SUCCEEDED" THEN "true" ELSE "false"]

\* What the attempt projection says of each attempt, call and transaction.
recordedKnowledge(ev, attempt) ==
    LET states == SelectSeq(requestStates(ev), LAMBDA e : LastOf(e.r.attempt_ids) = attempt)
    IN  IF states = <<>> THEN Absent ELSE LastOf(states).r.effect_knowledge
projectedAttempt(ev, attempts, i) ==
    LET a == attempts[i]
        id == a.registered.r.attempt_id
        naming(type) == First(SelectSeq(eventsOfType(partitionEvents(ev), type), LAMBDA e : e.r.attempt_id = id))
        member(e, f) == IF e = Absent THEN Absent ELSE Own(e.r, f)
        answered == IF a.contradiction THEN Absent ELSE member(a.event, "provider_call_id")
    IN  [attempt_id |-> id, dispatch_state |-> a.dispatch_state, outcome_class |-> a.outcome_class,
         receive_count |-> member(a.invocation, "receive_count"),
         outcome |-> IF a.contradiction THEN Absent ELSE a.outcome,
         provider_call_id |-> IF answered # Absent THEN answered
                              ELSE member(naming("provider_call_accepted"), "provider_call_id"),
         provider_transaction_id |-> member(naming("provider_transaction_committed"), "provider_transaction_id"),
         late_transport_settlement |-> naming("transport_settled_after_timeout") # Absent,
         knowledge_after_derived |->
            foldEffectKnowledge(INITIAL_EFFECT_KNOWLEDGE, [j \in 1..i |-> attempts[j].outcome_class]),
         knowledge_after_recorded |-> recordedKnowledge(ev, id)]
providerCall(events, received) ==
    LET id == received.r.provider_call_id
        has(type) == \E e \in Range(eventsOfType(events, type)) : e.r.provider_call_id = id
    IN  [provider_call_id |-> id, disposition |-> IF has("provider_call_accepted") THEN "ACCEPTED"
                                                  ELSE IF has("provider_call_rejected") THEN "REJECTED" ELSE "UNRESOLVED"]
buildAttemptProjection(ev, attempts) ==
    LET events == partitionEvents(ev)
        received == SortedBy(eventsOfType(events, "provider_call_received"), LAMBDA e : e.r.occurred_at)
    IN  [attempts |-> [i \in DOMAIN attempts |-> projectedAttempt(ev, attempts, i)],
         provider_calls |-> [i \in DOMAIN received |-> providerCall(events, received[i])],
         transactions |-> [i \in DOMAIN ev.ledger.transactions |-> ev.ledger.transactions[i].provider_transaction_id]]

evaluationRefused(ev) ==
    IF ev.scope.execution = Absent THEN TRUE
    ELSE ev.scope.execution.kind = "TRANSPORT_PROBE" \/ ev.scope.trial = Absent
\* The verdict projection of the oracle result, with the attempt projection beside it.
assembleOracleResult(terminal, gates, validity, rules, projection) ==
    verdictOutcome(derivePreservationVerdict(validity, rules), terminal)
    @@ [trial_validity |-> validity, gates |-> gates, rules |-> rules, terminal |-> terminal, projection |-> projection]
judgeTrial(ev, terminal, attempts, gates) ==
    assembleOracleResult(terminal, gates, deriveTrialValidity(gates), evaluateBusinessRules(ev, gates, attempts),
                         buildAttemptProjection(ev, attempts))
evaluateTrial(ev) ==
    LET terminal == deriveProcessingTerminalReason(ev)
    IN  judgeTrial(ev, terminal, readAttempts(ev), assessValidityGates(ev, readTrialSettlement(ev), terminal))
verdictProjection(result) ==
    <<result.preservation_verdict, result.trial_validity, result.gates, result.rules, result.correct_completion>>
=============================================================================
