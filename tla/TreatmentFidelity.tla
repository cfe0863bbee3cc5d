-------------------------- MODULE TreatmentFidelity --------------------------
(***************************************************************************)
(* Treatment fidelity and control integrity (src/study-1/src/              *)
(* treatment-fidelity): from ingested evidence, the six conditions         *)
(* BR-RUA-010..015 of a COMMIT_THEN_TIMEOUT trial and gate G4b over them,  *)
(* and gate G4a of a CONTROL trial.  An event or document that the         *)
(* evidence does not hold is Absent; a reference is a path and, for an     *)
(* event, its id.                                                          *)
(***************************************************************************)
EXTENDS EvidenceIngestion

BENIGN_CODES == {"EQUIVALENT_DUPLICATE_COLLAPSED", "LEDGER_LARGER_THAN_EXPECTED"}
CALLER_SOURCES == {"conventional_caller", "durable_caller", "probe_caller"}

partitionEvents(ev) ==
    LET partition == IF ev.scope.trial = Absent THEN EXECUTION_PARTITION ELSE ev.scope.trial.trial_id
    IN  SelectSeq(ev.subject, LAMBDA e : e.partition = partition)
eventsOfType(events, type) == SelectSeq(events, LAMBDA e : e.r.record_type = type)
isCallerEvent(e) == e.r.source \in CALLER_SOURCES
causedBy(later, earlier) == earlier.r.event_id \in later.r.causation_event_ids

\* Complete: given, parsed, and without a finding at its path other than a missing predecessor.
complete(ev, class) ==
    LET a == subjectArtifact(ev.artifacts, class)
    IN  IF a = Absent THEN FALSE
        ELSE /\ ~a.torn
             /\ \A i \in DOMAIN ev.findings :
                    \/ ev.findings[i].path # class
                    \/ ev.findings[i].code \in BENIGN_CODES \cup {"CAUSAL_PREDECESSOR_MISSING"}

refOf(e) == IF e = Absent THEN {} ELSE {[path |-> e.path, event_id |-> e.r.event_id]}
refsOf(events) == UNION {refOf(events[i]) : i \in DOMAIN events}
fileRef(ev, class) == IF subjectOf(ev, class) THEN {[path |-> class, event_id |-> Absent]} ELSE {}
affects(f, refs) ==
    /\ f.code \notin BENIGN_CODES
    /\ IF f.event_id = Absent THEN f.path \in {ref.path : ref \in refs}
       ELSE f.event_id \in {ref.event_id : ref \in refs}
affectingFindings(findings, refs) == {findings[i] : i \in {i \in DOMAIN findings : affects(findings[i], refs)}}

targetedAttempt(events, commit, snapshot) ==
    LET registered == {e.r.attempt_id : e \in Range(eventsOfType(events, "attempt_registered"))}
        item == IF snapshot = Absent THEN Absent ELSE snapshot.treatment
    IN  IF commit # Absent THEN commit.r.attempt_id
        ELSE IF item # Absent /\ Own(item, "targeted_attempt_id") # Absent THEN item.targeted_attempt_id
        ELSE IF Cardinality(registered) = 1 THEN CHOOSE a \in registered : TRUE ELSE Absent
confirmationOf(events, commit) ==
    LET all    == eventsOfType(events, "provider_commit_confirmed")
        caused == SelectSeq(all, LAMBDA e : causedBy(e, commit))
    IN  IF caused # <<>> THEN caused[1]
        ELSE First(SelectSeq(all, LAMBDA e : e.r.provider_transaction_id = commit.r.provider_transaction_id))
commitScoped(events, type, commit, attempt) ==
    First(SelectSeq(eventsOfType(events, type), LAMBDA e :
            IF commit # Absent THEN e.r.provider_commit_id = commit.r.provider_commit_id
            ELSE attempt # Absent /\ e.r.attempt_id = attempt))

\* The view binds a treatment trial (or a probe) to its targeted commit, attempt and barrier events.
viewRefused(ev) ==
    /\ ev.scope.subject_kind # "probe"
    /\ IF ev.scope.trial = Absent THEN TRUE ELSE ev.scope.trial.scenario # "COMMIT_THEN_TIMEOUT"
buildTreatmentView(ev) ==
    LET events   == partitionEvents(ev)
        targeted == SelectSeq(eventsOfType(events, "provider_transaction_committed"), LAMBDA e : e.r.targeted)
        commit   == IF Len(targeted) = 1 THEN targeted[1] ELSE Absent
        snapshot == soleRecord(ev.artifacts, "treatment_state_snapshot")
        attempt  == targetedAttempt(events, commit, snapshot)
        caller   == SelectSeq(events, LAMBDA e : /\ attempt # Absent /\ isCallerEvent(e)
                                                 /\ Own(e.r, "attempt_id") = attempt)
        firstOf(type) == First(eventsOfType(caller, type))
    IN  [commit |-> commit, targeted_commits |-> Len(targeted), attempt |-> attempt, snapshot |-> snapshot,
         confirmation |-> IF commit = Absent THEN Absent ELSE confirmationOf(events, commit),
         dispatch |-> firstOf("dispatch_started"), caller_timeout |-> firstOf("caller_timeout_recorded"),
         outcome |-> firstOf("attempt_outcome_recorded"), attempt_events |-> caller,
         late_settlements |-> eventsOfType(caller, "transport_settled_after_timeout"),
         signal |-> commitScoped(events, "timeout_signal_recorded", commit, attempt),
         observation |-> commitScoped(events, "treatment_timeout_observed", commit, attempt),
         release |-> commitScoped(events, "treatment_response_released", commit, attempt),
         safety_releases |-> eventsOfType(events, "treatment_safety_released"),
         conflicts |-> eventsOfType(events, "timeout_signal_conflict_recorded"),
         commits |-> eventsOfType(events, "provider_transaction_committed"),
         accepted_calls |-> eventsOfType(events, "provider_call_accepted"),
         configuration |-> soleRecord(ev.artifacts, "provider_trial_configuration")]

\* A draft is a result and the evidence it cites; a finding on that evidence makes it indeterminate.
draft(result, refs) == [result |-> result, refs |-> refs]
finishCondition(ev, d) ==
    [result |-> IF affectingFindings(ev.findings, d.refs) # {} THEN "indeterminate" ELSE d.result, refs |-> d.refs]
outcomeOf(view) == IF view.outcome = Absent THEN Absent ELSE view.outcome.r.outcome

\* BR-RUA-010: the targeted commit was made before the caller's timer fired.
provenNoCommit(ev, view) ==
    /\ view.attempt # Absent /\ view.targeted_commits = 0 /\ complete(ev, "provider_journal")
    /\ ev.ledger.snapshot # Absent /\ ev.ledger.complete /\ ev.ledger.duplicates = {}
    /\ \A e \in Range(view.commits) : e.r.attempt_id # view.attempt
    /\ \A t \in Range(ev.ledger.transactions) : t.attempt_id # view.attempt
\* Faulty variant: the instant the confirmation was journaled stands for the instant of the commit.
commitInstantJournaled(confirmation) == confirmation.r.occurred_at
commitInstant(confirmation) == confirmation.r.committed_at
evaluateCommitBeforeTimer(ev, view) ==
    LET refs == refOf(view.commit) \cup refOf(view.confirmation) \cup refOf(view.caller_timeout)
        provider == fileRef(ev, "provider_journal")
    IN  IF view.confirmation # Absent /\ view.caller_timeout # Absent
        THEN LET committed == commitInstant(view.confirmation)
                 fired == view.caller_timeout.r.timer_fired_at
             IN  draft(IF committed < fired THEN "pass" ELSE IF committed > fired THEN "fail" ELSE "indeterminate", refs)
        ELSE IF view.caller_timeout # Absent /\ provenNoCommit(ev, view)
        THEN draft("fail", refs \cup provider \cup fileRef(ev, "ledger_snapshot"))
        ELSE draft("indeterminate", refs \cup provider \cup fileRef(ev, "caller_journal"))

\* BR-RUA-011: the application timer, and nothing else, ended the targeted attempt.
APPLICATION_DEADLINE_NS == 3   \* seconds
violatesTimerContract(timeout) ==
    \/ timeout.r.elapsed < APPLICATION_DEADLINE_NS
    \/ timeout.r.arbiter_winner # "TIMER"
    \/ timeout.r.transport_settled_at_claim
    \/ timeout.r.abort_requested_at > timeout.r.recorded_at
evaluateApplicationTimeout(ev, view) ==
    LET timeout == view.caller_timeout
        refs == refOf(timeout) \cup refOf(view.dispatch) \cup refOf(view.outcome) \cup fileRef(ev, "caller_journal")
        correlated == /\ view.dispatch # Absent /\ causedBy(timeout, view.dispatch)
                      /\ timeout.r.monotonic_origin_event_id = view.dispatch.r.event_id
                      /\ outcomeOf(view) = "TIMED_OUT"
    IN  draft(IF timeout = Absent
              THEN IF outcomeOf(view) \notin {Absent, "TIMED_OUT"} /\ complete(ev, "caller_journal")
                   THEN "fail" ELSE "indeterminate"
              ELSE IF violatesTimerContract(timeout) THEN "fail"
              ELSE IF correlated THEN "pass" ELSE "indeterminate", refs)

\* BR-RUA-012: the provider went on after the timeout: it observed the signal and released.
chainResolves(view) ==
    /\ view.signal # Absent /\ view.caller_timeout # Absent
    /\ causedBy(view.release, view.observation) /\ causedBy(view.observation, view.signal)
    /\ causedBy(view.signal, view.caller_timeout)
providerStopped(ev, view) ==
    /\ view.observation = Absent /\ view.release = Absent /\ view.safety_releases = <<>>
    /\ complete(ev, "provider_journal")
    /\ view.snapshot # Absent
    /\ view.snapshot.consistent_read /\ view.snapshot.treatment # Absent
    /\ view.snapshot.treatment.state \in {"COMMITTED_WAITING", "TIMEOUT_SIGNALLED"}
evaluateContinuedExecution(ev, view) ==
    LET refs == refOf(view.release) \cup refOf(view.observation) \cup refOf(view.signal)
                \cup refOf(view.caller_timeout) \cup refsOf(view.safety_releases)
    IN  IF view.observation # Absent /\ view.release # Absent
        THEN draft(IF chainResolves(view) THEN "pass" ELSE "indeterminate", refs)
        ELSE IF providerStopped(ev, view)
        THEN draft("fail", refs \cup fileRef(ev, "provider_journal") \cup fileRef(ev, "treatment_state_snapshot"))
        ELSE draft("indeterminate", refs \cup fileRef(ev, "provider_journal"))

\* BR-RUA-013: the signal joins exactly this commit with exactly this caller timeout.
joinMatches(view) ==
    /\ view.signal.r.causation_event_ids = {view.commit.r.event_id, view.caller_timeout.r.event_id}
    /\ view.signal.r.attempt_id = view.caller_timeout.r.attempt_id
    /\ view.signal.r.caller_timeout_event_id = view.caller_timeout.r.event_id
    /\ view.signal.r.provider_commit_event_id = view.commit.r.event_id
evaluateCausalJoin(ev, view) ==
    LET refs == refOf(view.signal) \cup refOf(view.commit) \cup refOf(view.caller_timeout)
                \cup refOf(view.observation) \cup refsOf(view.conflicts)
    IN  IF view.conflicts # <<>> THEN draft("fail", refs)
        ELSE IF Absent \in {view.signal, view.commit, view.caller_timeout}
        THEN draft("indeterminate", refs \cup fileRef(ev, "controller_journal"))
        ELSE IF ~joinMatches(view) THEN draft("fail", refs)
        ELSE IF view.observation = Absent THEN draft("indeterminate", refs \cup fileRef(ev, "provider_journal"))
        ELSE draft(IF /\ causedBy(view.observation, view.signal)
                      /\ view.observation.r.signal_event_id = view.signal.r.event_id
                   THEN "pass" ELSE "fail", refs)

\* BR-RUA-014: the response was released only after the observed timeout, never by the safety timer.
evaluateControlledRelease(ev, view) ==
    LET refs == refOf(view.release) \cup refOf(view.observation) \cup refsOf(view.safety_releases)
        provider == fileRef(ev, "provider_journal")
    IN  IF view.safety_releases # <<>> THEN draft("indeterminate", refs)
        ELSE IF view.release = Absent THEN draft("indeterminate", refs \cup provider)
        ELSE IF view.observation = Absent
        THEN IF complete(ev, "provider_journal") THEN draft("fail", refs \cup provider) ELSE draft("indeterminate", refs)
        ELSE IF ~causedBy(view.release, view.observation) THEN draft("fail", refs)
        ELSE IF view.release.r.source_instance_id # view.observation.r.source_instance_id
        THEN draft("indeterminate", refs)
        ELSE draft(IF view.release.r.source_sequence > view.observation.r.source_sequence THEN "pass" ELSE "fail", refs)

\* BR-RUA-015: the caller of the targeted attempt never learned of its success.
evaluateNoCallerSuccess(ev, view) ==
    LET carrying == SelectSeq(view.attempt_events, LAMBDA e :
                        /\ view.commit # Absent
                        /\ Own(e.r, "provider_transaction_id") = view.commit.r.provider_transaction_id)
        refs == refOf(view.outcome) \cup refsOf(carrying) \cup refsOf(view.late_settlements)
    IN  IF outcomeOf(view) = "SUCCEEDED" \/ carrying # <<>> THEN draft("fail", refs)
        ELSE IF outcomeOf(view) = "TIMED_OUT" THEN draft("pass", refs)
        ELSE draft("indeterminate", refs \cup fileRef(ev, "caller_journal"))

evaluateTreatmentConditions(ev, view) ==
    LET drafts == << evaluateCommitBeforeTimer(ev, view), evaluateApplicationTimeout(ev, view),
                     evaluateContinuedExecution(ev, view), evaluateCausalJoin(ev, view),
                     evaluateControlledRelease(ev, view), evaluateNoCallerSuccess(ev, view) >>
    IN  [i \in 1..6 |-> finishCondition(ev, drafts[i])]

\* The commit's three identities, wherever they were recorded, and the first call the provider accepted.
TRIPLE_FIELDS == {"provider_commit_id", "provider_transaction_id", "provider_call_id"}
tripleMismatch(ev, view) ==
    LET differs(source) == \E f \in TRIPLE_FIELDS \cap DOMAIN source : source[f] # view.commit.r[f]
        transaction == First(SelectSeq(ev.ledger.transactions, LAMBDA t :
                                t.provider_transaction_id = view.commit.r.provider_transaction_id))
    IN  \/ view.confirmation # Absent /\ differs(view.confirmation.r)
        \/ transaction # Absent /\ differs(transaction)
        \/ view.snapshot # Absent /\ view.snapshot.treatment # Absent /\ differs(view.snapshot.treatment)
ledgerLacksCommit(ev, view) ==
    /\ ev.ledger.snapshot # Absent
    /\ \A t \in Range(ev.ledger.transactions) : t.provider_transaction_id # view.commit.r.provider_transaction_id
earliest(calls) == First(SortedBy(calls, LAMBDA e : e.r.occurred_at))
deriveTreatmentFidelity(ev, view, conditions) ==
    LET commit == view.commit
        first == earliest(view.accepted_calls)
    IN  assembleGate(
            \/ \E i \in 1..6 : conditions[i].result = "fail"
            \/ view.conflicts # <<>>
            \/ view.configuration # Absent /\ view.configuration.scenario # "COMMIT_THEN_TIMEOUT"
            \/ commit # Absent /\ tripleMismatch(ev, view)
            \/ commit # Absent /\ first # Absent /\ first.r.provider_call_id # commit.r.provider_call_id,
            \/ \E i \in 1..6 : conditions[i].result = "indeterminate"
            \/ Absent \in {view.configuration, view.snapshot, commit, first}
            \/ commit # Absent /\ ledgerLacksCommit(ev, view)
            \/ view.safety_releases # <<>>
            \/ /\ view.snapshot # Absent
               /\ view.snapshot.treatment # Absent
               /\ view.snapshot.treatment.state = "SAFETY_RELEASED")

\* Gate G4a: nothing of the treatment happened in a CONTROL trial, and every accepted call ended.
TREATMENT_EVENT_TYPES == {"treatment_armed", "timeout_signal_recorded", "timeout_signal_conflict_recorded",
    "treatment_timeout_observed", "treatment_response_released", "treatment_safety_released"}
treatmentActivity(e) ==
    \/ e.r.record_type = "provider_transaction_committed" /\ e.r.targeted
    \/ e.r.record_type \in TREATMENT_EVENT_TYPES
uncontrolledTimeout(e) ==
    \/ e.r.record_type = "caller_timeout_recorded" /\ isCallerEvent(e)
    \/ e.r.record_type = "attempt_outcome_recorded" /\ e.r.outcome = "TIMED_OUT"
inconclusiveCall(events, call) ==
    LET outcome == First(SelectSeq(eventsOfType(events, "attempt_outcome_recorded"), LAMBDA e :
                            e.r.attempt_id = call.r.attempt_id))
    IN  IF outcome = Absent THEN TRUE ELSE outcome.r.outcome \notin {"SUCCEEDED", "REJECTED", "TIMED_OUT"}
deriveControlIntegrity(ev) ==
    LET events == Range(partitionEvents(ev))
        configuration == soleRecord(ev.artifacts, "provider_trial_configuration")
        snapshot == soleRecord(ev.artifacts, "treatment_state_snapshot")
    IN  IF ~viewRefused(ev) THEN "not_applicable"
        ELSE assembleGate(
            \/ configuration # Absent /\ configuration.scenario # "CONTROL"
            \/ snapshot # Absent /\ snapshot.treatment # Absent
            \/ \E e \in events : treatmentActivity(e) \/ uncontrolledTimeout(e),
            \/ ev.scope.trial = Absent
            \/ Absent \in {configuration, snapshot}
            \/ snapshot # Absent /\ ~snapshot.consistent_read
            \/ ~complete(ev, "caller_journal") \/ ~complete(ev, "provider_journal")
            \/ \E e \in events : /\ e.r.record_type = "provider_call_accepted"
                                 /\ inconclusiveCall(partitionEvents(ev), e))
=============================================================================
