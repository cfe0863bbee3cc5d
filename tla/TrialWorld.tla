----------------------------- MODULE TrialWorld -----------------------------
(***************************************************************************)
(* What the writers of one trial leave in its package when nothing is      *)
(* lost: the environment of the evaluation.  A world says what really      *)
(* happened: the scenario, the fate of each attempt of the conventional    *)
(* caller, the refund each attempt asked for, whether the caller recorded  *)
(* its knowledge honestly, and what the provider's barrier did.  The world *)
(* of a probe says the same of the invocations of the probe caller.        *)
(***************************************************************************)
EXTENDS TransportProbe

\* Fates: ok, rejected, undispatched, timed_out, failed (the answer was lost), crashed (no outcome), and late (the
\* answer was lost and the provider commits only after the trial is frozen).
Committed(fate) == fate \in {"ok", "timed_out", "failed", "crashed"}
Answer(fate) == CASE fate = "ok" -> "SUCCEEDED" [] fate = "rejected" -> "REJECTED" [] fate = "timed_out" -> "TIMED_OUT"
                  [] OTHER -> "FAILED"
Class(fate) == IF fate = "crashed" THEN "AMBIGUOUS"
               ELSE classifyOutcome(Answer(fate), IF fate = "undispatched" THEN "NOT_DISPATCHED" ELSE "DISPATCHED")
Id(kind, k) == <<kind, k>>
Digest(path) == <<path>>
Trial(id) == [trial_id |-> id, trial_manifest_sha256 |-> Digest("trial_manifest")]
Execution == [run_id |-> "run"]
InExecution == Execution @@ [execution_manifest_sha256 |-> Digest("execution_manifest"), ok |-> TRUE]
Correlated == InExecution @@ Trial("T1")
Event(type, k, at, causes, more) ==
    more @@ Correlated @@ [record_type |-> type, event_id |-> Id(type, k), occurred_at |-> at,
                           causation_event_ids |-> causes]
Numbered(source, instance, events) ==
    [i \in DOMAIN events |-> events[i] @@ [source |-> source, source_instance_id |-> instance, source_sequence |-> i]]

Start(k) == 10 * k
CallerIds(k) == [attempt_id |-> Id("attempt", k), provider_request_id |-> Id("request", k)]
CommitIds(k) == [provider_transaction_id |-> Id("txn", k), provider_commit_id |-> Id("commit", k)]
CallId(k) == [provider_call_id |-> Id("call", k)]
Targeted(w, k) == w.hold # "none" /\ Committed(w.fates[k]) /\ \A j \in 1..(k - 1) : ~Committed(w.fates[j])

\* Request states: one after each attempt that was not cut short, naming every attempt so far.
Recorded(w) == SelectSeq([k \in DOMAIN w.fates |-> k], LAMBDA k : w.fates[k] # "crashed")
Knowledge(w, k) ==
    LET honest == foldEffectKnowledge(INITIAL_EFFECT_KNOWLEDGE, [j \in 1..k |-> Class(w.fates[j])])
    IN  IF w.honest THEN honest ELSE "ONE_EFFECT_CONFIRMED"
Terminal(w, k) == IF w.fates[k] = "ok" THEN "SUCCEEDED" ELSE IF w.fates[k] = "rejected" THEN "PROVIDER_REJECTED"
                  ELSE IF k = MAX_RECEIVE_COUNT THEN "RETRIES_EXHAUSTED" ELSE Absent
RequestState(w, k) ==
    Event("request_state_recorded", k, Start(k) + 6, {Id("attempt_registered", k)},
          [version |-> CHOOSE n \in DOMAIN Recorded(w) : Recorded(w)[n] = k,
           attempt_ids |-> [j \in 1..k |-> Id("attempt", j)], effect_knowledge |-> Knowledge(w, k),
           processing_state |-> IF Terminal(w, k) = Absent THEN "RUNNING" ELSE "FINISHED",
           processing_terminal_reason |-> Terminal(w, k)])
CallerEvents(w, k) ==
    LET fate == w.fates[k]
        of(type, after, causes, more) == Event(type, k, Start(k) + after, causes, more @@ CallerIds(k))
        outcome == of("attempt_outcome_recorded", 5, {Id("attempt_registered", k)},
                      [outcome |-> Answer(fate)] @@ (IF fate = "ok" THEN CommitIds(k) @@ CallId(k) ELSE Execution))
        timeout == of("caller_timeout_recorded", 4, {Id("dispatch_started", k)},
                      [timer_fired_at |-> Start(k) + 4, elapsed |-> APPLICATION_DEADLINE_NS, arbiter_winner |-> "TIMER",
                       transport_settled_at_claim |-> FALSE, abort_requested_at |-> Start(k) + 4,
                       recorded_at |-> Start(k) + 4, monotonic_origin_event_id |-> Id("dispatch_started", k)])
    IN  Numbered("conventional_caller", Id("caller", k),
            << Event("caller_invocation_started", k, Start(k), {}, [receive_count |-> k]),
               of("attempt_registered", 1, {Id("caller_invocation_started", k)}, [refund_request_id |-> w.refunds[k]]),
               of(IF fate = "undispatched" THEN "attempt_not_dispatched" ELSE "dispatch_started", 1,
                  {Id("attempt_registered", k)}, Execution) >>
            \o (IF fate = "timed_out" THEN << timeout >> ELSE <<>>)
            \o (IF fate = "crashed" THEN <<>> ELSE << outcome, RequestState(w, k) >>))
\* The provider commits before the caller's timer fires, except in a world whose commit comes too late.
CommittedAt(w, k) == Start(k) + IF w.hold = "late_commit" /\ Targeted(w, k) THEN 6 ELSE 2
Scoped(k) == CommitIds(k) @@ CallerIds(k)
Barrier(w, k) ==
    LET at(type, causes, more) == Event(type, k, Start(k) + 6, causes, more @@ Scoped(k))
    IN  IF ~Targeted(w, k) THEN <<>>
        ELSE << Event("treatment_armed", k, Start(k) + 2, {Id("provider_transaction_committed", k)}, Scoped(k)) >>
             \o (IF w.hold = "safety" THEN << at("treatment_safety_released", {}, Execution) >>
                 ELSE << at("treatment_timeout_observed", {Id("timeout_signal_recorded", k)},
                            [signal_event_id |-> Id("timeout_signal_recorded", k)]),
                         at("treatment_response_released", {Id("treatment_timeout_observed", k)}, Execution) >>)
CallEvents(w, k) ==
    LET of(type, after, causes, more) ==
            Event(type, k, Start(k) + after, causes, more @@ CallerIds(k) @@ CallId(k))
    IN  << Event("provider_call_received", k, Start(k) + 1, {}, CallId(k)) >>
        \o (IF w.fates[k] = "rejected"
            THEN << of("provider_call_rejected", 1, {Id("provider_call_received", k)}, [reason |-> "declined"]) >>
            ELSE << of("provider_call_accepted", 1, {Id("provider_call_received", k)}, Execution),
                    of("provider_transaction_committed", 2, {Id("provider_call_accepted", k)},
                       [targeted |-> Targeted(w, k)] @@ CommitIds(k)),
                    of("provider_commit_confirmed", 2, {Id("provider_transaction_committed", k)},
                       [committed_at |-> CommittedAt(w, k)] @@ CommitIds(k)) >>)
        \o Barrier(w, k)
ProviderEvents(w) ==
    Numbered("provider", "provider",
             FlatMap(SelectSeq([k \in DOMAIN w.fates |-> k], LAMBDA k : w.fates[k] \notin {"undispatched", "late"}),
                     LAMBDA k : CallEvents(w, k)))
ControllerEvents(w) ==
    Numbered("controller", "controller",
             FlatMap(SelectSeq([k \in DOMAIN w.fates |-> k], LAMBDA k : Targeted(w, k) /\ w.hold # "safety"), LAMBDA k :
                 << Event("timeout_signal_recorded", k, Start(k) + 5,
                          {Id("provider_transaction_committed", k), Id("caller_timeout_recorded", k)},
                          [caller_timeout_event_id |-> Id("caller_timeout_recorded", k),
                           provider_commit_event_id |-> Id("provider_transaction_committed", k)] @@ Scoped(k)) >>))
\* The runner publishes, samples until settlement is established, and records the assessment.
Settled == Start(4)
RunnerEvents ==
    Numbered("runner", "runner",
        << Event("trial_message_published", 1, 0, {}, [message_id |-> "m", message_body_sha256 |-> Digest("published_message")]),
           Event("settlement_assessed", 1, Settled + Stabilization + 2, {},
                 [status |-> "established", window_start |-> Settled, established_at |-> Settled + Stabilization,
                  rechecked_at |-> Settled + Stabilization + 2]) >>)
NextTrialEvent(n) ==
    [trial_id |-> "T2"] @@ [Event("trial_message_published", 2, Settled + Stabilization + 3, {}, [message_id |-> "m2"])
                            EXCEPT !.trial_id = "T2"]
    @@ [source |-> "runner", source_instance_id |-> "runner", source_sequence |-> n]

Transaction(w, k) ==
    CallerIds(k) @@ CommitIds(k) @@ CallId(k)
    @@ [refund_request_id |-> w.refunds[k], payment_id |-> "P", amount_minor |-> 1, currency |-> "EUR",
        status |-> "SUCCEEDED"]
LedgerSnapshot(w, fates) ==
    LET held == SelectSeq([k \in DOMAIN w.fates |-> k], LAMBDA k : w.fates[k] \in fates)
    IN  Correlated @@ [record_type |-> "ledger_snapshot", consistent_read |-> TRUE, writer |-> "evidence_collector",
            captured_at |-> Settled + Stabilization + 1, complete |-> TRUE,
            pages |-> << [page_number |-> 1, item_count |-> Len(held), start_cursor |-> Absent, next_cursor |-> Absent] >>,
            transactions |-> [n \in DOMAIN held |-> Transaction(w, held[n])]]
DeadLettered(w) == Terminal(w, Len(w.fates)) \notin {"SUCCEEDED", "PROVIDER_REJECTED"}
Sample(w, at, phase) ==
    Correlated @@ [record_type |-> "settlement_sample", at |-> at, phase |-> phase, quiet |-> TRUE, dlq |-> DeadLettered(w),
                   watermark |-> 0, ledger |-> 0,
                   correlated_dlq_message_ids |-> IF DeadLettered(w) THEN {"m"} ELSE {}]
TreatmentItem(w) ==
    LET k == CHOOSE k \in DOMAIN w.fates : Targeted(w, k)
    IN  IF \A j \in DOMAIN w.fates : ~Targeted(w, j) THEN Absent
        ELSE Scoped(k) @@ CallId(k)
             @@ [targeted_attempt_id |-> Id("attempt", k),
                 state |-> IF w.hold = "safety" THEN "SAFETY_RELEASED" ELSE "RELEASED"]

File(path, values) == [path |-> path, values |-> values, torn |-> FALSE, sha256 |-> Digest(path)]
Document(path, more) == File(path, << more @@ [record_type |-> path] @@ Correlated >>)
Input(path, more) == File(path, << more @@ [record_type |-> path, ok |-> TRUE] >>)
PackageFiles(w) ==
    << File("execution_manifest", << Execution @@ [record_type |-> "execution_manifest", execution_kind |-> "RUN", ok |-> TRUE] >>),
       File("resource_manifest", << InExecution @@ [record_type |-> "resource_manifest"] >>),
       File("runner_journal", RunnerEvents),
       File("trial_manifest", << InExecution @@ [record_type |-> "trial_manifest", trial_id |-> "T1", scenario |-> w.scenario,
            resource_manifest_sha256 |-> Digest("resource_manifest"), payment_sha256 |-> Digest("payment"),
            approved_decision_sha256 |-> Digest("approved_decision")] >>),
       Input("payment", [payment_id |-> "P", captured_amount_minor |-> 1]),
       Input("approved_decision", [refund_request_id |-> "R", approved_amount_minor |-> 1, currency |-> "EUR"]),
       File("caller_journal", FlatMap([k \in DOMAIN w.fates |-> k], LAMBDA k : CallerEvents(w, k))),
       File("provider_journal", ProviderEvents(w)),
       File("controller_journal", ControllerEvents(w)),
       Document("provider_trial_configuration", [scenario |-> w.scenario]),
       Document("treatment_state_snapshot", [consistent_read |-> TRUE, treatment |-> TreatmentItem(w)]),
       File("ledger_snapshot", << LedgerSnapshot(w, {"ok", "timed_out", "failed", "crashed"}) >>),
       File("settlement_samples", << Sample(w, Settled, "observation"), Sample(w, Settled + Stabilization, "observation"),
                                     Sample(w, Settled + Stabilization + 2, "pre_freeze_recheck") >>) >>
    \o << File("published_message", << Correlated @@ [record_type |-> "trial_message"] >>),
          File("source_observations", << Correlated @@ [record_type |-> "queue_observation"] >>),
          File("dlq_observations", << Correlated @@ [record_type |-> "queue_observation"] >>) >>
    \o (IF DeadLettered(w)
        THEN << Document("dlq_snapshot", [messages |-> << [message_id |-> "m", body_sha256 |-> Digest("published_message")] >>]) >>
        ELSE <<>>)
\* An earlier trial of the execution, which registered an attempt of its own.
EarlierTrialFiles(w) ==
    << File("T0/caller_journal", Numbered("conventional_caller", Id("caller", 0),
        << [Event("attempt_registered", 0, 0, {}, CallerIds(IF w.reused THEN 1 ELSE 0) @@ [refund_request_id |-> "Q"])
            EXCEPT !.trial_id = "T0"] >>)) >>
\* After the freeze the provider commits the calls that were still on their way.
JournalSource == [runner_journal |-> "RUNNER_JOURNAL", caller_journal |-> "CALLER_JOURNAL",
                  provider_journal |-> "PROVIDER_JOURNAL", controller_journal |-> "CONTROLLER_JOURNAL"]
LateRecord(source, value) ==
    Correlated @@ [readable |-> TRUE, correlated |-> TRUE, late_source |-> source,
                   late_record_type |-> value.record_type, late_record |-> value]
LateRecords(w) ==
    LET late == SelectSeq([k \in DOMAIN w.fates |-> k], LAMBDA k : w.fates[k] = "late")
        events == Numbered("provider", "provider2", FlatMap(late, LAMBDA k : CallEvents(w, k)))
    IN  IF late = <<>> THEN <<>>
        ELSE [i \in DOMAIN events |-> LateRecord("PROVIDER_JOURNAL", events[i])]
             \o << LateRecord("LEDGER", LedgerSnapshot(w, {"ok", "timed_out", "failed", "crashed", "late"})) >>

\* A probe leaves the records of its caller, provider, controller and runner without a trial, without request states
\* and without queues.  The runner recorded the request of the first invocation; a second one is the platform's retry.
TrialOnlyFiles == {"trial_manifest", "published_message", "source_observations", "dlq_observations", "dlq_snapshot"}
AsProbe(value) ==
    LET type == value.record_type
        own == IF type = "execution_manifest" THEN [execution_kind |-> "TRANSPORT_PROBE"]
               ELSE IF type = "trial_message_published"
               THEN [record_type |-> "probe_workload_invoked", lambda_request_id |-> Id("caller", 1)]
               ELSE IF type = "settlement_sample" THEN [dlq |-> FALSE, correlated_dlq_message_ids |-> {}]
               ELSE IF Own(value, "source") = "conventional_caller"
               THEN [source |-> "probe_caller", lambda_request_id |-> value.source_instance_id] ELSE [ok |-> value.ok]
        kept == [m \in DOMAIN value \ {"run_id", "trial_id", "trial_manifest_sha256"} |-> value[m]]
    IN  IF "run_id" \in DOMAIN value THEN own @@ [transport_probe_id |-> "probe"] @@ kept ELSE own @@ kept
AsProbeFile(file) ==
    LET values == SelectSeq(file.values, LAMBDA v : v.record_type # "request_state_recorded")
    IN  [file EXCEPT !.values = [i \in DOMAIN values |-> AsProbe(values[i])]]
UnitFiles(w) ==
    LET kept == SelectSeq(PackageFiles(w), LAMBDA f : f.path \notin TrialOnlyFiles)
    IN  IF w.probe THEN [i \in DOMAIN kept |-> AsProbeFile(kept[i])] ELSE PackageFiles(w)
\* A late line of a probe, and the record it carries, name the probe and no trial.
AsProbeLine(line) ==
    [m \in DOMAIN line \ {"run_id", "trial_id", "trial_manifest_sha256", "late_record"} |-> line[m]]
    @@ [transport_probe_id |-> "probe",
        late_record |-> IF "run_id" \in DOMAIN line.late_record THEN AsProbe(line.late_record) ELSE line.late_record]
UnitLateRecords(w) ==
    LET lines == LateRecords(w) IN IF w.probe THEN [i \in DOMAIN lines |-> AsProbeLine(lines[i])] ELSE lines
ProbeFrozenEvent(n) ==
    AsProbe(Event("trial_evidence_frozen", 1, Settled + Stabilization + 3, {}, [source |-> "runner",
                  source_instance_id |-> "runner", source_sequence |-> n]))
=============================================================================
