-------------------------- MODULE TrialEvaluation --------------------------
(***************************************************************************)
(* One trial or probe from its evidence to its last reassessment: the      *)
(* package is collected, possibly damaged on the way; the unit is          *)
(* evaluated when it is frozen (trial-execution/trial-freeze.ts, trial-    *)
(* execution/probe-workload-executor.ts); the runner goes on writing its   *)
(* journal, which the later trials share; late records reach the stream;   *)
(* the package is reassessed (execution-lifecycle/package-late-            *)
(* evidence.ts).                                                           *)
(***************************************************************************)
EXTENDS TrialWorld

CONSTANTS Worlds,      \* what may really have happened
          MaxFaults    \* how much of the evidence is damaged before the freeze

VARIABLES world, files, damage, lost, phase, result, stream, assessment
vars == <<world, files, damage, lost, phase, result, stream, assessment>>

\* The artifacts a trial's or a probe's package must, may or conditionally holds.
expectedArtifactsFor(probe) ==
    [c \in {"execution_manifest", "resource_manifest", "runner_journal", "payment", "approved_decision",
            "provider_trial_configuration", "treatment_state_snapshot", "caller_journal", "provider_journal",
            "controller_journal", "ledger_snapshot", "settlement_samples", "trial_manifest", "published_message",
            "source_observations", "dlq_observations", "dlq_snapshot", "telemetry_availability"}
           \ (IF probe THEN TrialOnlyFiles ELSE {}) |->
        CASE c = "dlq_snapshot" -> "conditional" [] c = "telemetry_availability" -> "optional" [] OTHER -> "required"]

\* Freezing evaluates the trial over its own files, in the scope of the trials before it.
evaluationInput(w, package) ==
    [artifacts |-> package, scope_artifacts |-> IF w.probe THEN <<>> ELSE EarlierTrialFiles(w),
     expected |-> expectedArtifactsFor(w.probe),
     indexed_digests |-> Absent]
oracleResult(ev) ==
    IF evaluationRefused(ev) THEN Absent
    ELSE evaluateTrial(ev) @@ Correlated @@ [trial_id |-> ev.scope.trial.trial_id,
             trial_manifest_sha256 |-> ev.scope.trial.sha256, path |-> "T1"]
writeEvaluation(w, package) == oracleResult(ingestEvidence(evaluationInput(w, package)))

\* A probe's transport result is derived where a trial is evaluated; a result that is refused is not written.
deriveTransportResult(w, package) == rederived(evaluationInput(w, package))

\* Reassessing reads the same files again; the runner journal is one the later trials wrote to as well.  The
\* execution is the admitted one; a unit without a frozen result has nothing that is reassessed.
admitted(w) == [kind |-> IF w.probe THEN "TRANSPORT_PROBE" ELSE "RUN", id |-> IF w.probe THEN "probe" ELSE "run",
                sha256 |-> Digest("execution_manifest")]
lateEvidenceInput(w, package, frozen, lines, monitoring) ==
    [execution |-> admitted(w), monitoring |-> monitoring, stream |-> lines,
     trials |-> IF frozen = Absent THEN <<>> ELSE
                << [frozen |-> evaluationInput(w, package),
                    result |-> [m \in {"ok", "run_id", "execution_manifest_sha256", "trial_id", "trial_manifest_sha256",
                                       "path"} |-> frozen[m]] @@ [projection |-> verdictProjection(frozen)]] >>]
assessPackageLateEvidence(w, package, frozen, lines, monitoring) ==
    IF w.probe /\ frozen # Absent /\ frozenProbeUnreadable(package) THEN refusedAssessment("FROZEN_PROBE_INPUT_UNREADABLE")
    ELSE IF w.probe
    THEN assessProbeLateEvidence(admitted(w), evaluationInput(w, frozenProbeArtifacts(package)), frozen, lines, monitoring)
    ELSE assessLateEvidence(lateEvidenceInput(w, package, frozen, lines, monitoring))

Init == /\ world \in Worlds
        /\ files = UnitFiles(world)
        /\ damage = 0 /\ lost = <<>> /\ phase = "collecting"
        /\ result = Absent /\ stream = [lines |-> <<>>, torn |-> FALSE] /\ assessment = Absent

-----------------------------------------------------------------------------
\* Damage to the evidence before the trial is frozen; a lost journal line may come back as a late record.
Damaging == phase = "collecting" /\ damage < MaxFaults /\ damage' = damage + 1
Unread == UNCHANGED <<world, phase, result, stream, assessment>>
Rewrite(i, values) == files' = [files EXCEPT ![i].values = values]
LoseFile(i) == Damaging /\ files' = RemoveAt(files, i) /\ UNCHANGED lost /\ Unread
LoseLine(i, n) ==
    /\ Damaging /\ Rewrite(i, RemoveAt(files[i].values, n)) /\ Unread
    /\ lost' = IF files[i].path \in DOMAIN JournalSource
               THEN Append(lost, LET line == LateRecord(JournalSource[files[i].path], files[i].values[n])
                                 IN  IF world.probe THEN AsProbeLine(line) ELSE line) ELSE lost
TearLine(i) ==
    /\ Damaging /\ Len(files[i].values) > 1 /\ UNCHANGED lost /\ Unread
    /\ files' = [files EXCEPT ![i].values = Front(@), ![i].torn = TRUE]
RepeatLine(i, n, same) ==
    /\ Damaging /\ files[i].path \in DOMAIN JournalSource /\ UNCHANGED lost /\ Unread
    /\ Rewrite(i, Append(files[i].values, IF same THEN files[i].values[n] ELSE [altered |-> TRUE] @@ files[i].values[n]))
SpoilLine(i, n) == Damaging /\ Rewrite(i, [files[i].values EXCEPT ![n].ok = FALSE]) /\ UNCHANGED lost /\ Unread
StripLine(i, n, members) ==
    /\ Damaging /\ members \subseteq DOMAIN files[i].values[n] /\ UNCHANGED lost /\ Unread
    /\ Rewrite(i, [files[i].values EXCEPT ![n] = [m \in DOMAIN @ \ members |-> @[m]]])
\* Another amount under another digest.
AlterInput(i) ==
    /\ Damaging /\ files[i].path = "approved_decision" /\ UNCHANGED lost /\ Unread
    /\ files' = [files EXCEPT ![i].values[1].approved_amount_minor = @ + 1, ![i].sha256 = Append(@, "altered")]
\* The ledger read stopped early, or was not a consistent one.
MisreadLedger(i, member) ==
    /\ Damaging /\ files[i].path = "ledger_snapshot" /\ files[i].values # <<>> /\ UNCHANGED lost /\ Unread
    /\ files' = [files EXCEPT ![i].values[1] = [@ EXCEPT ![member] = FALSE, !.transactions = <<>>, !.pages[1].item_count = 0]]
Damage ==
    \E i \in DOMAIN files :
        \/ LoseFile(i) \/ TearLine(i) \/ AlterInput(i)
        \/ \E member \in {"complete", "consistent_read"} : MisreadLedger(i, member)
        \/ \E n \in DOMAIN files[i].values :
            \/ LoseLine(i, n) \/ SpoilLine(i, n)
            \/ \E same \in BOOLEAN : RepeatLine(i, n, same)
            \/ \E members \in {{"trial_id", "trial_manifest_sha256"}, {"execution_manifest_sha256"}} : StripLine(i, n, members)

FreezeTrial ==
    /\ phase = "collecting"
    /\ \E r \in {IF world.probe THEN deriveTransportResult(world, files) ELSE writeEvaluation(world, files)} :
        result' = r
    /\ phase' = "frozen"
    /\ UNCHANGED <<world, files, damage, lost, stream, assessment>>
\* The runner goes on writing its journal: the next trial's publication, or the freeze of the probe.
RunnerGoesOn ==
    /\ phase = "frozen" /\ UNCHANGED <<world, damage, lost, result, stream, assessment>>
    /\ phase' = "later"
    /\ files' = [i \in DOMAIN files |->
                    IF files[i].path = "runner_journal" /\ ~files[i].torn
                    THEN [files[i] EXCEPT !.values = Append(@, IF world.probe THEN ProbeFrozenEvent(3) ELSE NextTrialEvent(3)),
                                           !.sha256 = Append(@, "grown")] ELSE files[i]]
\* The first records that were lost, or that the provider wrote only now, reach the late stream.
Pending == lost \o UnitLateRecords(world)
LateRecordsArrive(n) ==
    /\ phase = "later" /\ stream.lines = <<>> /\ n \in 1..Len(Pending)
    /\ stream' = [stream EXCEPT !.lines = [k \in 1..n |-> [sequence |-> k] @@ Pending[k]]]
    /\ UNCHANGED <<world, files, damage, lost, phase, result, assessment>>
\* The monitoring ran its full length, was cut short, or failed; the stream may have lost its last newline.
Monitoring(outcome, length) == [outcome |-> outcome, started_at |-> 0, ended_at |-> length]
Endings == {[monitoring |-> Monitoring("complete", MINIMUM_MONITORING_MS), torn |-> torn] : torn \in BOOLEAN}
           \cup {[monitoring |-> Monitoring("complete", MINIMUM_MONITORING_MS - 1), torn |-> FALSE],
                 [monitoring |-> Monitoring("failed", MINIMUM_MONITORING_MS), torn |-> FALSE]}
AssessLateEvidence ==
    /\ phase = "later" /\ UNCHANGED <<world, files, damage, lost, result>>
    /\ phase' = "assessed"
    /\ \E end \in Endings :
        /\ stream' = [stream EXCEPT !.torn = end.torn]
        /\ assessment' = assessPackageLateEvidence(world, files, result, stream', end.monitoring)

Next == Damage \/ FreezeTrial \/ RunnerGoesOn \/ (\E n \in {1, Len(Pending)} : LateRecordsArrive(n)) \/ AssessLateEvidence
Spec == Init /\ [][Next]_vars

-----------------------------------------------------------------------------
\* What really happened, against which the oracle is judged.
CommittedIn(w, fates) == {k \in DOMAIN w.fates : w.fates[k] \in fates}
Effects == {"ok", "timed_out", "failed", "crashed"}
Preserved(w, fates) ==
    /\ Cardinality(CommittedIn(w, fates)) = 1
    /\ \A k \in DOMAIN w.fates : w.refunds[k] = "R"
    /\ w.honest \/ \A k \in DOMAIN w.fates : Class(w.fates[k]) # "AMBIGUOUS"
Delivered(w) == w.hold = "delivered" /\ \E k \in DOMAIN w.fates : Targeted(w, k) /\ w.fates[k] = "timed_out"
\* A probe passes when its one invocation delivered the treatment.
TrueVerdict(w, fates) ==
    IF IF w.probe THEN Len(w.fates) = 1 /\ Delivered(w) ELSE Preserved(w, fates) THEN "pass" ELSE "fail"
VerdictIn(r) == IF world.probe THEN r.transport_probe_verdict ELSE r.preservation_verdict
FidelityIn(r) == IF world.probe THEN r.treatment_fidelity ELSE r.gates.treatment_fidelity
\* The trial is of its scenario: the treatment was delivered, or nothing of it was seen and every accepted call ended.
AsDesigned(w) ==
    /\ ~w.reused
    /\ IF w.scenario = "CONTROL" THEN w.hold = "none" /\ CommittedIn(w, Effects \ {"ok"}) = {} ELSE Delivered(w)

\* However the evidence was damaged, a frozen trial or probe is never decided against what happened: a verdict
\* other than indeterminate is the one the provider's real effects and the caller's real records give
\* (evaluateTrial and buildProbeResult, over the gates that keep damaged evidence from deciding).
VerdictIsTrue == result # Absent => VerdictIn(result) \in {"indeterminate", TrueVerdict(world, Effects)}
\* Whole evidence of a trial that ran as its scenario says is decided, and a trial that did not is not valid.
\* Whole evidence of a probe passes exactly when its one invocation delivered the treatment.
CleanEvidenceDecides ==
    result # Absent /\ damage = 0 =>
        IF world.probe THEN result.transport_probe_verdict = "pass" <=> TrueVerdict(world, Effects) = "pass"
        ELSE IF AsDesigned(world) THEN result.preservation_verdict = TrueVerdict(world, Effects) ELSE result.trial_validity # "valid"
\* Fidelity is verified only for a treatment that was delivered: committed, then timed out by the caller's own
\* timer, then released by the observed signal (deriveTreatmentFidelity).
FidelityIsTrue == result # Absent => (FidelityIn(result) = "verified" => Delivered(world))
\* When every late record has arrived, a reassessment that leaves a decided verdict standing leaves a true one.
LateStatusIsTrue ==
    assessment # Absent /\ result # Absent =>
        (assessment.late_evidence_status \in {"none", "consistent"} /\ Len(stream.lines) = Len(Pending)
            => VerdictIn(result) \in {"indeterminate", TrueVerdict(world, Effects \cup {"late"})})
\* A reassessment reproduces the frozen result from the same files, although the runner went on writing its
\* journal in between (reevaluateTrial and reevaluateProbe refuse otherwise, and the package could not be closed).
FrozenIsReproduced == assessment # Absent => assessment.refused # "FROZEN_RESULT_NOT_REPRODUCED"
=============================================================================
