-------------------------- MODULE ExecutionRunner --------------------------
(***************************************************************************)
(* One admitted execution through its phases (ExecutionRunner.run), from   *)
(* the lease to the package index, with what interrupts it: SIGINT, the    *)
(* loss of the lease and the active-time deadline latch the gate at any    *)
(* step, and the runner sees it only where it asks.  A step of the runner  *)
(* ends where the code awaits.                                             *)
(*                                                                         *)
(* Provisioning, a unit's setup and observation, cleanup and the lease's   *)
(* finalization are taken by their outcomes: the modules TrialExecution,   *)
(* Cleanup and CoordinationLease are about how these come to be.           *)
(***************************************************************************)
EXTENDS TerminalReason

CONSTANTS
  Admitted,     \* the executions explored: their kind, their declared trials,
                \* and, as bounds, the journal writers that may stop in them and
                \* the files of the closure that may not be written
  ActiveMax,    \* the active-time limit
  TotalMax,     \* the total target
  Window,       \* the late-monitoring window
  MaxTime       \* bound on the clock

ASSUME RunnerAssumption ==
  /\ \A e \in Admitted :
       /\ e.kind \in Kinds /\ e.units \in Nat \ {0}
       /\ e.kind = "TRANSPORT_PROBE" => e.units = 1
       /\ e.stoppable \subseteq {"runner", "lease", "unit"} /\ e.losable \subseteq {"cleanup", "audit"}
  /\ {ActiveMax, TotalMax, Window, MaxTime} \subseteq Nat \ {0}
  /\ ActiveMax <= TotalMax /\ TotalMax < MaxTime

VARIABLES
  admitted,  \* the execution
  pc,        \* where the runner awaits
  now,       \* time since the first mutation
  gate,      \* the latched interruption
  lease,     \* the session's health
  log,       \* the journal events that can carry a reason, in time order
  stopped,   \* the journals that lost an event
  noted,     \* #interruptionJournaled
  manifest,  \* whether provisioning froze a resource manifest
  units,     \* the reports of the units handed over
  cut,       \* the running unit saw an interruption
  since,     \* when monitoring started
  window,    \* how monitoring ended
  mode,      \* the cleanup mode
  active,    \* the active duration, once frozen
  closure,   \* what cleanup left
  status,    \* the final lease status
  safety,    \* whether the safety assessment is in the package
  summary,   \* the terminal reason of the summary; "none" without one
  finalized, \* whether package-index.json was written
  aborted    \* history: SIGINT interrupted the active work before anything had failed

execution == <<manifest, units, cut, since, window, mode, active>>
ending == <<closure, status, safety, summary, finalized>>
journals == <<log, stopped>>
vars == <<admitted, pc, now, gate, lease, log, stopped, noted, execution, ending, aborted>>

Kind == admitted.kind
Units == admitted.units
Stoppable == admitted.stoppable

Reports == [kind : {"not_started", "frozen", "freeze_failed"}, cut : BOOLEAN, result : BOOLEAN]
Files == {"cleanup", "audit"}
NoClosure == [cleanup |-> "none", audit |-> "none", files |-> {}]

\* The gate. Its questions re-read the clock once the lease is held.
Armed == lease # "none"

interruption ==
  IF gate # "none" THEN gate
  ELSE IF Armed /\ now >= ActiveMax THEN "SAFETY_DEADLINE"
  ELSE "none"

mayStartTrial == Armed /\ interruption = "none"

publicationAllowed == interruption = "none" /\ lease = "confirmed"

\* gate.interrupt: the first interruption stays, and asking latches a
\* deadline that has passed.
interrupt(cause) == gate' = IF interruption = "none" THEN cause ELSE interruption

\* Appends events to one journal; a writer that fails stops for good.
record(journal, events) ==
  \/ /\ journal \notin stopped
     /\ log' = log \o events
     /\ UNCHANGED stopped
  \/ /\ journal \in stopped \/ (journal \in Stoppable /\ events # << >>)
     /\ \E n \in 0 .. Len(events) :
          /\ journal \in stopped => n = 0
          /\ n = Len(events) => events = << >>
          /\ log' = log \o SubSeq(events, 1, n)
     /\ stopped' = stopped \cup {journal}

\* #noteInterruption, then the events of the phase it is asked in.
noteInterruption(events) ==
  /\ gate' = interruption
  /\ noted' = (noted \/ interruption # "none")
  /\ record("runner", (IF interruption # "none" /\ ~ noted THEN << Interrupted(interruption) >> ELSE << >>)
                        \o events)

FailedIf(condition, phase) == IF condition THEN << Failed(phase) >> ELSE << >>

-----------------------------------------------------------------------------
(* P1 to P3. *)

Settled == UNCHANGED <<admitted, now, aborted>>

\* An abort before the first mutation: the execution stops without one.
SkipAcquisition ==
  /\ pc = "acquire"
  /\ gate # "none"
  /\ noteInterruption(<< >>)
  /\ pc' = "summary"
  /\ UNCHANGED <<lease, execution, ending>> /\ Settled

Acquire ==
  /\ pc = "acquire"
  /\ gate = "none"
  /\ pc' = "acquiring"
  /\ UNCHANGED <<gate, lease, journals, noted, execution, ending>> /\ Settled

Acquired ==
  /\ pc = "acquiring"
  /\ pc' = "provision"
  /\ lease' = "confirmed"
  /\ UNCHANGED <<gate, journals, noted, execution, ending>> /\ Settled

\* Refused, or answered ambiguously and not resolved: the session journals
\* it, then the runner.
NotAcquired ==
  /\ pc = "acquiring"
  /\ pc' \in {"refused", "unresolved"}
  /\ record("lease", << Lease("ACQUISITION_FAILED") >>)
  /\ UNCHANGED <<gate, lease, noted, execution, ending>> /\ Settled

\* A put that may have landed is released.
AcquisitionFailed ==
  /\ pc \in {"refused", "unresolved"}
  /\ pc' = IF pc = "refused" THEN "summary" ELSE "finalizing"
  /\ record("runner", << Failed("LEASE_ACQUISITION") >>)
  /\ UNCHANGED <<gate, lease, noted, execution, ending>> /\ Settled

Provision ==
  /\ pc = "provision"
  /\ \/ /\ pc' = "ready"
        /\ manifest' = TRUE
        /\ UNCHANGED <<journals, mode>>
     \/ /\ pc' = "cleanup"
        /\ manifest' \in BOOLEAN
        /\ mode' = "EMERGENCY"
        /\ record("runner", << Failed("PROVISIONING") >>)
  /\ UNCHANGED <<gate, lease, noted, units, cut, since, window, active, ending>> /\ Settled

EnterReadiness ==
  /\ pc = "ready"
  /\ noteInterruption(<< >>)
  /\ IF interruption = "none" THEN pc' = "readiness" /\ UNCHANGED mode
                              ELSE pc' = "cleanup" /\ mode' = "EMERGENCY"
  /\ UNCHANGED <<lease, manifest, units, cut, since, window, active, ending>> /\ Settled

confirmReadiness ==
  /\ pc = "readiness"
  /\ \E ok \in BOOLEAN :
       LET ready == ok /\ interruption = "none"
       IN  /\ noteInterruption(FailedIf(~ ready, "READINESS"))
           /\ IF ready THEN pc' = "workload" /\ UNCHANGED mode
                       ELSE pc' = "cleanup" /\ mode' = "EMERGENCY"
  /\ UNCHANGED <<lease, manifest, units, cut, since, window, active, ending>> /\ Settled
-----------------------------------------------------------------------------
(* P4 and P5: the units, each behind the gate. *)

PlanUnits ==
  /\ pc = "workload"
  /\ \/ /\ pc' = "units"
        /\ UNCHANGED <<journals, mode>>
     \/ /\ pc' = "cleanup"
        /\ mode' = "EMERGENCY"
        /\ record("runner", << Failed("TRIALS") >>)
  /\ UNCHANGED <<gate, lease, noted, manifest, units, cut, since, window, active, ending>> /\ Settled

\* awaitUnitStart: an uncertain lease is waited for, a latched gate ends the
\* wait.
awaitUnitStart == mayStartTrial /\ publicationAllowed

StartUnit ==
  /\ pc = "units"
  /\ Len(units) < Units
  /\ awaitUnitStart
  /\ pc' = "setup"
  /\ UNCHANGED <<gate, lease, journals, noted, execution, ending>> /\ Settled

\* The gate once more, at the end of the setup (T5).
PassGate ==
  /\ pc = "setup"
  /\ publicationAllowed
  /\ pc' = "publish"
  /\ UNCHANGED <<gate, lease, journals, noted, execution, ending>> /\ Settled

Publish ==
  /\ pc = "publish"
  /\ pc' = "observe"
  /\ UNCHANGED <<gate, lease, journals, noted, execution, ending>> /\ Settled

EndUnit(report) ==
  /\ units' = Append(units, report)
  /\ cut' = FALSE
  /\ pc' = "units"
  /\ UNCHANGED <<lease, manifest, since, window, mode, active, ending>> /\ Settled

\* The setup failed, the gate is closed or the send was rejected.
NotStarted ==
  /\ pc \in {"setup", "publish"}
  /\ EndUnit([kind |-> "not_started", cut |-> FALSE, result |-> FALSE])
  /\ gate' = IF pc = "setup" THEN interruption ELSE gate
  /\ UNCHANGED <<journals, noted>>

Settle ==
  /\ pc = "observe"
  /\ pc' = "freeze"
  /\ UNCHANGED <<gate, lease, journals, noted, execution, ending>> /\ Settled

\* The observer asks after each sleep; the unit journals what it sees, with
\* a writer of its own.
CutUnit ==
  /\ pc = "observe"
  /\ interruption # "none"
  /\ gate' = interruption
  /\ cut' = TRUE
  /\ pc' = "freeze"
  /\ \/ log' = Append(log, Interrupted(interruption)) /\ UNCHANGED stopped
     \/ "unit" \in Stoppable /\ stopped' = stopped \cup {"unit"} /\ UNCHANGED log
  /\ UNCHANGED <<lease, noted, manifest, units, since, window, mode, active, ending>> /\ Settled

\* An evaluation that fails leaves a frozen unit without its result.
FreezeUnit ==
  /\ pc = "freeze"
  /\ \E report \in Reports :
       /\ report.cut = cut
       /\ report.kind # "not_started"
       /\ EndUnit(report)
       /\ noted' = (noted \/ (report.kind = "frozen" /\ cut))
  /\ UNCHANGED <<gate, journals>>

Frozen(report) == report.kind = "frozen"

\* The phases the workload ends with. A probe that was not handed over
\* failed P4; P5 fails when the freeze reached its checkpoint and its files
\* are not all there.
WorkloadEvents(reached) ==
  LET stop == interruption # "none"
  IN  IF Kind = "TRANSPORT_PROBE"
      THEN FailedIf(stop \/ units = << >> \/ units[1].kind = "not_started", "TRIALS")
             \o FailedIf(reached /\ ~ (Frozen(units[1]) /\ units[1].result), "PROBE_FREEZE")
      ELSE FailedIf(stop \/ \E i \in DOMAIN units : ~ Frozen(units[i]), "TRIALS")

MayHaveReachedCheckpoint(reached) ==
  IF units = << >> \/ units[1].kind = "not_started" THEN ~ reached
  ELSE Frozen(units[1]) \/ units[1].result => reached

\* Mutant: the workload ends only with its last unit.
EndWorkloadFull ==
  /\ pc = "units"
  /\ Len(units) = Units
  /\ \E reached \in BOOLEAN :
       /\ MayHaveReachedCheckpoint(reached)
       /\ noteInterruption(WorkloadEvents(reached))
  /\ IF interruption = "none" THEN pc' = "monitor" /\ UNCHANGED mode
                              ELSE pc' = "cleanup" /\ mode' = "EMERGENCY"
  /\ UNCHANGED <<lease, manifest, units, cut, since, window, active, ending>> /\ Settled

EndWorkload ==
  /\ pc = "units"
  /\ Len(units) = Units \/ ~ mayStartTrial
  /\ \E reached \in BOOLEAN :
       /\ MayHaveReachedCheckpoint(reached)
       /\ noteInterruption(WorkloadEvents(reached))
  /\ IF interruption = "none" THEN pc' = "monitor" /\ UNCHANGED mode
                              ELSE pc' = "cleanup" /\ mode' = "EMERGENCY"
  /\ UNCHANGED <<lease, manifest, units, cut, since, window, active, ending>> /\ Settled
-----------------------------------------------------------------------------
(* P6 to P9. *)

StartMonitoring ==
  /\ pc = "monitor"
  /\ pc' = "monitoring"
  /\ since' = now
  /\ UNCHANGED <<gate, lease, journals, noted, manifest, units, cut, window, mode, active, ending>> /\ Settled

\* The elapsed time is looked at before the gate is.
observeWindow ==
  /\ pc = "monitoring"
  /\ \/ now - since >= Window /\ window' = "complete" /\ UNCHANGED gate
     \/ /\ now - since < Window
        /\ interruption # "none"
        /\ window' = "shortened"
        /\ gate' = interruption
  /\ pc' = "judge"
  /\ UNCHANGED <<lease, journals, noted, manifest, units, cut, since, mode, active, ending>> /\ Settled

\* Mutant: the outcome is judged without noting the interruption.
JudgeMonitoringUnnoted ==
  /\ pc = "judge"
  /\ mode' = IF window = "complete" /\ interruption = "none" THEN "NORMAL" ELSE "EMERGENCY"
  /\ pc' = "cleanup"
  /\ UNCHANGED <<gate, journals, noted>>
  /\ since' = 0 /\ UNCHANGED <<lease, manifest, units, cut, window, active, ending>> /\ Settled

JudgeMonitoring ==
  /\ pc = "judge"
  /\ noteInterruption(<< >>)
  /\ mode' = IF window = "complete" /\ interruption = "none" THEN "NORMAL" ELSE "EMERGENCY"
  /\ pc' = "cleanup"
  /\ since' = 0 /\ UNCHANGED <<lease, manifest, units, cut, window, active, ending>> /\ Settled

markActiveEnded ==
  /\ pc = "cleanup"
  /\ pc' = "cleaning"
  /\ active' = now
  /\ UNCHANGED <<gate, lease, journals, noted, manifest, units, cut, since, window, mode, ending>> /\ Settled

\* Without a resource manifest there is no plan and no cleanup. (What is not
\* read again, here manifest and noted, is forgotten.)
cleanUp ==
  /\ pc = "cleaning"
  /\ pc' = "finalizing"
  /\ IF manifest
     THEN \E c \in {"succeeded", "failed"}, a \in {"clean", "not_clean"}, lost \in SUBSET admitted.losable :
            /\ closure' = [cleanup |-> c, audit |-> a, files |-> Files \ lost]
            /\ record("runner", FailedIf(~ (c = "succeeded" /\ {"cleanup", "audit"} \cap lost = {}), "CLEANUP"))
     ELSE closure' = NoClosure /\ record("runner", << Failed("CLEANUP") >>)
  /\ manifest' = FALSE /\ noted' = FALSE
  /\ UNCHANGED <<gate, lease, units, cut, since, window, mode, active, status, safety, summary, finalized>> /\ Settled

\* Mutant: a closure is clean whether or not it is frozen.
closureOfUnfrozen(c) == c.cleanup = "succeeded" /\ c.audit = "clean"

\* Clean only when the closure is also frozen: a release must be provable.
closureOf(c) == c.cleanup = "succeeded" /\ c.audit = "clean" /\ {"cleanup", "audit"} \subseteq c.files

\* How the session settles the lease, as it journals it. An unresolved
\* acquisition is finalized as clean; a lost lease may have been released by
\* a recovery of the same package.
Settlements ==
  IF ~ Armed \/ closureOf(closure) THEN {"RELEASED", "RELEASE_FAILED", "STATE_UNVERIFIED"}
  ELSE {"RECOVERY_REQUIRED", "STATE_UNVERIFIED"} \cup (IF lease = "lost" THEN {"RELEASED"} ELSE {})

finalizeLease ==
  /\ pc = "finalizing"
  /\ lease # "losing"
  /\ pc' = "finalized"
  /\ \E event \in Settlements :
       /\ record("lease", << Lease(event) >>)
       /\ status' = finalLeaseStatus(<< Lease(event) >>)
  /\ UNCHANGED <<gate, lease, noted, execution, closure, safety, summary, finalized>> /\ Settled

LeaseFinalized ==
  /\ pc = "finalized"
  /\ pc' = "summary"
  /\ record("runner", FailedIf(status = "unverified", "LEASE_FINALIZATION"))
  /\ UNCHANGED <<gate, lease, noted, execution, ending>> /\ Settled

\* P9: the checks are journaled and the assessment is written when the lease
\* was held.
assessSafety ==
  /\ pc = "summary"
  /\ pc' = "summarize"
  /\ IF Armed
     THEN /\ record("runner", (IF active > ActiveMax THEN << Breached("ACTIVE_TIME") >> ELSE << >>)
                                \o (IF now > TotalMax THEN << Breached("TOTAL_TIME") >> ELSE << >>))
          /\ safety' \in {"written", "unwritten"}
     ELSE UNCHANGED <<journals, safety>>
  /\ UNCHANGED <<gate, lease, noted, execution, closure, status, summary, finalized>> /\ Settled

\* The closure as the summary reads it from the package.
CleanupFile == IF "cleanup" \in closure.files THEN closure.cleanup ELSE "none"
AuditFile == IF "audit" \in closure.files THEN closure.audit ELSE "inconclusive"

\* Without these no summary is derived; a missing file of the late evidence
\* is one more way in which WriteSummary leaves none.
SummaryInputs ==
  /\ "cleanup" \in closure.files
  /\ Kind = "VARIANT_VALIDATION" => safety = "written"

AllResults == Len(units) = Units /\ \A i \in DOMAIN units : units[i].result

TerminalReasonNow ==
  IF Kind = "VARIANT_VALIDATION"
  THEN deriveValidationTerminalReason(log, CleanupFile, AuditFile)
  ELSE deriveTerminalReason(Kind, log, AllResults, CleanupFile, AuditFile)

\* The summary is derived and written, then its phase is journaled.
WriteSummary ==
  /\ pc = "summarize"
  /\ pc' = "index"
  /\ \/ SummaryInputs /\ summary' = TerminalReasonNow
     \/ UNCHANGED summary
  /\ record("runner", FailedIf(summary' = "none" \/ safety = "unwritten", "SUMMARY"))
  /\ UNCHANGED <<gate, lease, noted, execution, closure, status, safety, finalized>> /\ Settled

finalizePackage ==
  /\ pc = "index"
  /\ pc' = "done"
  /\ finalized' \in BOOLEAN
  /\ UNCHANGED <<gate, lease, journals, noted, execution, closure, status, safety, summary>> /\ Settled
-----------------------------------------------------------------------------
(* What happens to it. *)

\* Where an interruption still ends active work.
ActiveSteps ==
  {"acquire", "acquiring", "provision", "ready", "readiness", "workload", "units", "setup", "publish",
   "observe", "freeze", "monitor", "monitoring", "judge"}

Heartbeats == pc \in (ActiveSteps \cup {"cleanup", "cleaning"})

Sigint ==
  /\ gate = "none"
  /\ pc # "done"
  /\ interrupt("OPERATOR_ABORT")
  /\ aborted' = (log = << >> /\ stopped = {} /\ interruption = "none" /\ pc \in ActiveSteps)
  /\ UNCHANGED <<admitted, pc, now, lease, journals, noted, execution, ending>>

\* Past active work the health of a held lease is not asked for.
Beat ==
  /\ pc \in ActiveSteps
  /\ \/ lease = "confirmed" /\ lease' = "uncertain"
     \/ lease = "uncertain" /\ lease' = "confirmed"
  /\ UNCHANGED <<pc, gate, journals, noted, execution, ending>> /\ Settled

\* The session journals the loss, then its listener tells the gate.
LoseLease ==
  /\ Heartbeats
  /\ lease \in {"confirmed", "uncertain"}
  /\ lease' = "losing"
  /\ record("lease", << Lease("LOST") >>)
  /\ UNCHANGED <<pc, gate, noted, execution, ending>> /\ Settled

ReportLoss ==
  /\ lease = "losing"
  /\ lease' = "lost"
  /\ interrupt("LEASE_LOST")
  /\ UNCHANGED <<pc, journals, noted, execution, ending>> /\ Settled

\* After cleanup the clock is read once more, for the total time: the time
\* that passes until then passes in cleanup.
Tick ==
  /\ Armed
  /\ Heartbeats
  /\ now < MaxTime
  /\ now' = now + 1
  /\ UNCHANGED <<admitted, pc, gate, lease, journals, noted, execution, ending, aborted>>

Init ==
  /\ admitted \in Admitted
  /\ pc = "acquire" /\ now = 0 /\ gate = "none" /\ lease = "none"
  /\ log = << >> /\ stopped = {} /\ noted = FALSE
  /\ manifest = FALSE /\ units = << >> /\ cut = FALSE /\ since = 0 /\ window = "skipped"
  /\ mode = "none" /\ active = 0
  /\ closure = NoClosure /\ status = "none" /\ safety = "none" /\ summary = "none" /\ finalized = FALSE
  /\ aborted = FALSE

RunnerStep ==
  \/ SkipAcquisition \/ Acquire \/ Acquired \/ NotAcquired \/ AcquisitionFailed
  \/ Provision \/ EnterReadiness \/ confirmReadiness
  \/ PlanUnits \/ StartUnit \/ PassGate \/ Publish \/ NotStarted \/ Settle \/ CutUnit \/ FreezeUnit \/ EndWorkload
  \/ StartMonitoring \/ observeWindow \/ JudgeMonitoring
  \/ markActiveEnded \/ cleanUp \/ finalizeLease \/ LeaseFinalized
  \/ assessSafety \/ WriteSummary \/ finalizePackage

Done == pc = "done" /\ UNCHANGED vars

Next == RunnerStep \/ Sigint \/ Beat \/ LoseLease \/ ReportLoss \/ Tick \/ Done

Spec == Init /\ [][Next]_vars

\* The awaited calls return, the clock runs and a loss is reported; nothing
\* is assumed of the heartbeat or of the operator.
Fairness == WF_vars(RunnerStep) /\ WF_vars(Tick) /\ WF_vars(ReportLoss)

FairSpec == Spec /\ Fairness
-----------------------------------------------------------------------------
(* The exit of the command. *)

Held == closure.cleanup # "none" \/ status = "recovery_required"

closureVerdict ==
  IF status = "unverified" THEN "lease_problem"
  ELSE IF (closure.cleanup # "none" /\ ~ (closure.cleanup = "succeeded" /\ closure.audit = "clean"))
            \/ status = "recovery_required"
       THEN "operational_closure_not_clean"
  ELSE "completed"

\* Mutant: the units alone decide.
workloadVerdictOfUnits ==
  IF Len(units) = Units /\ \A i \in DOMAIN units : Frozen(units[i]) /\ ~ units[i].cut
  THEN "completed" ELSE "execution_incomplete"

workloadVerdict ==
  IF gate = "none" /\ Len(units) = Units /\ \A i \in DOMAIN units : Frozen(units[i]) /\ ~ units[i].cut
  THEN "completed" ELSE "execution_incomplete"

executionVerdict ==
  IF ~ finalized THEN "internal_failure"
  ELSE IF ~ Held /\ gate = "none" THEN "lease_problem"
  ELSE IF closureVerdict # "completed" THEN closureVerdict
  ELSE workloadVerdict
-----------------------------------------------------------------------------
(* Properties. *)

LoggedReasons == Causes \cup
  {"none", "COMPLETED", "LEASE_ACQUISITION_FAILED", "PROVISIONING_FAILED", "EVIDENCE_FINALIZATION_FAILED",
   "CLEANUP_INCOMPLETE", "LEAK_AUDIT_NOT_CLEAN", "LEASE_RELEASE_FAILED", "LEASE_STATE_UNVERIFIED",
   "SAFETY_LIMIT_EXCEEDED", Incomplete(Kind)}

\* The state of the runner, gate, journals and package.
TypeOK ==
  /\ admitted \in Admitted
  /\ pc \in ActiveSteps \cup {"refused", "unresolved", "cleanup", "cleaning", "finalizing", "finalized",
                              "summary", "summarize", "index", "done"}
  /\ now \in 0 .. MaxTime /\ since \in 0 .. MaxTime /\ active \in 0 .. MaxTime
  /\ gate \in Causes \cup {"none"}
  /\ lease \in {"none", "confirmed", "uncertain", "losing", "lost"}
  /\ log \in Seq(Events)
  /\ stopped \subseteq {"runner", "lease", "unit"}
  /\ {noted, manifest, cut, finalized, aborted} \subseteq BOOLEAN
  /\ units \in Seq(Reports) /\ Len(units) <= Units
  /\ window \in {"skipped", "complete", "shortened"}
  /\ mode \in {"none", "NORMAL", "EMERGENCY"}
  /\ closure \in [cleanup : {"none", "succeeded", "failed"}, audit : {"none", "clean", "not_clean"},
                  files : SUBSET Files]
  /\ status \in {"none", "released", "recovery_required", "unverified"}
  /\ safety \in {"none", "written", "unwritten"}
  /\ summary \in LoggedReasons

\* A summary that says COMPLETED tells the truth, whatever interrupted the
\* execution and wherever the runner asked: the closure it cites is frozen
\* and clean, and every trial of a run, or the probe, has its result even
\* when a journal stopped before it could record what went wrong; as long as
\* no journal lost an event, every declared unit was frozen whole, monitoring
\* kept its window, cleanup was normal and no abort reached active work.
CompletedIsTrue ==
  summary = "COMPLETED" =>
    /\ CleanupFile = "succeeded" /\ AuditFile = "clean"
    /\ Kind # "VARIANT_VALIDATION" => AllResults
    /\ stopped = {} => /\ Len(units) = Units
                       /\ \A i \in DOMAIN units : Frozen(units[i]) /\ ~ units[i].cut
                       /\ window = "complete" /\ mode = "NORMAL"
                       /\ ~ aborted

\* A lease this execution held and did not lose is released only when the
\* package proves the closure: cleanup succeeded and the audit was clean, and
\* both are in it (closureOf: "a release must be provable").
ReleasedIsProvable ==
  Armed /\ lease # "lost" /\ status = "released" => CleanupFile = "succeeded" /\ AuditFile = "clean"

\* No unit is handed over after one was cut: the interruption that ends the
\* observation of a unit also ends the workload.
CutIsLast == \A i \in 1 .. Len(units) - 1 : ~ units[i].cut

\* The journals agree on what interrupted the execution: units and runner
\* record the same cause, the one the gate latched first, although each asks
\* the gate for itself and other causes keep arriving.
InterruptionsAgree ==
  \A i \in DOMAIN log : log[i][1] = "interrupted" => log[i][2] = gate

\* An abort that reaches an execution in its active phases, before anything
\* failed, ends in emergency cleanup, even one that comes after the
\* monitoring window was complete.
AbortIsEmergency ==
  pc = "done" /\ aborted /\ Armed => mode = "EMERGENCY"

\* The exit code and the summary are derived separately, one from the
\* runner's memory, the other from the journals and files: when the command
\* of a run or a probe exits 0 with every result frozen and no journal event
\* lost, its summary, if there is one, says COMPLETED.
ExitAgreesWithSummary ==
  pc = "done" /\ executionVerdict = "completed" /\ Kind # "VARIANT_VALIDATION" /\ AllResults /\ stopped = {} =>
    summary \in {"none", "COMPLETED"}

\* What execution-gate.ts says of the first interruption: after it "nothing
\* is published".
NothingPublishedAfterInterruption == [][pc = "publish" /\ pc' = "observe" => gate = "none"]_vars

\* What execution-exit.ts says of its order: a lease that was never held
\* because acquisition failed is a lease_problem, which is more severe than
\* an interruption.
SeverestWins ==
  pc = "done" /\ finalized /\ (\E i \in DOMAIN log : log[i] = Failed("LEASE_ACQUISITION")) =>
    executionVerdict = "lease_problem"

\* What run-terminal-reason.ts says of its order: a failed summary phase
\* ends a run that would otherwise be complete with another reason.
SummaryFailureShows ==
  (\E i \in DOMAIN log : log[i] = Failed("SUMMARY")) => summary # "COMPLETED"

\* What run-terminal-reason.ts says of the reason: "the first specific
\* causal condition that prevents clean completion remains primary". An abort
\* that came before anything had failed is that condition.
PrimaryIsFirst ==
  aborted /\ summary # "none" /\ stopped = {} => summary = "OPERATOR_ABORT"

\* What #noteInterruption says of itself: it "records, once, an interruption
\* no unit recorded".
RecordedOnce ==
  \A i, j \in DOMAIN log : log[i][1] = "interrupted" /\ log[j][1] = "interrupted" => i = j

-----------------------------------------------------------------------------
\* The executions of a model: a run of two trials, the other kinds of execution,
\* journals that stop and files of the closure that cannot be written.
Of(kind, n, journal, files) == [kind |-> kind, units |-> n, stoppable |-> journal, losable |-> files]

AllKinds ==
  {Of("RUN", 2, {}, {"cleanup"}), Of("VARIANT_VALIDATION", 1, {"lease"}, {"cleanup"}),
   Of("TRANSPORT_PROBE", 1, {"runner", "unit"}, {"audit"})}
=============================================================================
