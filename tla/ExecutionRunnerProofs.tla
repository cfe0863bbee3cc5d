----------------------- MODULE ExecutionRunnerProofs ------------------------
(***************************************************************************)
(* The runner, for any admitted executions, limits and interruptions: a    *)
(* summary that says COMPLETED tells the truth, a lease is released only   *)
(* behind a provable closure, and the exit code agrees with the summary.   *)
(***************************************************************************)
EXTENDS ExecutionRunner, WellFoundedInduction, TLAPS

In(e, s) == \E i \in DOMAIN s : s[i] = e

\* The events that give a run, and with the last one a probe or a validation,
\* its reason (stoppingReason, causeOf).
Stopping ==
  {Interrupted(c) : c \in Causes}
    \cup {Failed(p) : p \in {"LEASE_ACQUISITION", "PROVISIONING", "READINESS", "TRIALS"}}
    \cup {Lease("ACQUISITION_FAILED"), Lease("LOST")}
Stops(kind) == Stopping \cup (IF kind = "RUN" THEN {} ELSE {Failed("PROBE_FREEZE")})

-----------------------------------------------------------------------------
(* The terminal reason of a journal. *)

\* A set of positions has a first one.
LEMMA FirstPosition ==
  ASSUME NEW T \in SUBSET Nat, T # {}
  PROVE  \E i \in T : \A j \in T : i <= j
<1> DEFINE R == OpToRel(<, Nat)
<1>1. IsWellFoundedOn(R, Nat)
  BY NatLessThanWellFounded, Zenon
<1> HIDE DEF R
<1>2. PICK i \in T : \A j \in T : ~(<<j, i>> \in R)
  BY <1>1, WFMin, Zenon
<1>3. \A j \in T : ~(j < i)
  BY <1>2, Zenon DEF OpToRel, R
<1> QED
  BY <1>3

\* Array.find returns a given reason when there is one (First).
LEMMA FirstGiven ==
  ASSUME NEW n \in Nat, NEW f, DOMAIN f = 1 .. n, NEW otherwise
  PROVE  \/ (\A i \in 1 .. n : f[i] = "none") /\ First(f, otherwise) = otherwise
         \/ \E i \in 1 .. n : f[i] # "none" /\ First(f, otherwise) = f[i]
<1> DEFINE given == {i \in DOMAIN f : f[i] # "none"}
           k == CHOOSE i \in given : \A j \in given : i <= j
<1>1. CASE given = {}
  BY <1>1, Zenon DEF First
<1>2. CASE given # {}
  <2>1. given \in SUBSET Nat
    OBVIOUS
  <2>2. \E i \in given : \A j \in given : i <= j
    BY <1>2, <2>1, FirstPosition, Zenon
  <2>3. k \in given
    BY <2>2, Zenon
  <2>4. First(f, otherwise) = f[k]
    BY <1>2, Zenon DEF First
  <2> QED
    BY <2>3, <2>4, Zenon
<1> QED
  BY <1>1, <1>2, Zenon

\* Only these events stop a lifecycle, and none of them completes it.
LEMMA ReasonOfEvent ==
  ASSUME NEW e \in Events, NEW kind \in Kinds
  PROVE  /\ stoppingReason(kind, e) # "COMPLETED"
         /\ stoppingReason(kind, e) # "none" <=> e \in Stops(kind)
<1> USE DEF stoppingReason, Stops, Stopping, Incomplete, Failed, Interrupted, Lease, Breached, Kinds
<1>1. CASE e \in {"phase"} \X Phases
  BY <1>1 DEF Phases
<1>2. CASE e \in {"interrupted"} \X Causes
  BY <1>2 DEF Causes
<1>3. CASE e \in {"lease"} \X LeaseEvents
  BY <1>3 DEF LeaseEvents
<1>4. CASE e \in {"safety"} \X Boundaries
  BY <1>4 DEF Boundaries
<1> QED
  BY <1>1, <1>2, <1>3, <1>4, Zenon DEF Events

\* For a validation they do so as well, and not as finalization causes.
LEMMA CauseOfEvent ==
  ASSUME NEW e \in Events
  PROVE  /\ causeOf(e) # "COMPLETED"
         /\ e \in Stops("VARIANT_VALIDATION") => causeOf(e) # "none" /\ causeOf(e) \notin FINALIZATION_REASONS
<1>1. /\ stoppingReason("VARIANT_VALIDATION", e) # "COMPLETED"
      /\ stoppingReason("VARIANT_VALIDATION", e) # "none" <=> e \in Stops("VARIANT_VALIDATION")
  BY ReasonOfEvent, Zenon DEF Kinds
<1> USE DEF causeOf, FINALIZATION_REASONS
<1>2. CASE e \in {"phase"} \X Phases
  BY <1>1, <1>2 DEF Phases, Stops, Stopping, Failed, Interrupted, Lease, Breached, stoppingReason, Incomplete
<1>3. CASE e \in {"interrupted"} \X Causes
  BY <1>1, <1>3 DEF Causes, Stops, Stopping, Failed, Interrupted, Lease, Breached, stoppingReason
<1>4. CASE e \in {"lease"} \X LeaseEvents
  BY <1>1, <1>4 DEF LeaseEvents, Stops, Stopping, Failed, Interrupted, Lease, Breached, stoppingReason
<1>5. CASE e \in {"safety"} \X Boundaries
  BY <1>1, <1>5 DEF Boundaries, Stops, Stopping, Failed, Interrupted, Lease, Breached, stoppingReason
<1> QED
  BY <1>2, <1>3, <1>4, <1>5, Zenon DEF Events

\* What a derived reason of a run or a probe says: COMPLETED exactly when nothing
\* stopped it, every result is frozen, the closure is clean and no summary failed
\* (deriveRunTerminalReason, deriveProbeTerminalReason).
LEMMA DerivedReason ==
  ASSUME NEW events \in Seq(Events), NEW kind \in Kinds, NEW frozen \in BOOLEAN, NEW cleanup, NEW audit
  PROVE  deriveTerminalReason(kind, events, frozen, cleanup, audit) = "COMPLETED" <=>
           /\ frozen /\ cleanup = "succeeded" /\ audit = "clean"
           /\ ~In(Failed("SUMMARY"), events)
           /\ \A e \in Stops(kind) : ~In(e, events)
<1> DEFINE stopping == [i \in DOMAIN events |-> stoppingReason(kind, events[i])]
           rest == IF ~frozen THEN Incomplete(kind)
                   ELSE closureCauseOf(cleanup, audit,
                          IF In(Failed("SUMMARY"), events) THEN "EVIDENCE_FINALIZATION_FAILED" ELSE "COMPLETED")
<1>1. deriveTerminalReason(kind, events, frozen, cleanup, audit) = First(stopping, rest)
  BY Zenon DEF deriveTerminalReason, In
<1>2. rest = "COMPLETED" <=> frozen /\ cleanup = "succeeded" /\ audit = "clean" /\ ~In(Failed("SUMMARY"), events)
  BY Zenon DEF closureCauseOf, Incomplete, Kinds
<1>3. Len(events) \in Nat /\ DOMAIN events = 1 .. Len(events) /\ \A i \in 1 .. Len(events) : events[i] \in Events
  OBVIOUS
<1>4. \A i \in 1 .. Len(events) : /\ stopping[i] # "COMPLETED"
                                  /\ stopping[i] # "none" <=> events[i] \in Stops(kind)
  BY <1>3, ReasonOfEvent, Zenon
<1>5. DOMAIN stopping = 1 .. Len(events)
  BY <1>3, Zenon
<1> HIDE DEF stopping, rest
<1>6. \/ (\A i \in 1 .. Len(events) : stopping[i] = "none") /\ First(stopping, rest) = rest
      \/ \E i \in 1 .. Len(events) : stopping[i] # "none" /\ First(stopping, rest) = stopping[i]
  BY <1>3, <1>5, FirstGiven, Zenon
<1>7. (\A i \in 1 .. Len(events) : stopping[i] = "none") <=> \A e \in Stops(kind) : ~In(e, events)
  BY <1>3, <1>4, Zenon DEF In
<1> QED
  BY <1>1, <1>2, <1>4, <1>6, <1>7, Zenon

\* A validation that is COMPLETED was stopped by nothing and has a clean closure
\* (deriveValidationTerminalReason).
LEMMA DerivedValidation ==
  ASSUME NEW events \in Seq(Events), NEW cleanup, NEW audit,
         deriveValidationTerminalReason(events, cleanup, audit) = "COMPLETED"
  PROVE  /\ cleanup = "succeeded" /\ audit = "clean"
         /\ \A e \in Stops("VARIANT_VALIDATION") : ~In(e, events)
<1> DEFINE causes == [i \in DOMAIN events |-> causeOf(events[i])]
           running == [i \in DOMAIN events |-> IF causes[i] \in FINALIZATION_REASONS THEN "none" ELSE causes[i]]
           finalization == [i \in DOMAIN events |-> IF causes[i] \in FINALIZATION_REASONS THEN causes[i] ELSE "none"]
           late == First(finalization, leaseCauseOf(finalLeaseStatus(events)))
           rest == closureCauseOf(cleanup, audit, late)
<1>1. First(running, rest) = "COMPLETED"
  BY Zenon DEF deriveValidationTerminalReason
<1>2. Len(events) \in Nat /\ DOMAIN events = 1 .. Len(events) /\ \A i \in 1 .. Len(events) : events[i] \in Events
  OBVIOUS
<1>3. \A i \in 1 .. Len(events) : /\ running[i] # "COMPLETED"
                                  /\ events[i] \in Stops("VARIANT_VALIDATION") => running[i] # "none"
  BY <1>2, CauseOfEvent, Zenon
<1>4. DOMAIN running = 1 .. Len(events)
  BY <1>2, Zenon
<1> HIDE DEF running, late
<1>5. \/ (\A i \in 1 .. Len(events) : running[i] = "none") /\ First(running, rest) = rest
      \/ \E i \in 1 .. Len(events) : running[i] # "none" /\ First(running, rest) = running[i]
  BY <1>2, <1>4, FirstGiven, Zenon
<1>6. (\A i \in 1 .. Len(events) : running[i] = "none") /\ rest = "COMPLETED"
  BY <1>1, <1>3, <1>5, Zenon
<1>7. cleanup = "succeeded" /\ audit = "clean"
  BY <1>6, Zenon DEF closureCauseOf
<1>8. \A e \in Stops("VARIANT_VALIDATION") : ~In(e, events)
  BY <1>2, <1>3, <1>6, Zenon DEF In
<1> QED
  BY <1>7, <1>8, Zenon

\* The status of the event a session ends with (finalLeaseStatus).
LEMMA FinalStatus ==
  ASSUME NEW event \in {"RELEASED", "RECOVERY_REQUIRED", "RELEASE_FAILED", "STATE_UNVERIFIED"}
  PROVE  finalLeaseStatus(<< Lease(event) >>) =
           IF event = "RELEASED" THEN "released"
           ELSE IF event = "RECOVERY_REQUIRED" THEN "recovery_required" ELSE "unverified"
<1> DEFINE events == << Lease(event) >>
           settling == {i \in DOMAIN events : events[i][1] = "lease" /\ events[i][2] \notin {"ACQUISITION_FAILED", "LOST"}}
           k == CHOOSE i \in settling : \A j \in settling : j <= i
<1>0. DOMAIN events = {1} /\ events[1] = Lease(event)
  OBVIOUS
<1>1. settling = {1}
  BY <1>0 DEF Lease
<1>2. finalLeaseStatus(events) = IF settling = {} THEN "unverified"
                                 ELSE IF events[k] = Lease("RELEASED") THEN "released"
                                 ELSE IF events[k] = Lease("RECOVERY_REQUIRED") THEN "recovery_required"
                                 ELSE "unverified"
  BY Zenon DEF finalLeaseStatus
<1>3. k = 1
  <2> HIDE DEF settling
  <2> QED
    BY <1>1
<1> HIDE DEF settling, k
<1>4. events[k] = Lease(event)
  BY <1>0, <1>3, Zenon
<1> QED
  BY <1>1, <1>2, <1>4 DEF Lease
-----------------------------------------------------------------------------
(* The inductive invariant. *)

Monitored == {"monitor", "monitoring", "judge"}
Ending == {"finalized", "summary", "summarize", "index", "done"}
Closing == {"cleanup", "cleaning", "finalizing"} \cup Ending

Logged(e) == In(e, log)

\* No journal lost an event, and none of their events stops the execution.
Clean == stopped = {} /\ \A e \in Stops(Kind) : ~Logged(e)

\* Every unit was handed over whole; the result of a probe may still be missing.
Handed ==
  /\ Len(units) = Units
  /\ \A i \in DOMAIN units : ~units[i].cut /\ (Kind # "TRANSPORT_PROBE" \/ units[i].result => Frozen(units[i]))

\* What a clean journal proves at each step.
CleanInv ==
  Clean =>
    /\ ~noted /\ ~cut /\ \A i \in DOMAIN units : ~units[i].cut
    /\ pc \notin {"refused", "unresolved"}
    /\ pc \in Monitored \cup Closing => Handed
    /\ pc \in Closing => mode = "NORMAL" /\ window = "complete" /\ ~aborted

\* What is latched where.
GateInv ==
  /\ aborted => gate # "none"
  /\ lease = "lost" => gate # "none"
  /\ pc = "judge" => window = "complete" \/ gate # "none"
  /\ pc \in {"acquire", "acquiring", "refused", "unresolved"} <=> pc \notin Closing /\ ~Armed
  /\ pc \in {"cleanup", "cleaning"} => Armed
  /\ pc \in {"acquire", "acquiring", "provision", "ready", "readiness", "workload"} => units = << >>
  /\ pc \in {"setup", "publish", "observe", "freeze"} => Len(units) < Units

\* What the closure and the final lease status rest on.
ClosureInv ==
  /\ pc \notin Ending \cup {"finalizing"} => closure = NoClosure
  /\ pc \notin Ending => status = "none"
  /\ pc \in Ending => lease # "losing"
  /\ closure.cleanup # "none" => Armed /\ (pc \in Ending => status # "none")
  /\ Armed /\ lease # "lost" /\ status = "released" => closureOf(closure)

\* What the events of the journals stand for, while none of them is lost.
LoggedInv ==
  stopped = {} =>
    /\ \A c \in Causes : Logged(Interrupted(c)) => gate # "none"
    /\ Logged(Lease("LOST")) => lease \in {"losing", "lost"}
    /\ Logged(Lease("ACQUISITION_FAILED")) \/ Logged(Failed("LEASE_ACQUISITION")) =>
         ~Armed /\ pc \in {"refused", "unresolved"} \cup Closing
    /\ Logged(Failed("PROVISIONING")) \/ Logged(Failed("READINESS")) => units = << >> /\ pc \in Closing
    /\ Logged(Failed("TRIALS")) =>
         /\ pc \in Monitored \cup Closing
         /\ units = << >> \/ gate # "none" \/ \E i \in DOMAIN units : ~Frozen(units[i])
    /\ Logged(Failed("PROBE_FREEZE")) =>
         pc \in Monitored \cup Closing /\ \E i \in DOMAIN units : ~(Frozen(units[i]) /\ units[i].result)
    /\ Logged(Failed("SUMMARY")) => pc \in {"index", "done"}

\* What a summary that was written says.
SummaryInv ==
  /\ summary # "none" => pc \in {"index", "done"}
  /\ CompletedIsTrue
  /\ /\ summary # "none" /\ Kind # "VARIANT_VALIDATION" /\ AllResults /\ stopped = {} /\ gate = "none"
     /\ \A i \in DOMAIN units : Frozen(units[i])
     /\ closure.cleanup = "succeeded" /\ closure.audit = "clean" /\ status \notin {"unverified", "recovery_required"}
     => summary = "COMPLETED"

RunnerInv == TypeOK /\ CleanInv /\ GateInv /\ ClosureInv /\ LoggedInv /\ SummaryInv

-----------------------------------------------------------------------------
(* What a step adds to the journals. *)

\* While no journal has lost an event, the step adds exactly the events of E.
Adds(E) == stopped' = {} => stopped = {} /\ \A e : Logged(e)' <=> Logged(e) \/ e \in E

\* The events of a sequence, of none, of one and of two in a row.
LEMMA EventsOf ==
  /\ \A e : ~In(e, << >>)
  /\ \A e, x : In(e, << x >>) <=> e = x
  /\ \A e, s, t : s \in Seq(Events) /\ t \in Seq(Events) => (In(e, s \o t) <=> In(e, s) \/ In(e, t))
<1>1. \A e : ~In(e, << >>)
  BY DEF In
<1>2. ASSUME NEW e, NEW x PROVE In(e, << x >>) <=> e = x
  BY DEF In
<1>3. ASSUME NEW e, NEW s \in Seq(Events), NEW t \in Seq(Events)
      PROVE  In(e, s \o t) <=> In(e, s) \/ In(e, t)
  <2>1. /\ Len(s \o t) = Len(s) + Len(t) /\ DOMAIN (s \o t) = 1 .. Len(s) + Len(t)
        /\ Len(s) \in Nat /\ Len(t) \in Nat /\ DOMAIN s = 1 .. Len(s) /\ DOMAIN t = 1 .. Len(t)
        /\ \A i \in 1 .. Len(s) : (s \o t)[i] = s[i]
        /\ \A i \in 1 .. Len(t) : (s \o t)[i + Len(s)] = t[i]
    OBVIOUS
  <2>2. ASSUME NEW i \in DOMAIN (s \o t), (s \o t)[i] = e PROVE In(e, s) \/ In(e, t)
    <3>1. CASE i <= Len(s)
      BY <2>1, <2>2, <3>1 DEF In
    <3>2. CASE i > Len(s)
      <4>1. i - Len(s) \in 1 .. Len(t) /\ (i - Len(s)) + Len(s) = i
        BY <2>1, <3>2
      <4>2. t[i - Len(s)] = e
        BY <2>1, <2>2, <4>1, Zenon
      <4> QED
        BY <2>1, <4>1, <4>2, Zenon DEF In
    <3> QED
      BY <2>1, <3>1, <3>2
  <2>3. ASSUME In(e, s) PROVE In(e, s \o t)
    BY <2>1, <2>3 DEF In
  <2>4. ASSUME In(e, t) PROVE In(e, s \o t)
    <3>1. PICK i \in 1 .. Len(t) : t[i] = e
      BY <2>1, <2>4, Zenon DEF In
    <3>2. i + Len(s) \in 1 .. Len(s) + Len(t) /\ (s \o t)[i + Len(s)] = e
      BY <2>1, <3>1
    <3> QED
      BY <2>1, <3>2, Zenon DEF In
  <2> QED
    BY <2>2, <2>3, <2>4, Zenon DEF In
<1> QED
  BY <1>1, <1>2, <1>3, Zenon

\* Events of the model are events.
LEMMA EventTypes ==
  /\ \A p \in Phases : Failed(p) \in Events
  /\ \A c \in Causes : Interrupted(c) \in Events
  /\ \A l \in LeaseEvents : Lease(l) \in Events
  /\ \A b \in Boundaries : Breached(b) \in Events
BY Zenon DEF Events, Failed, Interrupted, Lease, Breached

\* A writer that loses nothing appends its events (record).
LEMMA Recorded ==
  ASSUME TypeOK, NEW journal \in {"runner", "lease", "unit"}, NEW events \in Seq(Events), record(journal, events)
  PROVE  /\ log' \in Seq(Events) /\ stopped' \subseteq {"runner", "lease", "unit"}
         /\ Adds({e \in Events : In(e, events)})
<1>1. log \in Seq(Events) /\ stopped \subseteq {"runner", "lease", "unit"}
  BY Zenon DEF TypeOK
<1>2. CASE journal \notin stopped /\ log' = log \o events /\ UNCHANGED stopped
  <2>1. \A e : Logged(e)' <=> Logged(e) \/ In(e, events)
    BY <1>1, <1>2, EventsOf, Zenon DEF Logged
  <2>2. \A e : In(e, events) => e \in Events
    BY DEF In
  <2> QED
    BY <1>1, <1>2, <2>1, <2>2 DEF Adds
<1>3. CASE /\ \E n \in 0 .. Len(events) : log' = log \o SubSeq(events, 1, n)
           /\ stopped' = stopped \cup {journal}
  <2>1. PICK n \in 0 .. Len(events) : log' = log \o SubSeq(events, 1, n)
    BY <1>3, Zenon
  <2>2. SubSeq(events, 1, n) \in Seq(Events)
    BY <2>1
  <2> QED
    BY <1>1, <1>3, <2>1, <2>2 DEF Adds
<1> QED
  BY <1>2, <1>3, Zenon DEF record
-----------------------------------------------------------------------------
(* The steps that record nothing. *)

\* Journals that are clean after a step were clean before it, and it added no stop.
LEMMA CleanBefore ==
  ASSUME NEW E, Adds(E), admitted' = admitted
  PROVE  Clean' => Clean /\ \A e \in E : e \notin Stops(Kind)
BY Zenon DEF Adds, Clean, Kind

\* A step that leaves the journals alone adds nothing.
LEMMA NothingAdded ==
  ASSUME log' = log, stopped' = stopped
  PROVE  Adds({})
BY Zenon DEF Adds, Logged

\* A step that records nothing, hands nothing over and decides nothing about the closure.
Quiet ==
  /\ UNCHANGED <<admitted, log, stopped, noted, units, cut, mode, closure, status, summary>>
  /\ gate # "none" => gate' # "none"
  /\ aborted' => aborted \/ pc \in ActiveSteps
  /\ pc' \in Closing <=> pc \in Closing
  /\ pc' \in Closing => window' = window
  /\ pc' \in Monitored <=> pc \in Monitored
  /\ pc' \in {"refused", "unresolved"} <=> pc \in {"refused", "unresolved"}
  /\ pc' \in Ending <=> pc \in Ending
  /\ pc' = "finalizing" <=> pc = "finalizing"
  /\ pc' \in {"index", "done"} <=> pc \in {"index", "done"}
  /\ lease # "none" => lease' # "none"
  /\ lease = "none" /\ lease' # "none" => pc = "acquiring"
  /\ lease = "losing" => lease' \in {"losing", "lost"}
  /\ lease = "lost" => lease' = "lost"
  /\ lease' = "losing" => lease = "losing"

\* Such a step keeps the invariant when it keeps what is latched.
LEMMA QuietStep ==
  ASSUME RunnerInv, Quiet, TypeOK', GateInv'
  PROVE  RunnerInv'
<1>1. \A e : Logged(e)' <=> Logged(e)
  BY Zenon DEF Quiet, Logged
<1>2. Clean' <=> Clean
  BY Zenon DEF Quiet, Clean, Logged, Kind
<1>3. CleanInv'
  <2>1. Handed' <=> Handed
    BY Zenon DEF Quiet, Handed, Units, Kind
  <2>2. pc \in Closing => pc \notin ActiveSteps
    BY Zenon DEF Closing, Ending, ActiveSteps
  <2> QED
    BY <1>2, <2>1, <2>2, Zenon DEF Quiet, RunnerInv, CleanInv
<1>4. ClosureInv'
  BY Zenon DEF Quiet, RunnerInv, ClosureInv, Armed, GateInv, Closing, Ending
<1>5. LoggedInv'
  BY <1>1, Zenon DEF Quiet, RunnerInv, LoggedInv, Armed, Closing, Ending
<1>6. SummaryInv'
  <2>1. summary # "none" => pc \notin ActiveSteps /\ pc \in Closing
    BY Zenon DEF RunnerInv, SummaryInv, ActiveSteps, Closing, Ending
  <2> QED
    BY <2>1, Zenon DEF Quiet, RunnerInv, SummaryInv, CompletedIsTrue, CleanupFile, AuditFile, Units, Kind, AllResults
<1> QED
  BY <1>3, <1>4, <1>5, <1>6, Zenon DEF RunnerInv

\* The put of the lease is sent (P1).
LEMMA AcquireStep ==
  ASSUME RunnerInv, Acquire
  PROVE  RunnerInv'
<1>1. /\ pc = "acquire" /\ pc' = "acquiring"
      /\ UNCHANGED <<admitted, now, gate, lease, log, stopped, noted, manifest, units, cut, since, window, mode,
                     active, closure, status, safety, summary, finalized, aborted>>
  BY Zenon DEF Acquire, Settled, execution, ending, journals, vars
<1>2. TypeOK'
  BY <1>1, RunnerAssumption DEF RunnerInv, TypeOK, ActiveSteps, LoggedReasons, Kind, Units, Causes
<1>3. Quiet
  BY <1>1, Zenon DEF RunnerInv, Quiet, TypeOK, Closing, Ending, Monitored, ActiveSteps, Causes
<1>4. GateInv'
  BY <1>1, Zenon DEF RunnerInv, TypeOK, GateInv, Armed, Units, Closing, Ending, ActiveSteps, Causes
<1> QED
  BY <1>2, <1>3, <1>4, QuietStep, Zenon

\* The lease is held: the gate is armed (P1).
LEMMA AcquiredStep ==
  ASSUME RunnerInv, Acquired
  PROVE  RunnerInv'
<1>1. /\ pc = "acquiring" /\ pc' = "provision" /\ lease' = "confirmed"
      /\ UNCHANGED <<admitted, now, gate, log, stopped, noted, manifest, units, cut, since, window, mode, active,
                     closure, status, safety, summary, finalized, aborted>>
  BY Zenon DEF Acquired, Settled, execution, ending, journals, vars
<1>2. TypeOK'
  BY <1>1, RunnerAssumption DEF RunnerInv, TypeOK, ActiveSteps, LoggedReasons, Kind, Units, Causes
<1>3. Quiet
  BY <1>1, Zenon DEF RunnerInv, GateInv, Armed, Quiet, TypeOK, Closing, Ending, Monitored, ActiveSteps, Causes
<1>4. GateInv'
  BY <1>1, Zenon DEF RunnerInv, TypeOK, GateInv, Armed, Units, Closing, Ending, ActiveSteps, Causes
<1> QED
  BY <1>2, <1>3, <1>4, QuietStep, Zenon

\* A unit starts behind the gate (awaitUnitStart).
LEMMA StartUnitStep ==
  ASSUME RunnerInv, StartUnit
  PROVE  RunnerInv'
<1>1. /\ pc = "units" /\ pc' = "setup" /\ Len(units) < Units
      /\ UNCHANGED <<admitted, now, gate, lease, log, stopped, noted, manifest, units, cut, since, window, mode,
                     active, closure, status, safety, summary, finalized, aborted>>
  BY Zenon DEF StartUnit, Settled, execution, ending, journals, vars
<1>2. TypeOK'
  BY <1>1, RunnerAssumption DEF RunnerInv, TypeOK, ActiveSteps, LoggedReasons, Kind, Units, Causes
<1>3. Quiet
  BY <1>1, Zenon DEF RunnerInv, Quiet, TypeOK, Closing, Ending, Monitored, ActiveSteps, Causes
<1>4. GateInv'
  BY <1>1, Zenon DEF RunnerInv, TypeOK, GateInv, Armed, Units, Closing, Ending, ActiveSteps, Causes
<1> QED
  BY <1>2, <1>3, <1>4, QuietStep, Zenon

\* The gate once more, at the end of the setup (T5).
LEMMA PassGateStep ==
  ASSUME RunnerInv, PassGate
  PROVE  RunnerInv'
<1>1. /\ pc = "setup" /\ pc' = "publish"
      /\ UNCHANGED <<admitted, now, gate, lease, log, stopped, noted, manifest, units, cut, since, window, mode,
                     active, closure, status, safety, summary, finalized, aborted>>
  BY Zenon DEF PassGate, Settled, execution, ending, journals, vars
<1>2. TypeOK'
  BY <1>1, RunnerAssumption DEF RunnerInv, TypeOK, ActiveSteps, LoggedReasons, Kind, Units, Causes
<1>3. Quiet
  BY <1>1, Zenon DEF RunnerInv, Quiet, TypeOK, Closing, Ending, Monitored, ActiveSteps, Causes
<1>4. GateInv'
  BY <1>1, Zenon DEF RunnerInv, TypeOK, GateInv, Armed, Units, Closing, Ending, ActiveSteps, Causes
<1> QED
  BY <1>2, <1>3, <1>4, QuietStep, Zenon

\* The message of the unit is sent.
LEMMA PublishStep ==
  ASSUME RunnerInv, Publish
  PROVE  RunnerInv'
<1>1. /\ pc = "publish" /\ pc' = "observe"
      /\ UNCHANGED <<admitted, now, gate, lease, log, stopped, noted, manifest, units, cut, since, window, mode,
                     active, closure, status, safety, summary, finalized, aborted>>
  BY Zenon DEF Publish, Settled, execution, ending, journals, vars
<1>2. TypeOK'
  BY <1>1, RunnerAssumption DEF RunnerInv, TypeOK, ActiveSteps, LoggedReasons, Kind, Units, Causes
<1>3. Quiet
  BY <1>1, Zenon DEF RunnerInv, Quiet, TypeOK, Closing, Ending, Monitored, ActiveSteps, Causes
<1>4. GateInv'
  BY <1>1, Zenon DEF RunnerInv, TypeOK, GateInv, Armed, Units, Closing, Ending, ActiveSteps, Causes
<1> QED
  BY <1>2, <1>3, <1>4, QuietStep, Zenon

\* The observation of the unit ends by itself.
LEMMA SettleStep ==
  ASSUME RunnerInv, Settle
  PROVE  RunnerInv'
<1>1. /\ pc = "observe" /\ pc' = "freeze"
      /\ UNCHANGED <<admitted, now, gate, lease, log, stopped, noted, manifest, units, cut, since, window, mode,
                     active, closure, status, safety, summary, finalized, aborted>>
  BY Zenon DEF Settle, Settled, execution, ending, journals, vars
<1>2. TypeOK'
  BY <1>1, RunnerAssumption DEF RunnerInv, TypeOK, ActiveSteps, LoggedReasons, Kind, Units, Causes
<1>3. Quiet
  BY <1>1, Zenon DEF RunnerInv, Quiet, TypeOK, Closing, Ending, Monitored, ActiveSteps, Causes
<1>4. GateInv'
  BY <1>1, Zenon DEF RunnerInv, TypeOK, GateInv, Armed, Units, Closing, Ending, ActiveSteps, Causes
<1> QED
  BY <1>2, <1>3, <1>4, QuietStep, Zenon

\* Late monitoring starts (P6).
LEMMA StartMonitoringStep ==
  ASSUME RunnerInv, StartMonitoring
  PROVE  RunnerInv'
<1>1. /\ pc = "monitor" /\ pc' = "monitoring" /\ since' = now
      /\ UNCHANGED <<admitted, now, gate, lease, log, stopped, noted, manifest, units, cut, window, mode, active,
                     closure, status, safety, summary, finalized, aborted>>
  BY Zenon DEF StartMonitoring, Settled, execution, ending, journals, vars
<1>2. TypeOK'
  BY <1>1, RunnerAssumption DEF RunnerInv, TypeOK, ActiveSteps, LoggedReasons, Kind, Units, Causes
<1>3. Quiet
  BY <1>1, Zenon DEF RunnerInv, Quiet, TypeOK, Closing, Ending, Monitored, ActiveSteps, Causes
<1>4. GateInv'
  BY <1>1, Zenon DEF RunnerInv, TypeOK, GateInv, Armed, Units, Closing, Ending, ActiveSteps, Causes
<1> QED
  BY <1>2, <1>3, <1>4, QuietStep, Zenon

\* Monitoring keeps its window or is cut short (observeWindow).
LEMMA observeWindowStep ==
  ASSUME RunnerInv, observeWindow
  PROVE  RunnerInv'
<1>1. /\ pc = "monitoring" /\ pc' = "judge"
      /\ (window' = "complete" /\ gate' = gate) \/ (window' = "shortened" /\ gate' \in Causes)
      /\ UNCHANGED <<admitted, now, lease, log, stopped, noted, manifest, units, cut, since, mode, active,
                     closure, status, safety, summary, finalized, aborted>>
  BY Zenon DEF observeWindow, Settled, execution, ending, journals, vars, interruption, Causes, RunnerInv, TypeOK
<1>2. TypeOK'
  BY <1>1, RunnerAssumption DEF RunnerInv, TypeOK, ActiveSteps, LoggedReasons, Kind, Units, Causes
<1>3. Quiet
  BY <1>1, Zenon DEF RunnerInv, Quiet, TypeOK, Closing, Ending, Monitored, ActiveSteps, Causes
<1>4. GateInv'
  BY <1>1, Zenon DEF RunnerInv, TypeOK, GateInv, Armed, Units, Closing, Ending, ActiveSteps, Causes
<1> QED
  BY <1>2, <1>3, <1>4, QuietStep, Zenon

\* The active time is frozen (markActiveEnded).
LEMMA markActiveEndedStep ==
  ASSUME RunnerInv, markActiveEnded
  PROVE  RunnerInv'
<1>1. /\ pc = "cleanup" /\ pc' = "cleaning" /\ active' = now
      /\ UNCHANGED <<admitted, now, gate, lease, log, stopped, noted, manifest, units, cut, since, window, mode,
                     closure, status, safety, summary, finalized, aborted>>
  BY Zenon DEF markActiveEnded, Settled, execution, ending, journals, vars
<1>2. TypeOK'
  BY <1>1, RunnerAssumption DEF RunnerInv, TypeOK, ActiveSteps, LoggedReasons, Kind, Units, Causes
<1>3. Quiet
  BY <1>1, Zenon DEF RunnerInv, Quiet, TypeOK, Closing, Ending, Monitored, ActiveSteps, Causes
<1>4. GateInv'
  BY <1>1, Zenon DEF RunnerInv, TypeOK, GateInv, Armed, Units, Closing, Ending, ActiveSteps, Causes
<1> QED
  BY <1>2, <1>3, <1>4, QuietStep, Zenon

\* The package index is written, or not.
LEMMA finalizePackageStep ==
  ASSUME RunnerInv, finalizePackage
  PROVE  RunnerInv'
<1>1. /\ pc = "index" /\ pc' = "done" /\ finalized' \in BOOLEAN
      /\ UNCHANGED <<admitted, now, gate, lease, log, stopped, noted, manifest, units, cut, since, window, mode,
                     active, closure, status, safety, summary, aborted>>
  BY Zenon DEF finalizePackage, Settled, execution, ending, journals, vars
<1>2. TypeOK'
  BY <1>1, RunnerAssumption DEF RunnerInv, TypeOK, ActiveSteps, LoggedReasons, Kind, Units, Causes
<1>3. Quiet
  BY <1>1, Zenon DEF RunnerInv, Quiet, TypeOK, Closing, Ending, Monitored, ActiveSteps, Causes
<1>4. GateInv'
  BY <1>1, Zenon DEF RunnerInv, TypeOK, GateInv, Armed, Units, Closing, Ending, ActiveSteps, Causes
<1> QED
  BY <1>2, <1>3, <1>4, QuietStep, Zenon

\* SIGINT latches the gate when nothing else has.
LEMMA SigintStep ==
  ASSUME RunnerInv, Sigint
  PROVE  RunnerInv'
<1>1. /\ gate = "none" /\ gate' \in Causes /\ aborted' \in BOOLEAN /\ pc # "done"
      /\ aborted' => pc \in ActiveSteps
      /\ UNCHANGED <<admitted, pc, now, lease, log, stopped, noted, manifest, units, cut, since, window, mode,
                     active, closure, status, safety, summary, finalized>>
  BY Zenon DEF Sigint, Settled, execution, ending, journals, vars, interruption, interrupt, Causes
<1>2. TypeOK'
  BY <1>1, RunnerAssumption DEF RunnerInv, TypeOK, ActiveSteps, LoggedReasons, Kind, Units, Causes
<1>3. Quiet
  BY <1>1, Zenon DEF RunnerInv, Quiet, TypeOK, Closing, Ending, Monitored, ActiveSteps, Causes
<1>4. GateInv'
  BY <1>1, Zenon DEF RunnerInv, TypeOK, GateInv, Armed, Units, Closing, Ending, ActiveSteps, Causes
<1> QED
  BY <1>2, <1>3, <1>4, QuietStep, Zenon

\* A heartbeat confirms the lease or leaves it uncertain.
LEMMA BeatStep ==
  ASSUME RunnerInv, Beat
  PROVE  RunnerInv'
<1>1. /\ lease \in {"confirmed", "uncertain"} /\ lease' \in {"confirmed", "uncertain"}
      /\ UNCHANGED <<admitted, pc, now, gate, log, stopped, noted, manifest, units, cut, since, window, mode,
                     active, closure, status, safety, summary, finalized, aborted>>
  BY Zenon DEF Beat, Settled, execution, ending, journals, vars
<1>2. TypeOK'
  BY <1>1, RunnerAssumption DEF RunnerInv, TypeOK, ActiveSteps, LoggedReasons, Kind, Units, Causes
<1>3. Quiet
  BY <1>1, Zenon DEF RunnerInv, Quiet, TypeOK, Closing, Ending, Monitored, ActiveSteps, Causes
<1>4. GateInv'
  BY <1>1, Zenon DEF RunnerInv, TypeOK, GateInv, Armed, Units, Closing, Ending, ActiveSteps, Causes
<1> QED
  BY <1>2, <1>3, <1>4, QuietStep, Zenon

\* The listener tells the gate of the loss.
LEMMA ReportLossStep ==
  ASSUME RunnerInv, ReportLoss
  PROVE  RunnerInv'
<1>1. /\ lease = "losing" /\ lease' = "lost" /\ gate' \in Causes
      /\ UNCHANGED <<admitted, pc, now, log, stopped, noted, manifest, units, cut, since, window, mode, active,
                     closure, status, safety, summary, finalized, aborted>>
  BY Zenon DEF ReportLoss, Settled, execution, ending, journals, vars, interruption, interrupt, Causes, RunnerInv, TypeOK
<1>2. TypeOK'
  BY <1>1, RunnerAssumption DEF RunnerInv, TypeOK, ActiveSteps, LoggedReasons, Kind, Units, Causes
<1>3. Quiet
  BY <1>1, Zenon DEF RunnerInv, Quiet, TypeOK, Closing, Ending, Monitored, ActiveSteps, Causes
<1>4. GateInv'
  BY <1>1, Zenon DEF RunnerInv, TypeOK, GateInv, Armed, Units, Closing, Ending, ActiveSteps, Causes
<1> QED
  BY <1>2, <1>3, <1>4, QuietStep, Zenon

\* Time passes.
LEMMA TickStep ==
  ASSUME RunnerInv, Tick
  PROVE  RunnerInv'
<1>1. /\ now < MaxTime /\ now' = now + 1
      /\ UNCHANGED <<admitted, pc, gate, lease, log, stopped, noted, manifest, units, cut, since, window, mode,
                     active, closure, status, safety, summary, finalized, aborted>>
  BY Zenon DEF Tick, Settled, execution, ending, journals, vars
<1>2. TypeOK'
  BY <1>1, RunnerAssumption DEF RunnerInv, TypeOK, ActiveSteps, LoggedReasons, Kind, Units, Causes
<1>3. Quiet
  BY <1>1, Zenon DEF RunnerInv, Quiet, TypeOK, Closing, Ending, Monitored, ActiveSteps, Causes
<1>4. GateInv'
  BY <1>1, Zenon DEF RunnerInv, TypeOK, GateInv, Armed, Units, Closing, Ending, ActiveSteps, Causes
<1> QED
  BY <1>2, <1>3, <1>4, QuietStep, Zenon
-----------------------------------------------------------------------------
(* The steps that record events. *)

\* What every such step keeps.
Advances ==
  /\ UNCHANGED <<admitted, units>>
  /\ gate # "none" => gate' # "none"
  /\ lease \in {"losing", "lost"} => lease' \in {"losing", "lost"}
  /\ lease' # "none" => lease # "none"
  /\ pc \in {"refused", "unresolved"} \cup Closing => pc' \in {"refused", "unresolved"} \cup Closing
  /\ pc \in Closing => pc' \in Closing
  /\ pc \in Monitored \cup Closing => pc' \in Monitored \cup Closing
  /\ pc \notin {"index", "done"}

\* The events of E stand for what LoggedInv says of them.
Truthful(E) ==
  /\ \A c \in Causes : Interrupted(c) \in E => gate' # "none"
  /\ Lease("LOST") \in E => lease' \in {"losing", "lost"}
  /\ Lease("ACQUISITION_FAILED") \in E \/ Failed("LEASE_ACQUISITION") \in E =>
       lease' = "none" /\ pc' \in {"refused", "unresolved"} \cup Closing
  /\ Failed("PROVISIONING") \in E \/ Failed("READINESS") \in E => units = << >> /\ pc' \in Closing
  /\ Failed("TRIALS") \in E =>
       /\ pc' \in Monitored \cup Closing
       /\ units = << >> \/ gate' # "none" \/ \E i \in DOMAIN units : ~Frozen(units[i])
  /\ Failed("PROBE_FREEZE") \in E =>
       pc' \in Monitored \cup Closing /\ \E i \in DOMAIN units : ~(Frozen(units[i]) /\ units[i].result)
  /\ Failed("SUMMARY") \in E => pc' \in {"index", "done"}

\* Truthful events keep the journals truthful.
LEMMA LoggedStep ==
  ASSUME RunnerInv, Advances, NEW E, Adds(E), Truthful(E)
  PROVE  LoggedInv'
<1> SUFFICES ASSUME stopped' = {} PROVE LoggedInv'
  BY Zenon DEF LoggedInv
<1>1. stopped = {} /\ \A e : Logged(e)' <=> Logged(e) \/ e \in E
  BY Zenon DEF Adds
<1>2. units' = units /\ \A i \in DOMAIN units : Frozen(units[i])' <=> Frozen(units[i])
  BY Zenon DEF Advances, Frozen
<1> HIDE DEF Logged, Adds
<1>3. \A c \in Causes : Logged(Interrupted(c))' => gate' # "none"
  BY <1>1, Zenon DEF RunnerInv, LoggedInv, Truthful, Advances
<1>4. Logged(Lease("LOST"))' => lease' \in {"losing", "lost"}
  BY <1>1, Zenon DEF RunnerInv, LoggedInv, Truthful, Advances
<1>5. Logged(Lease("ACQUISITION_FAILED"))' \/ Logged(Failed("LEASE_ACQUISITION"))' =>
         ~Armed' /\ pc' \in {"refused", "unresolved"} \cup Closing
  BY <1>1, Zenon DEF RunnerInv, LoggedInv, Truthful, Advances, Armed
<1>6. Logged(Failed("PROVISIONING"))' \/ Logged(Failed("READINESS"))' => units' = << >> /\ pc' \in Closing
  BY <1>1, <1>2, Zenon DEF RunnerInv, LoggedInv, Truthful, Advances
<1>7. Logged(Failed("TRIALS"))' =>
         /\ pc' \in Monitored \cup Closing
         /\ units' = << >> \/ gate' # "none" \/ \E i \in DOMAIN units' : ~Frozen(units[i])'
  BY <1>1, <1>2, Zenon DEF RunnerInv, LoggedInv, Truthful, Advances
<1>8. Logged(Failed("PROBE_FREEZE"))' =>
         pc' \in Monitored \cup Closing /\ \E i \in DOMAIN units' : ~(Frozen(units[i])' /\ units[i].result')
  BY <1>1, <1>2, Zenon DEF RunnerInv, LoggedInv, Truthful, Advances
<1>9. Logged(Failed("SUMMARY"))' => pc' \in {"index", "done"}
  BY <1>1, Zenon DEF RunnerInv, LoggedInv, Truthful, Advances
<1> QED
  BY <1>3, <1>4, <1>5, <1>6, <1>7, <1>8, <1>9, Zenon DEF LoggedInv

\* Before the summary there is nothing it could say.
LEMMA NoSummary ==
  ASSUME RunnerInv, pc \notin {"index", "done"}, summary' = summary
  PROVE  SummaryInv'
BY Zenon DEF RunnerInv, SummaryInv, CompletedIsTrue

\* The events of a phase and, when an interruption is latched, its own.
Notes(events) ==
  {e \in Events : In(e, events) \/ (e \in {Interrupted(c) : c \in Causes} /\ gate' # "none" /\ Logged(e)')}

\* What a clean journal after #noteInterruption proves: nothing interrupted.
LEMMA Noted ==
  ASSUME RunnerInv, NEW events \in Seq(Events), noteInterruption(events), admitted' = admitted
  PROVE  /\ log' \in Seq(Events) /\ stopped' \subseteq {"runner", "lease", "unit"}
         /\ gate' = interruption /\ gate' \in Causes \cup {"none"} /\ noted' \in BOOLEAN
         /\ gate # "none" => gate' # "none"
         /\ Adds(Notes(events))
         /\ Clean' => Clean /\ interruption = "none" /\ ~noted' /\ \A e \in Stops(Kind) : ~In(e, events)
<1> DEFINE note == IF interruption # "none" /\ ~noted THEN << Interrupted(interruption) >> ELSE << >>
           E == {e \in Events : In(e, note \o events)}
<1>1. interruption \in Causes \cup {"none"} /\ (gate # "none" => interruption = gate)
  BY Zenon DEF RunnerInv, TypeOK, interruption, Causes
<1>2. note \in Seq(Events)
  BY <1>1, EventTypes
<1>3. note \o events \in Seq(Events)
  BY <1>2
<1>4. record("runner", note \o events) /\ gate' = interruption /\ noted' = (noted \/ interruption # "none")
  BY Zenon DEF noteInterruption
<1>5. log' \in Seq(Events) /\ stopped' \subseteq {"runner", "lease", "unit"} /\ Adds(E)
  BY <1>3, <1>4, Recorded, Zenon DEF RunnerInv
<1>6. \A e : In(e, note \o events) <=> In(e, note) \/ In(e, events)
  BY <1>2, EventsOf, Zenon
<1>7. \A e : In(e, note) <=> interruption # "none" /\ ~noted /\ e = Interrupted(interruption)
  BY EventsOf, Zenon
<1> HIDE DEF note
<1>8. Adds(Notes(events))
  BY <1>1, <1>4, <1>5, <1>6, <1>7, Zenon DEF Adds, Notes
<1>9. ASSUME Clean' PROVE Clean /\ interruption = "none" /\ ~noted' /\ \A e \in Stops(Kind) : ~In(e, events)
  <2>1. Clean /\ \A e \in E : e \notin Stops(Kind)
    BY <1>5, <1>9, CleanBefore, Zenon
  <2>2. ~noted /\ noted \in BOOLEAN
    BY <2>1, Zenon DEF RunnerInv, CleanInv, TypeOK
  <2>3. \A e : In(e, events) => e \in Events
    BY DEF In
  <2>4. interruption = "none"
    <3>1. SUFFICES ASSUME interruption # "none" PROVE FALSE
      BY Zenon
    <3>2. Interrupted(interruption) \in Stops(Kind) /\ Interrupted(interruption) \in Events
      BY <1>1, <3>1, EventTypes, Zenon DEF Stops, Stopping
    <3> QED
      BY <1>6, <1>7, <2>1, <2>2, <3>1, <3>2, Zenon
  <2> QED
    BY <1>4, <1>6, <2>1, <2>2, <2>3, <2>4, Zenon
<1> QED
  BY <1>1, <1>4, <1>5, <1>8, <1>9, Zenon

\* One event on a journal.
LEMMA RecordedOne ==
  ASSUME TypeOK, NEW journal \in {"runner", "lease", "unit"}, NEW x \in Events, record(journal, << x >>)
  PROVE  log' \in Seq(Events) /\ stopped' \subseteq {"runner", "lease", "unit"} /\ Adds({x})
<1>1. << x >> \in Seq(Events)
  OBVIOUS
<1>2. {e \in Events : In(e, << x >>)} = {x}
  BY EventsOf
<1> QED
  BY <1>1, <1>2, Recorded, Zenon

\* One event that stops the execution: the journals are not clean after it.
LEMMA StopRecorded ==
  ASSUME TypeOK, NEW journal \in {"runner", "lease", "unit"}, NEW x \in Events, record(journal, << x >>),
         x \in Stops(Kind), admitted' = admitted
  PROVE  log' \in Seq(Events) /\ stopped' \subseteq {"runner", "lease", "unit"} /\ Adds({x}) /\ ~Clean'
BY RecordedOne, CleanBefore, Zenon

\* The session journals a refused or unresolved acquisition (#acquireLease).
LEMMA NotAcquiredStep ==
  ASSUME RunnerInv, NotAcquired
  PROVE  RunnerInv'
<1>1. /\ pc = "acquiring" /\ pc' \in {"refused", "unresolved"}
      /\ record("lease", << Lease("ACQUISITION_FAILED") >>)
      /\ UNCHANGED <<admitted, now, gate, lease, noted, manifest, units, cut, since, window, mode, active, closure,
        status, safety, summary, finalized, aborted>>
  BY Zenon DEF NotAcquired, Settled, execution, ending, journals
<1>2. log' \in Seq(Events) /\ stopped' \subseteq {"runner", "lease", "unit"} /\ Adds({Lease("ACQUISITION_FAILED")}) /\ ~Clean'
  <2>1. Lease("ACQUISITION_FAILED") \in Events /\ Lease("ACQUISITION_FAILED") \in Stops(Kind)
    BY EventTypes, Zenon DEF Phases, LeaseEvents, Stops, Stopping
  <2> QED
    BY <1>1, <2>1, StopRecorded, Zenon DEF RunnerInv
<1>3. TypeOK'
  BY <1>1, <1>2, RunnerAssumption DEF RunnerInv, TypeOK, ActiveSteps, LoggedReasons, Kind, Units, Causes
<1>4. CleanInv'
  BY <1>2, Zenon DEF CleanInv
<1>5. GateInv'
  BY <1>1, <1>2, Zenon DEF RunnerInv, TypeOK, GateInv, Armed, Units, Closing, Ending, ActiveSteps, Causes
<1>6. ClosureInv'
  BY <1>1, Zenon DEF RunnerInv, TypeOK, ClosureInv, GateInv, NoClosure, Armed, Closing, Ending, ActiveSteps
<1>7. LoggedInv'
  <2>1. Advances
    BY <1>1, <1>2, Zenon DEF RunnerInv, TypeOK, GateInv, ClosureInv, Advances, Armed, Closing, Ending, Monitored, ActiveSteps, Causes
  <2>2. Truthful({Lease("ACQUISITION_FAILED")})
    BY <1>1, <1>2, Zenon DEF RunnerInv, GateInv, Truthful, Armed, Closing, Ending, Monitored, Failed, Interrupted, Lease, Breached
  <2> QED
    BY <1>2, <2>1, <2>2, LoggedStep, Zenon
<1>8. SummaryInv'
  BY <1>1, NoSummary, Zenon DEF ActiveSteps
<1> QED
  BY <1>3, <1>4, <1>5, <1>6, <1>7, <1>8, Zenon DEF RunnerInv

\* The runner journals it (P1).
LEMMA AcquisitionFailedStep ==
  ASSUME RunnerInv, AcquisitionFailed
  PROVE  RunnerInv'
<1>1. /\ pc \in {"refused", "unresolved"} /\ pc' \in {"summary", "finalizing"}
      /\ record("runner", << Failed("LEASE_ACQUISITION") >>)
      /\ UNCHANGED <<admitted, now, gate, lease, noted, manifest, units, cut, since, window, mode, active, closure,
        status, safety, summary, finalized, aborted>>
  BY Zenon DEF AcquisitionFailed, Settled, execution, ending, journals
<1>2. log' \in Seq(Events) /\ stopped' \subseteq {"runner", "lease", "unit"} /\ Adds({Failed("LEASE_ACQUISITION")}) /\ ~Clean'
  <2>1. Failed("LEASE_ACQUISITION") \in Events /\ Failed("LEASE_ACQUISITION") \in Stops(Kind)
    BY EventTypes, Zenon DEF Phases, LeaseEvents, Stops, Stopping
  <2> QED
    BY <1>1, <2>1, StopRecorded, Zenon DEF RunnerInv
<1>3. TypeOK'
  BY <1>1, <1>2, RunnerAssumption DEF RunnerInv, TypeOK, ActiveSteps, LoggedReasons, Kind, Units, Causes
<1>4. CleanInv'
  BY <1>2, Zenon DEF CleanInv
<1>5. GateInv'
  BY <1>1, <1>2, Zenon DEF RunnerInv, TypeOK, GateInv, Armed, Units, Closing, Ending, ActiveSteps, Causes
<1>6. ClosureInv'
  BY <1>1, Zenon DEF RunnerInv, TypeOK, ClosureInv, GateInv, NoClosure, Armed, Closing, Ending, ActiveSteps
<1>7. LoggedInv'
  <2>1. Advances
    BY <1>1, <1>2, Zenon DEF RunnerInv, TypeOK, GateInv, ClosureInv, Advances, Armed, Closing, Ending, Monitored, ActiveSteps, Causes
  <2>2. Truthful({Failed("LEASE_ACQUISITION")})
    BY <1>1, <1>2, Zenon DEF RunnerInv, GateInv, Truthful, Armed, Closing, Ending, Monitored, Failed, Interrupted, Lease, Breached
  <2> QED
    BY <1>2, <2>1, <2>2, LoggedStep, Zenon
<1>8. SummaryInv'
  BY <1>1, NoSummary, Zenon DEF ActiveSteps
<1> QED
  BY <1>3, <1>4, <1>5, <1>6, <1>7, <1>8, Zenon DEF RunnerInv

\* The session journals the loss of its lease (#lose).
LEMMA LoseLeaseStep ==
  ASSUME RunnerInv, LoseLease
  PROVE  RunnerInv'
<1>1. /\ pc \in ActiveSteps \cup {"cleanup", "cleaning"}
      /\ lease \in {"confirmed", "uncertain"} /\ lease' = "losing"
      /\ record("lease", << Lease("LOST") >>)
      /\ UNCHANGED <<admitted, pc, now, gate, noted, manifest, units, cut, since, window, mode, active, closure,
        status, safety, summary, finalized, aborted>>
  BY Zenon DEF LoseLease, Heartbeats, Settled, execution, ending, journals
<1>2. log' \in Seq(Events) /\ stopped' \subseteq {"runner", "lease", "unit"} /\ Adds({Lease("LOST")}) /\ ~Clean'
  <2>1. Lease("LOST") \in Events /\ Lease("LOST") \in Stops(Kind)
    BY EventTypes, Zenon DEF Phases, LeaseEvents, Stops, Stopping
  <2> QED
    BY <1>1, <2>1, StopRecorded, Zenon DEF RunnerInv
<1>3. TypeOK'
  BY <1>1, <1>2, RunnerAssumption DEF RunnerInv, TypeOK, ActiveSteps, LoggedReasons, Kind, Units, Causes
<1>4. CleanInv'
  BY <1>2, Zenon DEF CleanInv
<1>5. GateInv'
  BY <1>1, <1>2, Zenon DEF RunnerInv, TypeOK, GateInv, Armed, Units, Closing, Ending, ActiveSteps, Causes
<1>6. ClosureInv'
  BY <1>1, Zenon DEF RunnerInv, TypeOK, ClosureInv, GateInv, NoClosure, Armed, Closing, Ending, ActiveSteps
<1>7. LoggedInv'
  <2>1. Advances
    BY <1>1, <1>2, Zenon DEF RunnerInv, TypeOK, GateInv, ClosureInv, Advances, Armed, Closing, Ending, Monitored, ActiveSteps, Causes
  <2>2. Truthful({Lease("LOST")})
    BY <1>1, <1>2, Zenon DEF RunnerInv, GateInv, Truthful, Armed, Closing, Ending, Monitored, Failed, Interrupted, Lease, Breached
  <2> QED
    BY <1>2, <2>1, <2>2, LoggedStep, Zenon
<1>8. SummaryInv'
  BY <1>1, NoSummary, Zenon DEF ActiveSteps
<1> QED
  BY <1>3, <1>4, <1>5, <1>6, <1>7, <1>8, Zenon DEF RunnerInv

\* Provisioning, or its failure (P2).
LEMMA ProvisionStep ==
  ASSUME RunnerInv, Provision
  PROVE  RunnerInv'
<1>1. /\ pc = "provision"
      /\ \/ pc' = "ready" /\ log' = log /\ stopped' = stopped /\ mode' = mode
         \/ pc' = "cleanup" /\ mode' = "EMERGENCY" /\ record("runner", << Failed("PROVISIONING") >>)
      /\ manifest' \in BOOLEAN
      /\ UNCHANGED <<admitted, now, gate, lease, noted, units, cut, since, window, active, closure, status, safety,
        summary, finalized, aborted>>
  BY Zenon DEF Provision, RunnerInv, TypeOK, Settled, execution, ending, journals
<1>2. PICK E \in SUBSET {Failed("PROVISIONING")} :
             /\ log' \in Seq(Events) /\ stopped' \subseteq {"runner", "lease", "unit"} /\ Adds(E)
             /\ \/ E = {} /\ pc' = "ready" /\ mode' = mode /\ (Clean' => Clean)
                \/ E = {Failed("PROVISIONING")} /\ pc' = "cleanup" /\ mode' = "EMERGENCY" /\ ~Clean'
  <2>1. Failed("PROVISIONING") \in Events /\ Failed("PROVISIONING") \in Stops(Kind)
    BY EventTypes, Zenon DEF Phases, Stops, Stopping
  <2>2. CASE pc' = "ready" /\ log' = log /\ stopped' = stopped /\ mode' = mode
    BY <1>1, <2>2, NothingAdded, CleanBefore, Zenon DEF RunnerInv, TypeOK
  <2>3. CASE pc' = "cleanup" /\ mode' = "EMERGENCY" /\ record("runner", << Failed("PROVISIONING") >>)
    BY <1>1, <2>1, <2>3, StopRecorded, Zenon DEF RunnerInv, TypeOK
  <2> QED
    BY <1>1, <2>2, <2>3, Zenon
<1>3. TypeOK'
  BY <1>1, <1>2, RunnerAssumption DEF RunnerInv, TypeOK, ActiveSteps, LoggedReasons, Kind, Units, Causes
<1>4. CleanInv'
  BY <1>1, <1>2, Zenon DEF RunnerInv, GateInv, CleanInv, Handed, Units, Kind, Armed, Closing, Ending, Monitored, ActiveSteps
<1>5. GateInv'
  BY <1>1, <1>2, Zenon DEF RunnerInv, TypeOK, GateInv, Armed, Units, Closing, Ending, ActiveSteps, Causes
<1>6. ClosureInv'
  BY <1>1, <1>2, Zenon DEF RunnerInv, TypeOK, ClosureInv, GateInv, NoClosure, Armed, Closing, Ending, ActiveSteps
<1>7. LoggedInv'
  <2>1. Advances
    BY <1>1, <1>2, Zenon DEF RunnerInv, TypeOK, GateInv, ClosureInv, Advances, Armed, Closing, Ending, Monitored, ActiveSteps, Causes
  <2>2. Truthful(E)
    BY <1>1, <1>2, Zenon DEF RunnerInv, GateInv, Truthful, Armed, Closing, Ending, Monitored, Failed, Interrupted, Lease, Breached
  <2> QED
    BY <1>2, <2>1, <2>2, LoggedStep, Zenon
<1>8. SummaryInv'
  BY <1>1, NoSummary, Zenon
<1> QED
  BY <1>3, <1>4, <1>5, <1>6, <1>7, <1>8, Zenon DEF RunnerInv

\* Planning the units, or its failure (P4).
LEMMA PlanUnitsStep ==
  ASSUME RunnerInv, PlanUnits
  PROVE  RunnerInv'
<1>1. /\ pc = "workload"
      /\ \/ pc' = "units" /\ log' = log /\ stopped' = stopped /\ mode' = mode
         \/ pc' = "cleanup" /\ mode' = "EMERGENCY" /\ record("runner", << Failed("TRIALS") >>)
      /\ manifest' \in BOOLEAN
      /\ UNCHANGED <<admitted, now, gate, lease, noted, units, cut, since, window, active, closure, status, safety,
        summary, finalized, aborted>>
  BY Zenon DEF PlanUnits, RunnerInv, TypeOK, Settled, execution, ending, journals
<1>2. PICK E \in SUBSET {Failed("TRIALS")} :
             /\ log' \in Seq(Events) /\ stopped' \subseteq {"runner", "lease", "unit"} /\ Adds(E)
             /\ \/ E = {} /\ pc' = "units" /\ mode' = mode /\ (Clean' => Clean)
                \/ E = {Failed("TRIALS")} /\ pc' = "cleanup" /\ mode' = "EMERGENCY" /\ ~Clean'
  <2>1. Failed("TRIALS") \in Events /\ Failed("TRIALS") \in Stops(Kind)
    BY EventTypes, Zenon DEF Phases, Stops, Stopping
  <2>2. CASE pc' = "units" /\ log' = log /\ stopped' = stopped /\ mode' = mode
    BY <1>1, <2>2, NothingAdded, CleanBefore, Zenon DEF RunnerInv, TypeOK
  <2>3. CASE pc' = "cleanup" /\ mode' = "EMERGENCY" /\ record("runner", << Failed("TRIALS") >>)
    BY <1>1, <2>1, <2>3, StopRecorded, Zenon DEF RunnerInv, TypeOK
  <2> QED
    BY <1>1, <2>2, <2>3, Zenon
<1>3. TypeOK'
  BY <1>1, <1>2, RunnerAssumption DEF RunnerInv, TypeOK, ActiveSteps, LoggedReasons, Kind, Units, Causes
<1>4. CleanInv'
  BY <1>1, <1>2, Zenon DEF RunnerInv, GateInv, CleanInv, Handed, Units, Kind, Armed, Closing, Ending, Monitored, ActiveSteps
<1>5. GateInv'
  BY <1>1, <1>2, Zenon DEF RunnerInv, TypeOK, GateInv, Armed, Units, Closing, Ending, ActiveSteps, Causes
<1>6. ClosureInv'
  BY <1>1, <1>2, Zenon DEF RunnerInv, TypeOK, ClosureInv, GateInv, NoClosure, Armed, Closing, Ending, ActiveSteps
<1>7. LoggedInv'
  <2>1. Advances
    BY <1>1, <1>2, Zenon DEF RunnerInv, TypeOK, GateInv, ClosureInv, Advances, Armed, Closing, Ending, Monitored, ActiveSteps, Causes
  <2>2. Truthful(E)
    BY <1>1, <1>2, Zenon DEF RunnerInv, GateInv, Truthful, Armed, Closing, Ending, Monitored, Failed, Interrupted, Lease, Breached
  <2> QED
    BY <1>2, <2>1, <2>2, LoggedStep, Zenon
<1>8. SummaryInv'
  BY <1>1, NoSummary, Zenon
<1> QED
  BY <1>3, <1>4, <1>5, <1>6, <1>7, <1>8, Zenon DEF RunnerInv

\* An abort before the first mutation (P1).
LEMMA SkipAcquisitionStep ==
  ASSUME RunnerInv, SkipAcquisition
  PROVE  RunnerInv'
<1>1. /\ pc = "acquire" /\ gate # "none" /\ pc' = "summary"
      /\ noteInterruption(<< >>)
      /\ UNCHANGED <<admitted, now, lease, manifest, units, cut, since, window, mode, active, closure, status,
        safety, summary, finalized, aborted>>
  BY Zenon DEF SkipAcquisition, Settled, execution, ending, journals
<1>2. /\ log' \in Seq(Events) /\ stopped' \subseteq {"runner", "lease", "unit"}
      /\ gate' = interruption /\ gate' \in Causes \cup {"none"} /\ noted' \in BOOLEAN /\ (gate # "none" => gate' # "none")
      /\ Adds(Notes(<< >>))
      /\ Clean' => Clean /\ interruption = "none" /\ ~noted' /\ \A e \in Stops(Kind) : ~In(e, << >>)
  <2>1. << >> \in Seq(Events)
    OBVIOUS
  <2> QED
    BY <1>1, <2>1, Noted, Zenon
<1>3. TypeOK'
  BY <1>1, <1>2, RunnerAssumption DEF RunnerInv, TypeOK, ActiveSteps, LoggedReasons, Kind, Units, Causes
<1>4. CleanInv'
  BY <1>1, <1>2, Zenon DEF CleanInv, interruption
<1>5. GateInv'
  BY <1>1, <1>2, Zenon DEF RunnerInv, TypeOK, GateInv, Armed, Units, Closing, Ending, ActiveSteps, Causes
<1>6. ClosureInv'
  BY <1>1, Zenon DEF RunnerInv, TypeOK, ClosureInv, GateInv, NoClosure, Armed, Closing, Ending, ActiveSteps
<1>7. LoggedInv'
  <2>1. Advances
    BY <1>1, <1>2, Zenon DEF RunnerInv, TypeOK, GateInv, ClosureInv, Advances, Armed, Closing, Ending, Monitored, ActiveSteps, Causes
  <2>2. Truthful(Notes(<< >>))
    BY <1>1, <1>2, EventsOf, Zenon DEF RunnerInv, GateInv, Truthful, Notes, Armed, Closing, Ending, Monitored, Causes, FailedIf, Failed, Interrupted, Lease, Breached
  <2> QED
    BY <1>2, <2>1, <2>2, LoggedStep, Zenon
<1>8. SummaryInv'
  BY <1>1, NoSummary, Zenon
<1> QED
  BY <1>3, <1>4, <1>5, <1>6, <1>7, <1>8, Zenon DEF RunnerInv

\* The gate before readiness (P3).
LEMMA EnterReadinessStep ==
  ASSUME RunnerInv, EnterReadiness
  PROVE  RunnerInv'
<1>1. /\ pc = "ready"
      /\ noteInterruption(<< >>)
      /\ \/ interruption = "none" /\ pc' = "readiness" /\ mode' = mode
         \/ interruption # "none" /\ pc' = "cleanup" /\ mode' = "EMERGENCY"
      /\ UNCHANGED <<admitted, now, lease, manifest, units, cut, since, window, active, closure, status, safety,
        summary, finalized, aborted>>
  BY Zenon DEF EnterReadiness, Settled, execution, ending, journals
<1>2. /\ log' \in Seq(Events) /\ stopped' \subseteq {"runner", "lease", "unit"}
      /\ gate' = interruption /\ gate' \in Causes \cup {"none"} /\ noted' \in BOOLEAN /\ (gate # "none" => gate' # "none")
      /\ Adds(Notes(<< >>))
      /\ Clean' => Clean /\ interruption = "none" /\ ~noted' /\ \A e \in Stops(Kind) : ~In(e, << >>)
  <2>1. << >> \in Seq(Events)
    OBVIOUS
  <2> QED
    BY <1>1, <2>1, Noted, Zenon
<1>3. TypeOK'
  BY <1>1, <1>2, RunnerAssumption DEF RunnerInv, TypeOK, ActiveSteps, LoggedReasons, Kind, Units, Causes
<1>4. CleanInv'
  BY <1>1, <1>2, Zenon DEF RunnerInv, GateInv, CleanInv, Handed, Units, Kind, Armed, Closing, Ending, Monitored, ActiveSteps
<1>5. GateInv'
  BY <1>1, <1>2, Zenon DEF RunnerInv, TypeOK, GateInv, Armed, Units, Closing, Ending, ActiveSteps, Causes
<1>6. ClosureInv'
  BY <1>1, <1>2, Zenon DEF RunnerInv, TypeOK, ClosureInv, GateInv, NoClosure, Armed, Closing, Ending, ActiveSteps
<1>7. LoggedInv'
  <2>1. Advances
    BY <1>1, <1>2, Zenon DEF RunnerInv, TypeOK, GateInv, ClosureInv, Advances, Armed, Closing, Ending, Monitored, ActiveSteps, Causes
  <2>2. Truthful(Notes(<< >>))
    BY <1>1, <1>2, EventsOf, Zenon DEF RunnerInv, GateInv, Truthful, Notes, Armed, Closing, Ending, Monitored, Causes, FailedIf, Failed, Interrupted, Lease, Breached
  <2> QED
    BY <1>2, <2>1, <2>2, LoggedStep, Zenon
<1>8. SummaryInv'
  BY <1>1, NoSummary, Zenon
<1> QED
  BY <1>3, <1>4, <1>5, <1>6, <1>7, <1>8, Zenon DEF RunnerInv

\* The window was kept and nothing interrupted, or cleanup is an emergency (P6).
LEMMA JudgeMonitoringStep ==
  ASSUME RunnerInv, JudgeMonitoring
  PROVE  RunnerInv'
<1>1. /\ pc = "judge" /\ pc' = "cleanup" /\ since' = 0
      /\ noteInterruption(<< >>)
      /\ mode' = IF window = "complete" /\ interruption = "none" THEN "NORMAL" ELSE "EMERGENCY"
      /\ UNCHANGED <<admitted, now, lease, manifest, units, cut, window, active, closure, status, safety, summary,
        finalized, aborted>>
  BY Zenon DEF JudgeMonitoring, Settled, execution, ending, journals
<1>2. /\ log' \in Seq(Events) /\ stopped' \subseteq {"runner", "lease", "unit"}
      /\ gate' = interruption /\ gate' \in Causes \cup {"none"} /\ noted' \in BOOLEAN /\ (gate # "none" => gate' # "none")
      /\ Adds(Notes(<< >>))
      /\ Clean' => Clean /\ interruption = "none" /\ ~noted' /\ \A e \in Stops(Kind) : ~In(e, << >>)
  <2>1. << >> \in Seq(Events)
    OBVIOUS
  <2> QED
    BY <1>1, <2>1, Noted, Zenon
<1>3. TypeOK'
  BY <1>1, <1>2, RunnerAssumption DEF RunnerInv, TypeOK, ActiveSteps, LoggedReasons, Kind, Units, Causes
<1>4. CleanInv'
  BY <1>1, <1>2, Zenon DEF RunnerInv, GateInv, CleanInv, interruption, Handed, Units, Kind, Closing, Ending, Monitored
<1>5. GateInv'
  BY <1>1, <1>2, Zenon DEF RunnerInv, TypeOK, GateInv, Armed, Units, Closing, Ending, ActiveSteps, Causes
<1>6. ClosureInv'
  BY <1>1, <1>2, Zenon DEF RunnerInv, TypeOK, ClosureInv, GateInv, NoClosure, Armed, Closing, Ending, ActiveSteps
<1>7. LoggedInv'
  <2>1. Advances
    BY <1>1, <1>2, Zenon DEF RunnerInv, TypeOK, GateInv, ClosureInv, Advances, Armed, Closing, Ending, Monitored, ActiveSteps, Causes
  <2>2. Truthful(Notes(<< >>))
    BY <1>1, <1>2, EventsOf, Zenon DEF RunnerInv, GateInv, Truthful, Notes, Armed, Closing, Ending, Monitored, Causes, FailedIf, Failed, Interrupted, Lease, Breached
  <2> QED
    BY <1>2, <2>1, <2>2, LoggedStep, Zenon
<1>8. SummaryInv'
  BY <1>1, NoSummary, Zenon
<1> QED
  BY <1>3, <1>4, <1>5, <1>6, <1>7, <1>8, Zenon DEF RunnerInv

\* Readiness is confirmed, fails or is interrupted (P3).
LEMMA confirmReadinessStep ==
  ASSUME RunnerInv, confirmReadiness
  PROVE  RunnerInv'
<1>1. PICK ready \in BOOLEAN :
      /\ pc = "readiness"
      /\ noteInterruption(FailedIf(~ready, "READINESS"))
      /\ \/ ready /\ interruption = "none" /\ pc' = "workload" /\ mode' = mode
         \/ ~ready /\ pc' = "cleanup" /\ mode' = "EMERGENCY"
      /\ UNCHANGED <<admitted, now, lease, manifest, units, cut, since, window, active, closure, status, safety,
        summary, finalized, aborted>>
  BY Zenon DEF confirmReadiness, Settled, execution, ending, journals
<1>2. /\ log' \in Seq(Events) /\ stopped' \subseteq {"runner", "lease", "unit"}
      /\ gate' = interruption /\ gate' \in Causes \cup {"none"} /\ noted' \in BOOLEAN /\ (gate # "none" => gate' # "none")
      /\ Adds(Notes(FailedIf(~ready, "READINESS")))
      /\ Clean' => Clean /\ interruption = "none" /\ ~noted' /\ \A e \in Stops(Kind) : ~In(e, FailedIf(~ready, "READINESS"))
  <2>1. FailedIf(~ready, "READINESS") \in Seq(Events)
    BY EventTypes DEF FailedIf, Phases
  <2> QED
    BY <1>1, <2>1, Noted, Zenon
<1>3. TypeOK'
  BY <1>1, <1>2, RunnerAssumption DEF RunnerInv, TypeOK, ActiveSteps, LoggedReasons, Kind, Units, Causes
<1>4. CleanInv'
  <2>1. ~ready => ~Clean'
    BY <1>2, EventsOf DEF FailedIf, Stops, Stopping
  <2> QED
    BY <1>1, <1>2, <2>1, Zenon DEF RunnerInv, GateInv, CleanInv, Closing, Ending, Monitored
<1>5. GateInv'
  BY <1>1, <1>2, Zenon DEF RunnerInv, TypeOK, GateInv, Armed, Units, Closing, Ending, ActiveSteps, Causes
<1>6. ClosureInv'
  BY <1>1, <1>2, Zenon DEF RunnerInv, TypeOK, ClosureInv, GateInv, NoClosure, Armed, Closing, Ending, ActiveSteps
<1>7. LoggedInv'
  <2>1. Advances
    BY <1>1, <1>2, Zenon DEF RunnerInv, TypeOK, GateInv, ClosureInv, Advances, Armed, Closing, Ending, Monitored, ActiveSteps, Causes
  <2>2. Truthful(Notes(FailedIf(~ready, "READINESS")))
    BY <1>1, <1>2, EventsOf DEF RunnerInv, GateInv, Truthful, Notes, Armed, Closing, Ending, Monitored, Causes, FailedIf, Failed, Interrupted, Lease, Breached
  <2> QED
    BY <1>2, <2>1, <2>2, LoggedStep, Zenon
<1>8. SummaryInv'
  BY <1>1, NoSummary, Zenon
<1> QED
  BY <1>3, <1>4, <1>5, <1>6, <1>7, <1>8, Zenon DEF RunnerInv

\* A unit sees the interruption and journals it (the observer of a trial or probe).
LEMMA CutUnitStep ==
  ASSUME RunnerInv, CutUnit
  PROVE  RunnerInv'
<1>1. /\ pc = "observe" /\ pc' = "freeze"
      /\ interruption # "none" /\ gate' = interruption /\ cut' = TRUE
      /\ \/ log' = Append(log, Interrupted(interruption)) /\ stopped' = stopped
         \/ stopped' = stopped \cup {"unit"} /\ log' = log
      /\ UNCHANGED <<admitted, now, lease, noted, manifest, units, since, window, mode, active, closure, status,
        safety, summary, finalized, aborted>>
  BY Zenon DEF CutUnit, Settled, execution, ending, journals
<1>2. /\ log' \in Seq(Events) /\ stopped' \subseteq {"runner", "lease", "unit"}
      /\ gate' \in Causes /\ Adds({Interrupted(gate')}) /\ ~Clean'
  <2>1. gate' \in Causes
    BY <1>1, Zenon DEF RunnerInv, TypeOK, interruption, Causes
  <2>2. Interrupted(gate') \in Events /\ Interrupted(gate') \in Stops(Kind) /\ log \in Seq(Events)
    BY <2>1, EventTypes, Zenon DEF Stops, Stopping, RunnerInv, TypeOK
  <2>3. << Interrupted(gate') >> \in Seq(Events) /\ Append(log, Interrupted(gate')) = log \o << Interrupted(gate') >>
    BY <2>2
  <2>4. log' \in Seq(Events) /\ stopped' \subseteq {"runner", "lease", "unit"}
    <3>1. log' \in {log, Append(log, Interrupted(gate'))} /\ stopped' \in {stopped, stopped \cup {"unit"}}
      BY <1>1, Zenon
    <3>2. Append(log, Interrupted(gate')) \in Seq(Events)
      BY <2>2
    <3>3. stopped \subseteq {"runner", "lease", "unit"}
      BY Zenon DEF RunnerInv, TypeOK
    <3> QED
      BY <2>2, <3>1, <3>2, <3>3, Zenon
  <2>5. Adds({Interrupted(gate')})
    <3>1. CASE log' = log \o << Interrupted(gate') >> /\ stopped' = stopped
      BY <2>2, <2>3, <3>1, EventsOf, Zenon DEF Adds, Logged
    <3>2. CASE stopped' = stopped \cup {"unit"}
      BY <3>2, Zenon DEF Adds
    <3> QED
      BY <1>1, <2>3, <3>1, <3>2, Zenon
  <2> QED
    BY <1>1, <2>1, <2>2, <2>4, <2>5, CleanBefore, Zenon
<1>3. TypeOK'
  BY <1>1, <1>2, RunnerAssumption DEF RunnerInv, TypeOK, ActiveSteps, LoggedReasons, Kind, Units, Causes
<1>4. CleanInv'
  BY <1>2, Zenon DEF CleanInv
<1>5. GateInv'
  BY <1>1, <1>2, Zenon DEF RunnerInv, TypeOK, GateInv, Armed, Units, Closing, Ending, ActiveSteps, Causes
<1>6. ClosureInv'
  BY <1>1, <1>2, Zenon DEF RunnerInv, TypeOK, ClosureInv, GateInv, NoClosure, Armed, Closing, Ending, ActiveSteps
<1>7. LoggedInv'
  <2>1. Advances
    BY <1>1, <1>2, Zenon DEF RunnerInv, TypeOK, GateInv, ClosureInv, Advances, Armed, Closing, Ending, Monitored, ActiveSteps, Causes
  <2>2. Truthful({Interrupted(gate')})
    BY <1>1, <1>2, Zenon DEF Truthful, Causes, Failed, Interrupted, Lease, Breached
  <2> QED
    BY <1>2, <2>1, <2>2, LoggedStep, Zenon
<1>8. SummaryInv'
  BY <1>1, NoSummary, Zenon
<1> QED
  BY <1>3, <1>4, <1>5, <1>6, <1>7, <1>8, Zenon DEF RunnerInv

\* One event or none.
LEMMA RecordedIf ==
  ASSUME RunnerInv, NEW journal \in {"runner", "lease", "unit"}, NEW x \in Events, NEW c \in BOOLEAN,
         record(journal, IF c THEN << x >> ELSE << >>), admitted' = admitted
  PROVE  /\ log' \in Seq(Events) /\ stopped' \subseteq {"runner", "lease", "unit"}
         /\ \E E \in SUBSET {x} : Adds(E)
         /\ Clean' => Clean
<1>1. (IF c THEN << x >> ELSE << >>) \in Seq(Events)
  OBVIOUS
<1>2. {e \in Events : In(e, IF c THEN << x >> ELSE << >>)} \in SUBSET {x}
  BY EventsOf, Zenon
<1> QED
  BY <1>1, <1>2, Recorded, CleanBefore, Zenon DEF RunnerInv

\* Cleanup leaves a closure, with or without its files, or none (P7).
LEMMA cleanUpStep ==
  ASSUME RunnerInv, cleanUp
  PROVE  RunnerInv'
<1>1. PICK c \in BOOLEAN :
      /\ pc = "cleaning" /\ pc' = "finalizing" /\ manifest' = FALSE /\ noted' = FALSE
      /\ closure' \in [cleanup : {"none", "succeeded", "failed"}, audit : {"none", "clean", "not_clean"}, files : SUBSET Files]
      /\ record("runner", FailedIf(c, "CLEANUP"))
      /\ UNCHANGED <<admitted, now, gate, lease, units, cut, since, window, mode, active, status, safety, summary,
        finalized, aborted>>
  <2>1. CASE ~manifest
    <3>1. closure' = NoClosure /\ record("runner", FailedIf(TRUE, "CLEANUP"))
      BY <2>1, Zenon DEF cleanUp, FailedIf
    <3>2. NoClosure \in [cleanup : {"none", "succeeded", "failed"}, audit : {"none", "clean", "not_clean"}, files : SUBSET Files]
      BY Zenon DEF NoClosure
    <3> QED
      BY <3>1, <3>2, Zenon DEF cleanUp, Settled
  <2>2. CASE manifest
    <3>1. PICK o \in {"succeeded", "failed"}, a \in {"clean", "not_clean"}, lost \in SUBSET admitted.losable :
            /\ closure' = [cleanup |-> o, audit |-> a, files |-> Files \ lost]
            /\ record("runner", FailedIf(~(o = "succeeded" /\ {"cleanup", "audit"} \cap lost = {}), "CLEANUP"))
      BY <2>2, Zenon DEF cleanUp
    <3> QED
      BY <3>1, Zenon DEF cleanUp, Settled
  <2> QED
    BY <2>1, <2>2, Zenon DEF RunnerInv, TypeOK
<1>2. PICK E \in SUBSET {Failed("CLEANUP")} : log' \in Seq(Events) /\ stopped' \subseteq {"runner", "lease", "unit"} /\ Adds(E) /\ (Clean' => Clean)
  <2>1. Failed("CLEANUP") \in Events
    BY EventTypes, Zenon DEF Phases
  <2> QED
    BY <1>1, <2>1, RecordedIf, Zenon DEF FailedIf
<1>3. TypeOK'
  <2>1. (closure \in [cleanup : {"none", "succeeded", "failed"}, audit : {"none", "clean", "not_clean"}, files : SUBSET Files])'
    BY <1>1, Zenon
  <2>2. /\ admitted' \in Admitted /\ pc' = "finalizing" /\ lease' = lease /\ log' \in Seq(Events)
        /\ {noted, manifest, cut, finalized, aborted}' \subseteq BOOLEAN
        /\ stopped' \subseteq {"runner", "lease", "unit"}
    BY <1>1, <1>2, Zenon DEF RunnerInv, TypeOK
  <2>3. /\ (units \in Seq(Reports) /\ Len(units) <= Units)' /\ (summary \in LoggedReasons)'
        /\ (now \in 0 .. MaxTime /\ since \in 0 .. MaxTime /\ active \in 0 .. MaxTime)'
        /\ (gate \in Causes \cup {"none"} /\ window \in {"skipped", "complete", "shortened"})'
        /\ (mode \in {"none", "NORMAL", "EMERGENCY"} /\ safety \in {"none", "written", "unwritten"})'
        /\ (status \in {"none", "released", "recovery_required", "unverified"})'
        /\ lease' \in {"none", "confirmed", "uncertain", "losing", "lost"}
    BY <1>1 DEF RunnerInv, TypeOK, LoggedReasons, Kind, Units
  <2> QED
    BY <2>1, <2>2, <2>3, Zenon DEF TypeOK
<1>4. CleanInv'
  BY <1>1, <1>2, Zenon DEF RunnerInv, CleanInv, Handed, Units, Kind, Closing, Ending, Monitored
<1>5. GateInv'
  BY <1>1, <1>2, Zenon DEF RunnerInv, TypeOK, GateInv, Armed, Units, Closing, Ending, ActiveSteps, Causes
<1>6. ClosureInv'
  BY <1>1, <1>2, Zenon DEF RunnerInv, TypeOK, ClosureInv, GateInv, NoClosure, Armed, Closing, Ending, ActiveSteps
<1>7. LoggedInv'
  <2>1. Advances
    BY <1>1, <1>2, Zenon DEF RunnerInv, TypeOK, GateInv, ClosureInv, Advances, Armed, Closing, Ending, Monitored, ActiveSteps, Causes
  <2>2. Truthful(E)
    BY <1>1, <1>2, Zenon DEF RunnerInv, GateInv, Truthful, Armed, Closing, Ending, Monitored, Failed, Interrupted, Lease, Breached
  <2> QED
    BY <1>2, <2>1, <2>2, LoggedStep, Zenon
<1>8. SummaryInv'
  BY <1>1, NoSummary, Zenon
<1> QED
  BY <1>3, <1>4, <1>5, <1>6, <1>7, <1>8, Zenon DEF RunnerInv

\* The session settles the lease and journals how (#finalizeLease).
LEMMA finalizeLeaseStep ==
  ASSUME RunnerInv, finalizeLease
  PROVE  RunnerInv'
<1>1. PICK event \in {"RELEASED", "RECOVERY_REQUIRED", "RELEASE_FAILED", "STATE_UNVERIFIED"} :
      /\ pc = "finalizing" /\ pc' = "finalized" /\ lease # "losing"
      /\ event \in Settlements /\ record("lease", << Lease(event) >>) /\ status' = finalLeaseStatus(<< Lease(event) >>)
      /\ UNCHANGED <<admitted, now, gate, lease, noted, manifest, units, cut, since, window, mode, active, closure,
        safety, summary, finalized, aborted>>
  <2>1. Settlements \subseteq {"RELEASED", "RECOVERY_REQUIRED", "RELEASE_FAILED", "STATE_UNVERIFIED"}
    BY Zenon DEF Settlements
  <2> QED
    BY <2>1, Zenon DEF finalizeLease, Settled, execution, ending, journals
<1>2. /\ log' \in Seq(Events) /\ stopped' \subseteq {"runner", "lease", "unit"}
      /\ Adds({Lease(event)}) /\ (Clean' => Clean)
      /\ status' \in {"released", "recovery_required", "unverified"} /\ (status' = "released" => event = "RELEASED")
  <2>1. Lease(event) \in Events
    BY EventTypes, Zenon DEF LeaseEvents
  <2>2. status' \in {"released", "recovery_required", "unverified"} /\ (status' = "released" => event = "RELEASED")
    BY <1>1, FinalStatus, Zenon
  <2> QED
    BY <1>1, <2>1, <2>2, RecordedOne, CleanBefore, Zenon DEF RunnerInv
<1>3. TypeOK'
  BY <1>1, <1>2, RunnerAssumption DEF RunnerInv, TypeOK, ActiveSteps, LoggedReasons, Kind, Units, Causes
<1>4. CleanInv'
  BY <1>1, <1>2, Zenon DEF RunnerInv, CleanInv, Handed, Units, Kind, Closing, Ending, Monitored
<1>5. GateInv'
  BY <1>1, <1>2, Zenon DEF RunnerInv, TypeOK, GateInv, Armed, Units, Closing, Ending, ActiveSteps, Causes
<1>6. ClosureInv'
  BY <1>1, <1>2, Zenon DEF RunnerInv, TypeOK, ClosureInv, GateInv, NoClosure, Armed, Closing, Ending, ActiveSteps, Settlements, closureOf
<1>7. LoggedInv'
  <2>1. Advances
    BY <1>1, <1>2, Zenon DEF RunnerInv, TypeOK, GateInv, ClosureInv, Advances, Armed, Closing, Ending, Monitored, ActiveSteps, Causes
  <2>2. Truthful({Lease(event)})
    BY <1>1, <1>2, Zenon DEF RunnerInv, GateInv, Truthful, Armed, Closing, Ending, Monitored, Failed, Interrupted, Lease, Breached
  <2> QED
    BY <1>2, <2>1, <2>2, LoggedStep, Zenon
<1>8. SummaryInv'
  BY <1>1, NoSummary, Zenon
<1> QED
  BY <1>3, <1>4, <1>5, <1>6, <1>7, <1>8, Zenon DEF RunnerInv

\* A lease that could not be settled is a failed phase (P8).
LEMMA LeaseFinalizedStep ==
  ASSUME RunnerInv, LeaseFinalized
  PROVE  RunnerInv'
<1>1. /\ pc = "finalized" /\ pc' = "summary"
      /\ record("runner", FailedIf(status = "unverified", "LEASE_FINALIZATION"))
      /\ UNCHANGED <<admitted, now, gate, lease, noted, manifest, units, cut, since, window, mode, active, closure,
        status, safety, summary, finalized, aborted>>
  BY Zenon DEF LeaseFinalized, Settled, execution, ending, journals
<1>2. PICK E \in SUBSET {Failed("LEASE_FINALIZATION")} : log' \in Seq(Events) /\ stopped' \subseteq {"runner", "lease", "unit"} /\ Adds(E) /\ (Clean' => Clean)
  <2>1. Failed("LEASE_FINALIZATION") \in Events
    BY EventTypes, Zenon DEF Phases
  <2> QED
    BY <1>1, <2>1, RecordedIf, Zenon DEF FailedIf
<1>3. TypeOK'
  BY <1>1, <1>2, RunnerAssumption DEF RunnerInv, TypeOK, ActiveSteps, LoggedReasons, Kind, Units, Causes
<1>4. CleanInv'
  BY <1>1, <1>2, Zenon DEF RunnerInv, CleanInv, Handed, Units, Kind, Closing, Ending, Monitored
<1>5. GateInv'
  BY <1>1, <1>2, Zenon DEF RunnerInv, TypeOK, GateInv, Armed, Units, Closing, Ending, ActiveSteps, Causes
<1>6. ClosureInv'
  BY <1>1, <1>2, Zenon DEF RunnerInv, TypeOK, ClosureInv, GateInv, NoClosure, Armed, Closing, Ending, ActiveSteps
<1>7. LoggedInv'
  <2>1. Advances
    BY <1>1, <1>2, Zenon DEF RunnerInv, TypeOK, GateInv, ClosureInv, Advances, Armed, Closing, Ending, Monitored, ActiveSteps, Causes
  <2>2. Truthful(E)
    BY <1>1, <1>2, Zenon DEF RunnerInv, GateInv, Truthful, Armed, Closing, Ending, Monitored, Failed, Interrupted, Lease, Breached
  <2> QED
    BY <1>2, <2>1, <2>2, LoggedStep, Zenon
<1>8. SummaryInv'
  BY <1>1, NoSummary, Zenon
<1> QED
  BY <1>3, <1>4, <1>5, <1>6, <1>7, <1>8, Zenon DEF RunnerInv

\* The safety checks are journaled when the lease was held (P9).
LEMMA assessSafetyStep ==
  ASSUME RunnerInv, assessSafety
  PROVE  RunnerInv'
<1>1. /\ pc = "summary" /\ pc' = "summarize" /\ safety' \in {"none", "written", "unwritten"}
      /\ \/ log' = log /\ stopped' = stopped
         \/ record("runner", (IF active > ActiveMax THEN << Breached("ACTIVE_TIME") >> ELSE << >>)
                              \o (IF now > TotalMax THEN << Breached("TOTAL_TIME") >> ELSE << >>))
      /\ UNCHANGED <<admitted, now, gate, lease, noted, manifest, units, cut, since, window, mode, active, closure,
        status, summary, finalized, aborted>>
  BY Zenon DEF assessSafety, RunnerInv, TypeOK, Settled, execution, ending, journals
<1>2. PICK E \in SUBSET {Breached("ACTIVE_TIME"), Breached("TOTAL_TIME")} :
        log' \in Seq(Events) /\ stopped' \subseteq {"runner", "lease", "unit"} /\ Adds(E) /\ (Clean' => Clean)
  <2> DEFINE a == IF active > ActiveMax THEN << Breached("ACTIVE_TIME") >> ELSE << >>
             t == IF now > TotalMax THEN << Breached("TOTAL_TIME") >> ELSE << >>
  <2>1. a \in Seq(Events) /\ t \in Seq(Events)
    BY EventTypes DEF Boundaries
  <2>2. \A e : In(e, a \o t) <=> In(e, a) \/ In(e, t)
    BY <2>1, EventsOf, Zenon
  <2>3. (\A e : In(e, a) => e = Breached("ACTIVE_TIME")) /\ (\A e : In(e, t) => e = Breached("TOTAL_TIME"))
    BY EventsOf, Zenon
  <2> HIDE DEF a, t
  <2>4. a \o t \in Seq(Events)
    BY <2>1
  <2>5. CASE log' = log /\ stopped' = stopped
    BY <1>1, <2>5, NothingAdded, CleanBefore, Zenon DEF RunnerInv, TypeOK
  <2>6. CASE record("runner", a \o t)
    BY <1>1, <2>2, <2>3, <2>4, <2>6, Recorded, CleanBefore, Zenon DEF RunnerInv
  <2> QED
    BY <1>1, <2>5, <2>6, Zenon DEF a, t
<1>3. TypeOK'
  BY <1>1, <1>2, RunnerAssumption DEF RunnerInv, TypeOK, ActiveSteps, LoggedReasons, Kind, Units, Causes
<1>4. CleanInv'
  BY <1>1, <1>2, Zenon DEF RunnerInv, CleanInv, Handed, Units, Kind, Closing, Ending, Monitored
<1>5. GateInv'
  BY <1>1, <1>2, Zenon DEF RunnerInv, TypeOK, GateInv, Armed, Units, Closing, Ending, ActiveSteps, Causes
<1>6. ClosureInv'
  BY <1>1, <1>2, Zenon DEF RunnerInv, TypeOK, ClosureInv, GateInv, NoClosure, Armed, Closing, Ending, ActiveSteps
<1>7. LoggedInv'
  <2>1. Advances
    BY <1>1, <1>2, Zenon DEF RunnerInv, TypeOK, GateInv, ClosureInv, Advances, Armed, Closing, Ending, Monitored, ActiveSteps, Causes
  <2>2. Truthful(E)
    BY <1>1, <1>2, Zenon DEF RunnerInv, GateInv, Truthful, Armed, Closing, Ending, Monitored, Failed, Interrupted, Lease, Breached
  <2> QED
    BY <1>2, <2>1, <2>2, LoggedStep, Zenon
<1>8. SummaryInv'
  BY <1>1, NoSummary, Zenon
<1> QED
  BY <1>3, <1>4, <1>5, <1>6, <1>7, <1>8, Zenon DEF RunnerInv

\* What the workload ends with (WorkloadEvents).
LEMMA EventsOfWorkload ==
  ASSUME TypeOK, NEW reached \in BOOLEAN
  PROVE  /\ WorkloadEvents(reached) \in Seq(Events)
         /\ \A e : In(e, WorkloadEvents(reached)) <=>
              \/ /\ e = Failed("TRIALS")
                 /\ \/ interruption # "none"
                    \/ Kind = "TRANSPORT_PROBE" /\ (units = << >> \/ units[1].kind = "not_started")
                    \/ Kind # "TRANSPORT_PROBE" /\ \E i \in DOMAIN units : ~Frozen(units[i])
              \/ /\ e = Failed("PROBE_FREEZE") /\ Kind = "TRANSPORT_PROBE"
                 /\ reached /\ ~(Frozen(units[1]) /\ units[1].result)
<1> DEFINE unplayed == interruption # "none" \/ units = << >> \/ units[1].kind = "not_started"
           unfrozen == reached /\ ~(Frozen(units[1]) /\ units[1].result)
           incomplete == interruption # "none" \/ \E i \in DOMAIN units : ~Frozen(units[i])
           p == FailedIf(unplayed, "TRIALS")
           f == FailedIf(unfrozen, "PROBE_FREEZE")
           t == FailedIf(incomplete, "TRIALS")
<1>1. p \in Seq(Events) /\ f \in Seq(Events) /\ t \in Seq(Events)
  BY EventTypes DEF FailedIf, Phases
<1>2. /\ \A e : In(e, p) <=> unplayed /\ e = Failed("TRIALS")
      /\ \A e : In(e, f) <=> unfrozen /\ e = Failed("PROBE_FREEZE")
      /\ \A e : In(e, t) <=> incomplete /\ e = Failed("TRIALS")
  BY EventsOf, Zenon DEF FailedIf
<1>3. WorkloadEvents(reached) = IF Kind = "TRANSPORT_PROBE" THEN p \o f ELSE t
  BY Zenon DEF WorkloadEvents
<1>4. p \o f \in Seq(Events) /\ \A e : In(e, p \o f) <=> In(e, p) \/ In(e, f)
  <2> HIDE DEF p, f, t
  <2> QED
    BY <1>1, EventsOf
<1> HIDE DEF p, f, t
<1> QED
  BY <1>1, <1>2, <1>3, <1>4

\* The workload ends with its last unit or an interruption (P4, P5).
LEMMA EndWorkloadStep ==
  ASSUME RunnerInv, EndWorkload
  PROVE  RunnerInv'
<1>1. PICK reached \in BOOLEAN :
      /\ pc = "units" /\ (Len(units) = Units \/ ~mayStartTrial)
      /\ MayHaveReachedCheckpoint(reached) /\ noteInterruption(WorkloadEvents(reached))
      /\ \/ interruption = "none" /\ pc' = "monitor" /\ mode' = mode
         \/ interruption # "none" /\ pc' = "cleanup" /\ mode' = "EMERGENCY"
      /\ UNCHANGED <<admitted, now, lease, manifest, units, cut, since, window, active, closure, status, safety,
        summary, finalized, aborted>>
  BY Zenon DEF EndWorkload, Settled, execution, ending, journals
<1>2. /\ log' \in Seq(Events) /\ stopped' \subseteq {"runner", "lease", "unit"}
      /\ gate' = interruption /\ gate' \in Causes \cup {"none"} /\ noted' \in BOOLEAN /\ (gate # "none" => gate' # "none")
      /\ Adds(Notes(WorkloadEvents(reached)))
      /\ Clean' => Clean /\ interruption = "none" /\ ~noted' /\ \A e \in Stops(Kind) : ~In(e, WorkloadEvents(reached))
  <2>1. WorkloadEvents(reached) \in Seq(Events)
    BY EventsOfWorkload, Zenon DEF RunnerInv
  <2> QED
    BY <1>1, <2>1, Noted, Zenon
<1>3. TypeOK'
  BY <1>1, <1>2, RunnerAssumption DEF RunnerInv, TypeOK, ActiveSteps, LoggedReasons, Kind, Units, Causes
<1>4. CleanInv'
  <2> SUFFICES ASSUME Clean' PROVE CleanInv'
    BY Zenon DEF CleanInv
  <2>1. Clean /\ ~noted' /\ interruption = "none" /\ pc' = "monitor"
    BY <1>1, <1>2, Zenon
  <2>2. Failed("TRIALS") \in Stops(Kind) /\ (Kind = "TRANSPORT_PROBE" => Failed("PROBE_FREEZE") \in Stops(Kind))
    BY Zenon DEF Stops, Stopping
  <2>3. ~In(Failed("TRIALS"), WorkloadEvents(reached))
    BY <1>2, <2>2, Zenon
  <2>4. Kind = "TRANSPORT_PROBE" => ~In(Failed("PROBE_FREEZE"), WorkloadEvents(reached))
    BY <1>2, <2>2, Zenon
  <2>5. Len(units) = Units
    BY <1>1, <2>1, Zenon DEF RunnerInv, GateInv, Closing, Ending, mayStartTrial
  <2>6. \A i \in DOMAIN units : ~units[i].cut
    BY <2>1, Zenon DEF RunnerInv, CleanInv
  <2>7. \A i \in DOMAIN units : Kind # "TRANSPORT_PROBE" \/ units[i].result => Frozen(units[i])
    <3>1. CASE Kind # "TRANSPORT_PROBE"
      BY <2>3, <3>1, EventsOfWorkload, Zenon DEF RunnerInv
    <3>2. CASE Kind = "TRANSPORT_PROBE"
      <4>1. units # << >> /\ units[1].kind # "not_started"
        BY <2>3, <3>2, EventsOfWorkload, Zenon DEF RunnerInv
      <4>2. ~reached \/ (Frozen(units[1]) /\ units[1].result)
        BY <2>4, <3>2, EventsOfWorkload, Zenon DEF RunnerInv
      <4>3. DOMAIN units = {1}
        <5>1. Units = 1
          BY <3>2, RunnerAssumption, Zenon DEF RunnerInv, TypeOK, Kind, Units
        <5>2. units \in Seq(Reports)
          BY Zenon DEF RunnerInv, TypeOK
        <5> QED
          BY <2>5, <5>1, <5>2
      <4> QED
        BY <1>1, <3>2, <4>1, <4>2, <4>3, Zenon DEF MayHaveReachedCheckpoint
    <3> QED
      BY <3>1, <3>2, Zenon
  <2>8. Handed'
    BY <1>1, <2>5, <2>6, <2>7, Zenon DEF Handed, Units, Kind, Frozen
  <2> QED
    BY <1>1, <2>1, <2>6, <2>8, Zenon DEF RunnerInv, CleanInv, Closing, Ending, Monitored
<1>5. GateInv'
  BY <1>1, <1>2, Zenon DEF RunnerInv, TypeOK, GateInv, Armed, Units, Closing, Ending, ActiveSteps, Causes
<1>6. ClosureInv'
  BY <1>1, <1>2, Zenon DEF RunnerInv, TypeOK, ClosureInv, GateInv, NoClosure, Armed, Closing, Ending, ActiveSteps
<1>7. LoggedInv'
  <2>1. Advances
    BY <1>1, <1>2, Zenon DEF RunnerInv, TypeOK, GateInv, ClosureInv, Advances, Armed, Closing, Ending, Monitored, ActiveSteps, Causes
  <2>2. Truthful(Notes(WorkloadEvents(reached)))
    <3> DEFINE N == Notes(WorkloadEvents(reached))
    <3>1. \A e \in N : \/ e \in {Interrupted(c) : c \in Causes} /\ gate' # "none"
                       \/ e = Failed("TRIALS") /\ In(e, WorkloadEvents(reached))
                       \/ e = Failed("PROBE_FREEZE") /\ In(e, WorkloadEvents(reached))
      <4>1. \A e : In(e, WorkloadEvents(reached)) => e \in {Failed("TRIALS"), Failed("PROBE_FREEZE")}
        BY EventsOfWorkload, Zenon DEF RunnerInv
      <4>2. \A e \in N : In(e, WorkloadEvents(reached)) \/ (e \in {Interrupted(c) : c \in Causes} /\ gate' # "none")
        BY Zenon DEF Notes
      <4> HIDE DEF N
      <4> QED
        BY <4>1, <4>2, Zenon
    <3>2. Kind = "TRANSPORT_PROBE" /\ units # << >> => 1 \in DOMAIN units
      BY DEF RunnerInv, TypeOK
    <3>3. In(Failed("TRIALS"), WorkloadEvents(reached)) =>
            units = << >> \/ gate' # "none" \/ \E i \in DOMAIN units : ~Frozen(units[i])
      BY <1>2, <3>2, EventsOfWorkload, Zenon DEF RunnerInv, Frozen, Failed
    <3>4. In(Failed("PROBE_FREEZE"), WorkloadEvents(reached)) =>
            \E i \in DOMAIN units : ~(Frozen(units[i]) /\ units[i].result)
      BY <1>1, <3>2, EventsOfWorkload DEF RunnerInv, MayHaveReachedCheckpoint, Failed
    <3>5. pc' \in Monitored \cup Closing
      BY <1>1, Zenon DEF Monitored, Closing
    <3> HIDE DEF N
    <3>6. Truthful(N)
      BY <3>1, <3>3, <3>4, <3>5, Zenon DEF Truthful, Failed, Interrupted, Lease
    <3> QED
      BY <3>6, Zenon DEF N
  <2> QED
    BY <1>2, <2>1, <2>2, LoggedStep, Zenon
<1>8. SummaryInv'
  BY <1>1, NoSummary, Zenon
<1> QED
  BY <1>3, <1>4, <1>5, <1>6, <1>7, <1>8, Zenon DEF RunnerInv

\* A unit that was not started is handed over.
LEMMA NotStartedStep ==
  ASSUME RunnerInv, NotStarted
  PROVE  RunnerInv'
<1>1. PICK report \in Reports :
      /\ pc \in {"setup", "publish"} /\ pc' = "units"
      /\ units' = Append(units, report) /\ ~report.cut /\ cut' = FALSE
      /\ gate' \in {gate, interruption} /\ noted' = noted
      /\ UNCHANGED <<admitted, now, lease, log, stopped, manifest, since, window, mode, active, closure, status,
        safety, summary, finalized, aborted>>
  <2>1. [kind |-> "not_started", cut |-> FALSE, result |-> FALSE] \in Reports
    BY Zenon DEF Reports
  <2>2. ~[kind |-> "not_started", cut |-> FALSE, result |-> FALSE].cut
    BY Zenon
  <2> QED
    BY <2>1, <2>2, Zenon DEF NotStarted, EndUnit, Settled, ending, journals
<1>2. /\ units \in Seq(Reports) /\ Len(units) < Units /\ Units \in Nat
      /\ pc \notin Monitored \cup Closing \cup {"refused", "unresolved"}
  BY <1>1, RunnerAssumption, Zenon DEF RunnerInv, TypeOK, GateInv, Units, Monitored, Closing, Ending
<1>3. /\ units' \in Seq(Reports) /\ Len(units') = Len(units) + 1
      /\ \A i \in DOMAIN units' : units'[i] = report \/ (i \in DOMAIN units /\ units'[i] = units[i])
  BY <1>1, <1>2
<1>4. (Len(units) <= Units)' /\ gate' \in Causes \cup {"none"} /\ (gate # "none" => gate' # "none")
  BY <1>1, <1>2, <1>3 DEF RunnerInv, TypeOK, interruption, Units, Causes
<1>5. TypeOK'
  <2>1. /\ admitted' \in Admitted /\ pc' \in ActiveSteps /\ log' \in Seq(Events)
        /\ {noted, manifest, cut, finalized, aborted}' \subseteq BOOLEAN
        /\ stopped' \subseteq {"runner", "lease", "unit"}
        /\ lease' \in {"none", "confirmed", "uncertain", "losing", "lost"}
    BY <1>1, Zenon DEF RunnerInv, TypeOK, ActiveSteps
  <2>2. /\ (now \in 0 .. MaxTime /\ since \in 0 .. MaxTime /\ active \in 0 .. MaxTime)'
        /\ (window \in {"skipped", "complete", "shortened"} /\ mode \in {"none", "NORMAL", "EMERGENCY"})'
        /\ (status \in {"none", "released", "recovery_required", "unverified"})'
        /\ (safety \in {"none", "written", "unwritten"} /\ summary \in LoggedReasons)'
    BY <1>1, Zenon DEF RunnerInv, TypeOK, LoggedReasons, Kind
  <2>3. (closure \in [cleanup : {"none", "succeeded", "failed"}, audit : {"none", "clean", "not_clean"}, files : SUBSET Files])'
    BY <1>1, Zenon DEF RunnerInv, TypeOK
  <2> QED
    BY <1>3, <1>4, <2>1, <2>2, <2>3, Zenon DEF TypeOK
<1>6. CleanInv'
  <2>1. Clean' => Clean
    BY <1>1, Zenon DEF Clean, Logged, Kind
  <2>2. Clean => ~report.cut /\ noted' = noted
    BY <1>1, Zenon DEF RunnerInv, TypeOK, CleanInv
  <2>3. pc' \notin Monitored \cup Closing \cup {"refused", "unresolved"}
    BY <1>1, Zenon DEF Monitored, Closing, Ending
  <2> QED
    BY <1>1, <1>3, <2>1, <2>2, <2>3, Zenon DEF RunnerInv, CleanInv
<1>7. GateInv'
  BY <1>1, <1>2, <1>4, Zenon DEF RunnerInv, GateInv, Armed, Closing, Ending
<1>8. ClosureInv'
  BY <1>1, <1>2, Zenon DEF RunnerInv, ClosureInv, Armed, Closing, Ending
<1>9. LoggedInv'
  <2>1. \A e : Logged(e)' <=> Logged(e)
    BY <1>1, Zenon DEF Logged
  <2> QED
    BY <1>1, <1>2, <1>4, <2>1, Zenon DEF RunnerInv, LoggedInv, Closing, Ending, Monitored
<1>10. SummaryInv'
  BY <1>1, NoSummary, Zenon
<1> QED
  BY <1>5, <1>6, <1>7, <1>8, <1>9, <1>10, Zenon DEF RunnerInv

\* A unit is handed over with what its observation saw.
LEMMA FreezeUnitStep ==
  ASSUME RunnerInv, FreezeUnit
  PROVE  RunnerInv'
<1>1. PICK report \in Reports :
      /\ pc = "freeze" /\ pc' = "units"
      /\ units' = Append(units, report) /\ report.cut = cut /\ cut' = FALSE
      /\ noted' \in BOOLEAN /\ (~cut => noted' = noted) /\ gate' = gate
      /\ UNCHANGED <<admitted, now, lease, log, stopped, manifest, since, window, mode, active, closure, status,
        safety, summary, finalized, aborted>>
  BY Zenon DEF FreezeUnit, EndUnit, RunnerInv, TypeOK, Settled, execution, ending, journals
<1>2. /\ units \in Seq(Reports) /\ Len(units) < Units /\ Units \in Nat
      /\ pc \notin Monitored \cup Closing \cup {"refused", "unresolved"}
  BY <1>1, RunnerAssumption, Zenon DEF RunnerInv, TypeOK, GateInv, Units, Monitored, Closing, Ending
<1>3. /\ units' \in Seq(Reports) /\ Len(units') = Len(units) + 1
      /\ \A i \in DOMAIN units' : units'[i] = report \/ (i \in DOMAIN units /\ units'[i] = units[i])
  BY <1>1, <1>2
<1>4. (Len(units) <= Units)' /\ gate' \in Causes \cup {"none"} /\ (gate # "none" => gate' # "none")
  BY <1>1, <1>2, <1>3 DEF RunnerInv, TypeOK, interruption, Units, Causes
<1>5. TypeOK'
  <2>1. /\ admitted' \in Admitted /\ pc' \in ActiveSteps /\ log' \in Seq(Events)
        /\ {noted, manifest, cut, finalized, aborted}' \subseteq BOOLEAN
        /\ stopped' \subseteq {"runner", "lease", "unit"}
        /\ lease' \in {"none", "confirmed", "uncertain", "losing", "lost"}
    BY <1>1, Zenon DEF RunnerInv, TypeOK, ActiveSteps
  <2>2. /\ (now \in 0 .. MaxTime /\ since \in 0 .. MaxTime /\ active \in 0 .. MaxTime)'
        /\ (window \in {"skipped", "complete", "shortened"} /\ mode \in {"none", "NORMAL", "EMERGENCY"})'
        /\ (status \in {"none", "released", "recovery_required", "unverified"})'
        /\ (safety \in {"none", "written", "unwritten"} /\ summary \in LoggedReasons)'
    BY <1>1, Zenon DEF RunnerInv, TypeOK, LoggedReasons, Kind
  <2>3. (closure \in [cleanup : {"none", "succeeded", "failed"}, audit : {"none", "clean", "not_clean"}, files : SUBSET Files])'
    BY <1>1, Zenon DEF RunnerInv, TypeOK
  <2> QED
    BY <1>3, <1>4, <2>1, <2>2, <2>3, Zenon DEF TypeOK
<1>6. CleanInv'
  <2>1. Clean' => Clean
    BY <1>1, Zenon DEF Clean, Logged, Kind
  <2>2. Clean => ~report.cut /\ noted' = noted
    BY <1>1, Zenon DEF RunnerInv, TypeOK, CleanInv
  <2>3. pc' \notin Monitored \cup Closing \cup {"refused", "unresolved"}
    BY <1>1, Zenon DEF Monitored, Closing, Ending
  <2> QED
    BY <1>1, <1>3, <2>1, <2>2, <2>3, Zenon DEF RunnerInv, CleanInv
<1>7. GateInv'
  BY <1>1, <1>2, <1>4, Zenon DEF RunnerInv, GateInv, Armed, Closing, Ending
<1>8. ClosureInv'
  BY <1>1, <1>2, Zenon DEF RunnerInv, ClosureInv, Armed, Closing, Ending
<1>9. LoggedInv'
  <2>1. \A e : Logged(e)' <=> Logged(e)
    BY <1>1, Zenon DEF Logged
  <2> QED
    BY <1>1, <1>2, <1>4, <2>1, Zenon DEF RunnerInv, LoggedInv, Closing, Ending, Monitored
<1>10. SummaryInv'
  BY <1>1, NoSummary, Zenon
<1> QED
  BY <1>5, <1>6, <1>7, <1>8, <1>9, <1>10, Zenon DEF RunnerInv

\* The reasons a summary can give.
LEMMA ReasonTypes ==
  ASSUME TypeOK
  PROVE  TerminalReasonNow \in LoggedReasons
<1>1. Kind \in Kinds /\ log \in Seq(Events)
  BY RunnerAssumption, Zenon DEF TypeOK, Kind
<1>2. Len(log) \in Nat /\ DOMAIN log = 1 .. Len(log) /\ \A i \in 1 .. Len(log) : log[i] \in Events
  BY <1>1
<1>3. \A e \in Events : stoppingReason(Kind, e) \in LoggedReasons
  <2> SUFFICES ASSUME NEW e \in Events PROVE stoppingReason(Kind, e) \in LoggedReasons
    BY Zenon
  <2> USE DEF stoppingReason, LoggedReasons, Failed, Lease
  <2>1. CASE e \in {"phase"} \X Phases
    BY <2>1
  <2>2. CASE e \in {"interrupted"} \X Causes
    BY <2>2
  <2>3. CASE e \in {"lease"} \X LeaseEvents
    BY <2>3, Zenon DEF Causes
  <2>4. CASE e \in {"safety"} \X Boundaries
    BY <2>4
  <2> QED
    BY <2>1, <2>2, <2>3, <2>4, Zenon DEF Events
<1>4. CASE Kind # "VARIANT_VALIDATION"
  <2> DEFINE f == [i \in DOMAIN log |-> stoppingReason(Kind, log[i])]
             rest == IF ~AllResults THEN Incomplete(Kind)
                     ELSE closureCauseOf(CleanupFile, AuditFile,
                            IF \E i \in DOMAIN log : log[i] = Failed("SUMMARY") THEN "EVIDENCE_FINALIZATION_FAILED" ELSE "COMPLETED")
  <2>1. TerminalReasonNow = First(f, rest)
    BY <1>4, Zenon DEF TerminalReasonNow, deriveTerminalReason
  <2>2. rest \in LoggedReasons
    BY Zenon DEF LoggedReasons, closureCauseOf
  <2>3. DOMAIN f = 1 .. Len(log) /\ \A i \in 1 .. Len(log) : f[i] \in LoggedReasons
    BY <1>2, <1>3, Zenon
  <2> HIDE DEF f, rest
  <2> QED
    BY <1>2, <2>1, <2>2, <2>3, FirstGiven
<1>5. CASE Kind = "VARIANT_VALIDATION"
  <2> DEFINE causes == [i \in DOMAIN log |-> causeOf(log[i])]
             execution_ == [i \in DOMAIN log |-> IF causes[i] \in FINALIZATION_REASONS THEN "none" ELSE causes[i]]
             finalization == [i \in DOMAIN log |-> IF causes[i] \in FINALIZATION_REASONS THEN causes[i] ELSE "none"]
             leased == leaseCauseOf(finalLeaseStatus(log))
             late == First(finalization, leased)
             rest == closureCauseOf(CleanupFile, AuditFile, late)
  <2>1. TerminalReasonNow = First(execution_, rest)
    BY <1>5, Zenon DEF TerminalReasonNow, deriveValidationTerminalReason
  <2>2. leased \in LoggedReasons
    BY Zenon DEF leaseCauseOf, LoggedReasons
  <2>3. \A e \in Events : causeOf(e) \in LoggedReasons
    <3>1. \A e : causeOf(e) \in LoggedReasons \/ causeOf(e) = stoppingReason("VARIANT_VALIDATION", e)
      BY Zenon DEF causeOf, LoggedReasons, Causes
    <3> QED
      BY <1>3, <1>5, <3>1, Zenon
  <2>4. "none" \in LoggedReasons
    BY Zenon DEF LoggedReasons
  <2>5. /\ DOMAIN execution_ = 1 .. Len(log) /\ \A i \in 1 .. Len(log) : execution_[i] \in LoggedReasons
        /\ DOMAIN finalization = 1 .. Len(log) /\ \A i \in 1 .. Len(log) : finalization[i] \in LoggedReasons
    BY <1>2, <2>3, <2>4, Zenon
  <2> HIDE DEF causes, execution_, finalization, leased
  <2>6. late \in LoggedReasons
    BY <1>2, <2>2, <2>5, FirstGiven
  <2>7. rest \in LoggedReasons
    BY <2>6, Zenon DEF closureCauseOf, LoggedReasons
  <2> HIDE DEF rest
  <2> QED
    BY <1>2, <2>1, <2>5, <2>7, FirstGiven
<1> QED
  BY <1>4, <1>5, Zenon

\* A summary that comes to COMPLETED is true of the execution (TerminalReasonNow).
LEMMA CompletedSummary ==
  ASSUME RunnerInv, pc = "summarize", TerminalReasonNow = "COMPLETED"
  PROVE  /\ CleanupFile = "succeeded" /\ AuditFile = "clean" /\ (Kind # "VARIANT_VALIDATION" => AllResults)
         /\ stopped = {} => /\ Handed /\ mode = "NORMAL" /\ window = "complete" /\ ~aborted
                            /\ \A i \in DOMAIN units : Frozen(units[i])
<1>1. Kind \in Kinds /\ log \in Seq(Events) /\ AllResults \in BOOLEAN
  BY RunnerAssumption, Zenon DEF RunnerInv, TypeOK, Kind, AllResults
<1>2. /\ CleanupFile = "succeeded" /\ AuditFile = "clean" /\ (Kind # "VARIANT_VALIDATION" => AllResults)
      /\ \A e \in Stops(Kind) : ~In(e, log)
  <2>1. CASE Kind = "VARIANT_VALIDATION"
    BY <1>1, <2>1, DerivedValidation DEF TerminalReasonNow
  <2>2. CASE Kind # "VARIANT_VALIDATION"
    BY <1>1, <2>2, DerivedReason DEF TerminalReasonNow
  <2> QED
    BY <2>1, <2>2, Zenon
<1>3. ASSUME stopped = {}
      PROVE  /\ Handed /\ mode = "NORMAL" /\ window = "complete" /\ ~aborted
             /\ \A i \in DOMAIN units : Frozen(units[i])
  <2>1. Clean
    BY <1>2, <1>3, Zenon DEF Clean, Logged
  <2>2. Handed /\ mode = "NORMAL" /\ window = "complete" /\ ~aborted
    BY <2>1, Zenon DEF RunnerInv, CleanInv, Closing, Ending
  <2>3. Kind = "TRANSPORT_PROBE" => \A i \in DOMAIN units : units[i].result
    BY <1>2, Zenon DEF AllResults
  <2> QED
    BY <2>2, <2>3, Zenon DEF Handed
<1> QED
  BY <1>2, <1>3, Zenon

\* The other way round: an execution that the runner saw through, with its results
\* and a clean closure in memory, has journals and files that say COMPLETED.
LEMMA SummaryCompleted ==
  ASSUME RunnerInv, pc = "summarize", Kind # "VARIANT_VALIDATION", AllResults, stopped = {}, gate = "none",
         \A i \in DOMAIN units : Frozen(units[i]),
         closure.cleanup = "succeeded", closure.audit = "clean", status \notin {"unverified", "recovery_required"}
  PROVE  TerminalReasonNow = "COMPLETED"
<1>1. Kind \in Kinds /\ log \in Seq(Events) /\ AllResults \in BOOLEAN
  BY RunnerAssumption, Zenon DEF RunnerInv, TypeOK, Kind, AllResults
<1>2. Armed /\ status = "released"
  BY Zenon DEF RunnerInv, TypeOK, ClosureInv, Ending
<1>3. lease \notin {"losing", "lost"}
  BY Zenon DEF RunnerInv, GateInv, ClosureInv, Ending
<1>4. CleanupFile = "succeeded" /\ AuditFile = "clean"
  <2>1. closureOf(closure)
    BY <1>2, <1>3, Zenon DEF RunnerInv, ClosureInv
  <2> QED
    BY <2>1, Zenon DEF closureOf, CleanupFile, AuditFile
<1>5. units # << >> /\ \A i \in DOMAIN units : Frozen(units[i]) /\ units[i].result
  <2>1. Units \in Nat \ {0} /\ Len(units) = Units
    BY RunnerAssumption, Zenon DEF RunnerInv, TypeOK, Units, AllResults
  <2>2. units # << >>
    BY <2>1, Zenon
  <2> QED
    BY <2>2, Zenon DEF AllResults
<1>6. /\ \A c \in Causes : ~Logged(Interrupted(c))
      /\ ~Logged(Lease("LOST")) /\ ~Logged(Lease("ACQUISITION_FAILED")) /\ ~Logged(Failed("LEASE_ACQUISITION"))
      /\ ~Logged(Failed("PROVISIONING")) /\ ~Logged(Failed("READINESS"))
      /\ ~Logged(Failed("TRIALS")) /\ ~Logged(Failed("PROBE_FREEZE")) /\ ~Logged(Failed("SUMMARY"))
  BY <1>2, <1>3, <1>5, Zenon DEF RunnerInv, LoggedInv
<1>7. \A e \in Stops(Kind) : ~Logged(e)
  BY <1>6, Zenon DEF Stops, Stopping
<1>8. ~In(Failed("SUMMARY"), log) /\ \A e \in Stops(Kind) : ~In(e, log)
  BY <1>6, <1>7, Zenon DEF Logged
<1>9. PICK frozen \in BOOLEAN : frozen = AllResults
  BY <1>1, Zenon
<1>10. deriveTerminalReason(Kind, log, frozen, CleanupFile, AuditFile) = "COMPLETED"
  <2>1. deriveTerminalReason(Kind, log, frozen, CleanupFile, AuditFile) = "COMPLETED" <=>
           /\ frozen /\ CleanupFile = "succeeded" /\ AuditFile = "clean"
           /\ ~In(Failed("SUMMARY"), log)
           /\ \A e \in Stops(Kind) : ~In(e, log)
    BY <1>1, DerivedReason
  <2>2. frozen
    BY <1>9, Zenon
  <2> QED
    BY <1>4, <1>8, <2>1, <2>2, Zenon
<1> QED
  BY <1>9, <1>10, Zenon DEF TerminalReasonNow

\* The summary is derived from the package and written, and its phase journaled (P9).
LEMMA WriteSummaryStep ==
  ASSUME RunnerInv, WriteSummary
  PROVE  RunnerInv'
<1>1. /\ pc = "summarize" /\ pc' = "index"
      /\ summary' = TerminalReasonNow \/ summary' = summary
      /\ record("runner", FailedIf(summary' = "none" \/ safety = "unwritten", "SUMMARY"))
      /\ UNCHANGED <<admitted, now, gate, lease, noted, manifest, units, cut, since, window, mode, active, closure,
        status, safety, finalized, aborted>>
  BY Zenon DEF WriteSummary, Settled, execution, ending, journals
<1>2. PICK E \in SUBSET {Failed("SUMMARY")} : log' \in Seq(Events) /\ stopped' \subseteq {"runner", "lease", "unit"} /\ Adds(E) /\ (Clean' => Clean)
  <2>1. Failed("SUMMARY") \in Events
    BY EventTypes, Zenon DEF Phases
  <2> QED
    BY <1>1, <2>1, RecordedIf, Zenon DEF FailedIf
<1>3. TypeOK'
  BY <1>1, <1>2, RunnerAssumption, ReasonTypes DEF RunnerInv, TypeOK, ActiveSteps, LoggedReasons, Kind, Units, Causes
<1>4. CleanInv'
  BY <1>1, <1>2, Zenon DEF RunnerInv, CleanInv, Handed, Units, Kind, Closing, Ending, Monitored
<1>5. GateInv'
  BY <1>1, <1>2, Zenon DEF RunnerInv, TypeOK, GateInv, Armed, Units, Closing, Ending, ActiveSteps, Causes
<1>6. ClosureInv'
  BY <1>1, <1>2, Zenon DEF RunnerInv, TypeOK, ClosureInv, GateInv, NoClosure, Armed, Closing, Ending, ActiveSteps
<1>7. LoggedInv'
  <2>1. Advances
    BY <1>1, <1>2, Zenon DEF RunnerInv, TypeOK, GateInv, ClosureInv, Advances, Armed, Closing, Ending, Monitored, ActiveSteps, Causes
  <2>2. Truthful(E)
    BY <1>1, <1>2, Zenon DEF RunnerInv, GateInv, Truthful, Armed, Closing, Ending, Monitored, Failed, Interrupted, Lease, Breached
  <2> QED
    BY <1>2, <2>1, <2>2, LoggedStep, Zenon
<1>8. SummaryInv'
  <2>1. summary = "none"
    BY <1>1, Zenon DEF RunnerInv, SummaryInv
  <2>2. stopped' = {} => stopped = {}
    BY <1>2, Zenon DEF Adds
  <2>3. CompletedIsTrue'
    <3> SUFFICES ASSUME summary' = "COMPLETED" PROVE CompletedIsTrue'
      BY Zenon DEF CompletedIsTrue
    <3>1. TerminalReasonNow = "COMPLETED"
      BY <1>1, <2>1, Zenon
    <3>2. CleanupFile' = CleanupFile /\ AuditFile' = AuditFile /\ Units' = Units /\ Kind' = Kind
      BY <1>1, Zenon DEF CleanupFile, AuditFile, Units, Kind
    <3>3. AllResults' <=> AllResults
      BY <1>1, Zenon DEF AllResults, Units
    <3> QED
      BY <1>1, <2>2, <3>1, <3>2, <3>3, CompletedSummary, Zenon DEF CompletedIsTrue, Handed, Frozen
  <2>4. AllResults' <=> AllResults
    BY <1>1, Zenon DEF AllResults, Units
  <2> QED
    BY <1>1, <2>1, <2>2, <2>3, <2>4, SummaryCompleted, Zenon DEF SummaryInv, Kind, Frozen
<1> QED
  BY <1>3, <1>4, <1>5, <1>6, <1>7, <1>8, Zenon DEF RunnerInv
-----------------------------------------------------------------------------
(* The theorems. *)

\* Before the first await nothing is held, logged or decided.
LEMMA RunnerInitially == Init => RunnerInv
<1> SUFFICES ASSUME Init PROVE RunnerInv
  BY Zenon
<1>1. TypeOK
  <2>1. closure \in [cleanup : {"none", "succeeded", "failed"}, audit : {"none", "clean", "not_clean"}, files : SUBSET Files]
    BY Zenon DEF Init, NoClosure
  <2>2. units \in Seq(Reports) /\ Len(units) <= Units /\ log \in Seq(Events)
    BY RunnerAssumption DEF Init, Units
  <2>3. 0 \in 0 .. MaxTime
    BY RunnerAssumption
  <2>4. {noted, manifest, cut, finalized, aborted} \subseteq BOOLEAN /\ pc \in ActiveSteps /\ summary \in LoggedReasons
    BY Zenon DEF Init, ActiveSteps, LoggedReasons
  <2> QED
    BY <2>1, <2>2, <2>3, <2>4, Zenon DEF Init, TypeOK
<1>2. \A e : ~Logged(e)
  BY EventsOf, Zenon DEF Init, Logged
<1>3. CleanInv /\ GateInv
  BY DEF Init, CleanInv, GateInv, Monitored, Closing, Ending, Armed
<1>4. ClosureInv
  BY Zenon DEF Init, ClosureInv, NoClosure, Ending
<1>5. LoggedInv /\ SummaryInv
  BY <1>2, Zenon DEF Init, LoggedInv, SummaryInv, CompletedIsTrue
<1> QED
  BY <1>1, <1>3, <1>4, <1>5, Zenon DEF RunnerInv

\* Every step of the runner, and everything that happens to it, keeps the invariant.
LEMMA RunnerStepKeeps == RunnerInv /\ [Next]_vars => RunnerInv'
<1> SUFFICES ASSUME RunnerInv, [Next]_vars PROVE RunnerInv'
  BY Zenon
<1>1. CASE RunnerStep
  BY <1>1, SkipAcquisitionStep, AcquireStep, AcquiredStep, NotAcquiredStep, AcquisitionFailedStep, ProvisionStep, EnterReadinessStep, confirmReadinessStep, PlanUnitsStep, StartUnitStep, PassGateStep, PublishStep, NotStartedStep, SettleStep, CutUnitStep, FreezeUnitStep, EndWorkloadStep, StartMonitoringStep, observeWindowStep, JudgeMonitoringStep, markActiveEndedStep, cleanUpStep, finalizeLeaseStep, LeaseFinalizedStep, assessSafetyStep, WriteSummaryStep, finalizePackageStep, Zenon
     DEF RunnerStep
<1>2. CASE Sigint \/ Beat \/ LoseLease \/ ReportLoss \/ Tick
  BY <1>2, SigintStep, BeatStep, LoseLeaseStep, ReportLossStep, TickStep, Zenon
<1>3. CASE UNCHANGED vars
  <2>1. UNCHANGED <<admitted, pc, now, gate, lease, log, stopped, noted, manifest, units, cut, since, window, mode,
                    active, closure, status, safety, summary, finalized, aborted>>
    BY <1>3, Zenon DEF vars, execution, ending
  <2>2. TypeOK'
    BY <2>1 DEF RunnerInv, TypeOK, LoggedReasons, Kind, Units
  <2>3. Quiet
    BY <2>1, Zenon DEF RunnerInv, Quiet, TypeOK
  <2>4. GateInv'
    BY <2>1, Zenon DEF RunnerInv, GateInv, Armed, Units
  <2> QED
    BY <2>2, <2>3, <2>4, QuietStep, Zenon
<1> QED
  BY <1>1, <1>2, <1>3, Zenon DEF Next, Done

\* The inductive invariant of the runner: its types, what clean journals prove at
\* each step, what is latched where, what the closure rests on, what the logged
\* events stand for and what a written summary says (ExecutionRunner.run).
THEOREM RunnerInvariant == Spec => []RunnerInv
BY RunnerInitially, RunnerStepKeeps, PTL DEF Spec

\* The types of the runner's state, gate, journals and package (TypeOK).
THEOREM RunnerTypes == Spec => []TypeOK
<1>1. RunnerInv => TypeOK
  BY Zenon DEF RunnerInv
<1> QED
  BY <1>1, RunnerInvariant, PTL

\* A summary that says COMPLETED tells the truth, for any executions, limits, losses
\* of journals and files, and interruptions (deriveRunTerminalReason and the runner).
THEOREM RunnerCompletedIsTrue == Spec => []CompletedIsTrue
<1>1. RunnerInv => CompletedIsTrue
  BY Zenon DEF RunnerInv, SummaryInv
<1> QED
  BY <1>1, RunnerInvariant, PTL

\* A lease that was held and not lost is released only when the package proves the
\* closure (closureOf, finalizeLease).
THEOREM RunnerReleasedIsProvable == Spec => []ReleasedIsProvable
<1>1. RunnerInv => ReleasedIsProvable
  BY Zenon DEF RunnerInv, ClosureInv, ReleasedIsProvable, closureOf, CleanupFile, AuditFile
<1> QED
  BY <1>1, RunnerInvariant, PTL

\* The exit code, derived from the runner's memory, agrees with the summary, derived
\* from the journals and files (executionVerdict, TerminalReasonNow).
THEOREM RunnerExitAgreesWithSummary == Spec => []ExitAgreesWithSummary
<1>1. RunnerInv => ExitAgreesWithSummary
  <2> SUFFICES ASSUME RunnerInv, pc = "done", executionVerdict = "completed", Kind # "VARIANT_VALIDATION",
                      AllResults, stopped = {}, summary # "none"
               PROVE  summary = "COMPLETED"
    BY Zenon DEF ExitAgreesWithSummary
  <2>1. closureVerdict = "completed" /\ workloadVerdict = "completed" /\ (Held \/ gate # "none")
    BY Zenon DEF executionVerdict, closureVerdict
  <2>2. gate = "none" /\ \A i \in DOMAIN units : Frozen(units[i])
    BY <2>1, Zenon DEF workloadVerdict
  <2>3. /\ status \notin {"unverified", "recovery_required"}
        /\ closure.cleanup # "none" => closure.cleanup = "succeeded" /\ closure.audit = "clean"
    BY <2>1, Zenon DEF closureVerdict
  <2>4. closure.cleanup # "none"
    BY <2>1, <2>2, <2>3, Zenon DEF Held
  <2> QED
    BY <2>2, <2>3, <2>4, Zenon DEF RunnerInv, SummaryInv
<1> QED
  BY <1>1, RunnerInvariant, PTL
=============================================================================
