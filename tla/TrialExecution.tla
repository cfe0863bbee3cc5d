--------------------------- MODULE TrialExecution ---------------------------
(***************************************************************************)
(* One declared trial from its preconditions to its frozen evidence        *)
(* (TrialExecutor): setup, publication, the observer's polling loop,       *)
(* collection, the pre-freeze recheck and the freeze, while the published  *)
(* message is processed and the execution may be interrupted.              *)
(*                                                                         *)
(* `world' is what the trial does behind the journals.  Every read of a    *)
(* round and of a collection is a step of its own, so the trial goes on    *)
(* between them.  The time starts at the publication.                      *)
(***************************************************************************)
EXTENDS Settlement

CONSTANTS
  MaxEvents,    \* bound on the events of each journal of the trial
  RedriveDelay, \* no message is dead-lettered earlier: its visibility timeout runs first
  MaxClock      \* bound on the clock, beyond the observation deadline

ASSUME ClockAssumption == MaxEvents \in Nat /\ RedriveDelay \in Nat /\ MaxClock \in Nat /\ MaxClock > ObservationDeadline

VARIABLES
  step,         \* where the executor is
  gateOpen,     \* lease confirmed and safety headroom
  interrupted,  \* the latched interruption of the execution
  message,      \* whether the trial message is on the source queue
  world,        \* what the trial did so far
  now,
  wake,         \* the instant the observer sleeps until
  rounds,       \* the settlement samples since the last active one
  reading,      \* the round being read
  buffer,       \* the collected evidence
  report        \* the executor's result

vars == <<step, gateOpen, interrupted, message, world, now, wake, rounds, reading, buffer, report>>

\* The steps of execute and #setUp, in their order.  What one of them writes is told
\* apart by nothing below: it is confirmed, or it is the refusal that ends the setup.
SetupSteps == <<"preconditions", "inputs", "partitions", "control", "arm", "warmup", "gate", "publish">>
Steps == {SetupSteps[i] : i \in DOMAIN SetupSteps}
         \cup {"observe", "sleep", "callerJournal", "experimentJournal", "ledger", "queues",
               "collectLedger", "collectJournals", "freeze", "done"}

Phases == {"observation", "pre_freeze_recheck"}

\* `unread' (quiet, though a journal was not read) is history.
Sample ==
  [at : 0 .. MaxClock, phase : Phases, quiet : BOOLEAN, dlq : BOOLEAN, watermark : Nat, ledger : Nat, unread : BOOLEAN]

Reading ==
  [at : 0 .. MaxClock, phase : Phases, ledgerComplete : BOOLEAN, idle : BOOLEAN, terminal : BOOLEAN,
   watermark : Nat, ledger : Nat, read : BOOLEAN]

NoReading ==
  [at |-> 0, phase |-> "observation", ledgerComplete |-> FALSE, idle |-> FALSE, terminal |-> FALSE,
   watermark |-> 0, ledger |-> 0, read |-> TRUE]

NoBuffer == [complete |-> FALSE, events |-> 0, ledger |-> 0, final |-> FALSE]
NoReport == [kind |-> "none", established |-> FALSE, interruption |-> FALSE]
Calm == [caller |-> 0, provider |-> 0, ledger |-> 0, active |-> FALSE, finished |-> FALSE, dlq |-> FALSE]

TypeOK ==
  /\ step \in Steps
  /\ gateOpen \in BOOLEAN /\ interrupted \in BOOLEAN /\ message \in BOOLEAN
  /\ world \in [caller : 0 .. MaxEvents, provider : 0 .. MaxEvents, ledger : 0 .. MaxEvents,
                active : BOOLEAN, finished : BOOLEAN, dlq : BOOLEAN]
  /\ now \in 0 .. MaxClock /\ wake \in 0 .. MaxClock + PollInterval
  /\ rounds \in Seq(Sample) /\ reading \in Reading
  /\ buffer \in [complete : BOOLEAN, events : 0 .. 2 * MaxEvents, ledger : 0 .. MaxEvents, final : BOOLEAN]
  /\ report \in [kind : {"none", "not_started", "frozen", "freeze_failed"},
                 established : BOOLEAN, interruption : BOOLEAN]

Init ==
  /\ step = "preconditions"
  /\ gateOpen = TRUE /\ interrupted = FALSE /\ message = FALSE
  /\ world = Calm
  /\ now = 0 /\ wake = 0
  /\ rounds = <<>> /\ reading = NoReading
  /\ buffer = NoBuffer
  /\ report = NoReport

-----------------------------------------------------------------------------
(* What happens around the executor. *)

\* The lease or the safety supervisor closes the gate, or opens it again.
GateMoves ==
  /\ step \in {SetupSteps[i] : i \in DOMAIN SetupSteps} \ {"publish"}
  /\ gateOpen' = ~gateOpen
  /\ UNCHANGED <<step, interrupted, message, world, now, wake, rounds, reading, buffer, report>>

\* ExecutionGate latches the first interruption; it is read at these steps.
Interrupt ==
  /\ ~interrupted /\ step \in {"preconditions", "gate", "observe", "sleep", "collectJournals"}
  /\ interrupted' = TRUE
  /\ UNCHANGED <<step, gateOpen, message, world, now, wake, rounds, reading, buffer, report>>

\* Time passes within a round or a collection as well; the clock is not read there,
\* so it may as well pass after a round and at the last step of a collection that a
\* recheck follows.
Tick ==
  /\ step \in {"observe", "sleep", "collectJournals"} /\ ~buffer.final
  /\ now < MaxClock
  /\ now' = now + 1
  /\ UNCHANGED <<step, gateOpen, interrupted, message, world, wake, rounds, reading, buffer, report>>

\* Whatever the trial does while nothing is read, it may as well do before the
\* next read.
WorldMoves(w) ==
  /\ message
  /\ step \in {"callerJournal", "experimentJournal", "ledger", "queues", "collectLedger", "collectJournals"}
  /\ world' = w
  /\ UNCHANGED <<step, gateOpen, interrupted, message, now, wake, rounds, reading, buffer, report>>

\* A caller appends an event to its journal; one of them records FINISHED.  The
\* callers and the provider are modelled step by step in ConventionalVariant,
\* DurableVariant and RefundProvider; here any of their events may come at any time.
CallerEvent ==
  /\ world.caller < MaxEvents
  /\ \E finished \in {TRUE, world.finished} :
       WorldMoves([world EXCEPT !.caller = @ + 1, !.finished = finished])

\* A provider or controller event opens or closes a call; a commit writes the
\* ledger in the transaction of its event.
ProviderEvent ==
  /\ world.provider < MaxEvents
  /\ \E active \in BOOLEAN, ledger \in {world.ledger, world.ledger + 1} :
       WorldMoves([world EXCEPT !.provider = @ + 1, !.active = active, !.ledger = ledger])

DeadLetter ==
  /\ ~world.dlq /\ now >= RedriveDelay
  /\ WorldMoves([world EXCEPT !.dlq = TRUE])

-----------------------------------------------------------------------------
(* T1 to T6. *)

NotStarted ==
  /\ report' = [NoReport EXCEPT !.kind = "not_started"]
  /\ step' = "done"

gateClosed == ~gateOpen \/ interrupted

\* The first refused step ends the setup: the gate decides two of them, a write,
\* a read or a warm-up that is not confirmed the others.
SetUp ==
  \E i \in 1 .. Len(SetupSteps) - 1 :
    /\ step = SetupSteps[i]
    /\ \/ /\ step \in {"preconditions", "gate"} => ~gateClosed
          /\ step' = SetupSteps[i + 1]
          /\ UNCHANGED report
       \/ /\ step = "gate" => gateClosed
          /\ NotStarted
    /\ UNCHANGED <<gateOpen, interrupted, message, world, now, wake, rounds, reading, buffer>>

\* An ambiguous send may be on the queue, so the trial counts as started.
Started(sent) == sent \in {"sent", "ambiguous"}

\* The file of the message is written first; then a definitive 4xx rejects it.
Publish ==
  /\ step = "publish"
  /\ \E sent \in {"unwritten", "rejected", "sent", "ambiguous"} :
       /\ \E landed \in BOOLEAN :
            /\ sent = "sent" => landed
            /\ sent \in {"unwritten", "rejected"} => ~landed
            /\ message' = landed
       /\ IF Started(sent) THEN step' = "observe" /\ UNCHANGED report ELSE NotStarted
  /\ UNCHANGED <<gateOpen, interrupted, world, now, wake, rounds, reading, buffer>>

-----------------------------------------------------------------------------
(* T7 to T9: observe, collect, recheck. *)

StartCollection(final) == step' = "collectLedger" /\ buffer' = [NoBuffer EXCEPT !.final = final]

StopInterrupted == StartCollection(TRUE) /\ report' = [report EXCEPT !.interruption = TRUE]

PollsLeft == nextPollMs(now) <= ObservationDeadline

\* The top of the polling loop.
Observe ==
  /\ step = "observe"
  /\ \/ interrupted /\ StopInterrupted /\ UNCHANGED wake
     \/ /\ ~interrupted /\ ~PollsLeft
        /\ StartCollection(TRUE)
        /\ UNCHANGED <<wake, report>>
     \/ /\ ~interrupted /\ PollsLeft
        /\ wake' = nextPollMs(now)
        /\ step' = "sleep"
        /\ UNCHANGED <<buffer, report>>
  /\ UNCHANGED <<gateOpen, interrupted, message, world, now, rounds, reading>>

StartRound(phase) == step' = "callerJournal" /\ reading' = [NoReading EXCEPT !.at = now, !.phase = phase]

WakeUp ==
  /\ step = "sleep" /\ now >= wake
  /\ wake' = 0
  /\ \/ interrupted /\ StopInterrupted /\ UNCHANGED reading
     \/ ~interrupted /\ StartRound("observation") /\ UNCHANGED <<buffer, report>>
  /\ UNCHANGED <<gateOpen, interrupted, message, world, now, rounds>>

\* A failed read yields no events; `read' remembers it for the watermark.
ReadCallerJournal ==
  /\ step = "callerJournal"
  /\ step' = "experimentJournal"
  /\ \/ reading' = [reading EXCEPT !.terminal = world.finished, !.watermark = world.caller]
     \/ reading' = [reading EXCEPT !.read = FALSE]
  /\ UNCHANGED <<gateOpen, interrupted, message, world, now, wake, rounds, buffer, report>>

\* The provider journal and the treatment item tell whether the provider is idle.
ReadExperimentJournal ==
  /\ step = "experimentJournal"
  /\ step' = "ledger"
  /\ \/ reading' = [reading EXCEPT !.idle = ~world.active, !.watermark = @ + world.provider]
     \/ reading' = [reading EXCEPT !.idle = TRUE, !.read = FALSE]
  /\ UNCHANGED <<gateOpen, interrupted, message, world, now, wake, rounds, buffer, report>>

ReadLedger ==
  /\ step = "ledger"
  /\ step' = "queues"
  /\ \/ reading' = [reading EXCEPT !.ledgerComplete = TRUE, !.ledger = world.ledger]
     \/ UNCHANGED reading
  /\ UNCHANGED <<gateOpen, interrupted, message, world, now, wake, rounds, buffer, report>>

\* Faulty variant: the watermark of an unread journal stays as it was read.
WatermarkAsRead(s) == s.watermark

\* An unread journal raises the watermark above the previous sample's.
Watermark(s) ==
  LET floor == (IF rounds = <<>> THEN 0 ELSE rounds[Len(rounds)].watermark) + 1
  IN  IF s.read \/ s.watermark > floor THEN s.watermark ELSE floor

\* buildSettlementSample: a captured dead letter is terminal evidence as well.
BuildSample(unit, dlq) ==
  LET q == Quiet([unit |-> unit, ledgerComplete |-> reading.ledgerComplete, idle |-> reading.idle,
                  terminal |-> reading.terminal \/ dlq])
  IN  [at |-> reading.at, phase |-> reading.phase, dlq |-> dlq, watermark |-> Watermark(reading),
       ledger |-> reading.ledger, quiet |-> q, unread |-> q /\ ~reading.read]

\* An active sample restarts the judgement and matters only as the previous one of
\* the next sample, so what came before it is not kept.
Kept(all) ==
  LET last == all[Len(all)]
  IN  IF InTime(last) /\ Active(all, Len(all)) THEN <<[last EXCEPT !.quiet = FALSE]>> ELSE all

\* The approximate counters may show anything; a dead letter is received only
\* when they show one.  The sample is built and judged.
ReadQueues ==
  /\ step = "queues"
  /\ \E unit \in {"quiet", "busy", "unavailable"}, dlq \in {FALSE, world.dlq} :
       LET s == BuildSample(unit, dlq)
           all == Kept(Append(rounds, s))
       IN  /\ rounds' = all
           /\ \/ /\ s.phase = "observation" /\ windowComplete(all)
                 /\ StartCollection(FALSE)
                 /\ UNCHANGED report
              \/ /\ s.phase = "observation" /\ ~windowComplete(all)
                 /\ step' = "observe"
                 /\ UNCHANGED <<buffer, report>>
              \/ /\ s.phase = "pre_freeze_recheck"
                 /\ step' = IF Established(evaluateSettlement(all)) THEN "freeze" ELSE "observe"
                 /\ UNCHANGED <<buffer, report>>
  /\ reading' = NoReading
  /\ UNCHANGED <<gateOpen, interrupted, message, world, now, wake>>

\* A collection that misses a part counts as none.
CollectLedger ==
  /\ step = "collectLedger"
  /\ step' = "collectJournals"
  /\ \/ buffer' = [buffer EXCEPT !.complete = TRUE, !.ledger = world.ledger]
     \/ UNCHANGED buffer
  /\ UNCHANGED <<gateOpen, interrupted, message, world, now, wake, rounds, reading, report>>

\* After the last observation the trial freezes; otherwise the interruption is
\* read once more and the recheck begins.
AfterCollection ==
  \/ buffer.final /\ step' = "freeze" /\ UNCHANGED <<reading, report>>
  \/ ~buffer.final /\ interrupted /\ step' = "freeze" /\ report' = [report EXCEPT !.interruption = TRUE]
     /\ UNCHANGED reading
  \/ ~buffer.final /\ ~interrupted /\ StartRound("pre_freeze_recheck") /\ UNCHANGED report

CollectJournals ==
  /\ step = "collectJournals"
  /\ \/ buffer.complete /\ buffer' = [buffer EXCEPT !.events = world.caller + world.provider]
     \/ buffer' = [NoBuffer EXCEPT !.final = buffer.final]
  /\ AfterCollection
  /\ UNCHANGED <<gateOpen, interrupted, message, world, now, wake, rounds>>

\* T10 and T11: what the executor reports of the freeze, with the judgement it froze
\* (a failed freeze has it in its settlement_assessed event only).  Only an index
\* that is not built or written fails it.  Its files, its derivation and its index
\* are modelled in LateCapture, TrialEvaluation and PackageAmendments.
Freeze ==
  /\ step = "freeze"
  /\ step' = "done"
  /\ \E kind \in {"frozen", "freeze_failed"} :
       report' = [report EXCEPT !.kind = kind, !.established = Established(evaluateSettlement(rounds))]
  /\ UNCHANGED <<gateOpen, interrupted, message, world, now, wake, rounds, reading, buffer>>

Execute ==
  \/ SetUp \/ Publish
  \/ Observe \/ WakeUp
  \/ ReadCallerJournal \/ ReadExperimentJournal \/ ReadLedger \/ ReadQueues
  \/ CollectLedger \/ CollectJournals
  \/ Freeze

Next ==
  \/ Execute
  \/ GateMoves \/ Interrupt \/ Tick
  \/ CallerEvent \/ ProviderEvent \/ DeadLetter

Spec == Init /\ [][Next]_vars

-----------------------------------------------------------------------------
TheWindow == evaluateSettlement(rounds)

\* What was collected is what the quiet recheck saw: nothing that a settled trial
\* did is missing from its frozen buffer (recheckBeforeFreeze, D-32).  A trial
\* whose execution was interrupted before that recheck "freezes unsettled".
EstablishedIsCollected ==
  report.established =>
    /\ ~report.interruption
    /\ buffer.complete =>
         LET recheck == rounds[TheWindow.recheck]
         IN  buffer.events = recheck.watermark /\ buffer.ledger = recheck.ledger

\* An established window has its full length, ends before the deadline, and saw no
\* event and no commit of the trial from its first reads to those of the recheck.
\* A window that starts at a sample with unread journals is excepted (see
\* UnreadIsActive).
EstablishedWasQuiet ==
  report.established =>
    LET start == rounds[TheWindow.windowStart]
        recheck == rounds[TheWindow.recheck]
    IN  /\ recheck.at <= ObservationDeadline
        /\ recheck.at - start.at >= Stabilization
        /\ ~recheck.unread
        /\ ~start.unread => start.watermark = recheck.watermark /\ start.ledger = recheck.ledger

\* A trial whose message is on the queue, whatever SQS answered, is never reported
\* as not started: it is observed and frozen (D-29, publishTrialMessage).
PublishedIsFrozen == report.kind = "not_started" => ~message

\* "A journal or treatment read that fails raises the correlated-event watermark
\* above the previous sample's, so the round counts as CORRELATED_JOURNAL_ACTIVITY"
\* (settlement-reading.ts:11-12).
UnreadIsActive == \A i \in DOMAIN rounds : rounds[i].unread => Active(rounds, i)

\* The observer gives up: a sample taken after the observation deadline is the
\* last one, whatever woke it late, restarted the window or failed to be read
\* (observeSettlement, nextPollMs).
LateIsLast == \A i \in 1 .. Len(rounds) - 1 : InTime(rounds[i])
=============================================================================
