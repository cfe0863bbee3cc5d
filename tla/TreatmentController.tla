------------------------ MODULE TreatmentController -------------------------
(***************************************************************************)
(* The treatment controller: a Lambda function fed, one record at a time   *)
(* and in order, by the stream of the caller journal.  A record whose      *)
(* handling faults is retried; one that keeps faulting goes to the failure *)
(* queue and is never handled again.                                       *)
(***************************************************************************)
EXTENDS TreatmentItem

CONSTANT MaxTries   \* invocations per stream record: 1 + maximum_retry_attempts

ASSUME TriesAssumption == MaxTries \in Nat \ {0}

VARIABLES
  stream,            \* attempts whose caller_timeout_recorded insert is yet to be handled
  ctrl,              \* the controller invocation
  controllerEvents   \* decisions recorded in the experiment journal

controllerVars == <<stream, ctrl, controllerEvents>>

Decisions == {"signal", "duplicate_ignored", "conflict", "late_rejected", "before_commit_rejected",
              "not_targeted_rejected", "control_trial_rejected"}

IdleController == [step |-> "idle", decision |-> "signal", tries |-> 0]

ControllerTypeOK ==
  /\ stream \in Seq(Attempts)
  /\ ctrl \in [step : {"idle", "signal", "append", "redecidedToSignal"}, decision : Decisions,
               tries : 0 .. MaxTries - 1]
  /\ controllerEvents \subseteq [attempt : Attempts, decision : Decisions]

ControllerInit ==
  /\ stream = <<>>
  /\ ctrl = IdleController
  /\ controllerEvents = {}

-----------------------------------------------------------------------------
\* decideSignal for the caller event of attempt `a' in an experiment partition.
decideSignal(a, item) ==
  IF scenario = "CONTROL"
  THEN "control_trial_rejected"
  ELSE CASE item.state = "ARMED" -> "before_commit_rejected"
         [] item.state = "SAFETY_RELEASED" -> "late_rejected"
         [] item.state = "COMMITTED_WAITING" -> IF a = item.owner THEN "signal" ELSE "not_targeted_rejected"
         [] item.state \in {"TIMEOUT_SIGNALLED", "TIMEOUT_OBSERVED", "RESPONSE_RELEASED"} ->
              IF a = item.signal THEN "duplicate_ignored" ELSE "conflict"

RecordHandled ==
  /\ stream' = Tail(stream)
  /\ ctrl' = IdleController

\* The invocation failed: the event source mapping retries the record, and
\* moves on after the last try.
RetryRecord ==
  IF ctrl.tries + 1 < MaxTries
  THEN /\ ctrl' = [IdleController EXCEPT !.tries = ctrl.tries + 1]
       /\ UNCHANGED stream
  ELSE RecordHandled

\* #plan: the treatment is read and the decision made.
Plan ==
  /\ stream # <<>>
  /\ ctrl.step = "idle"
  /\ LET decision == decideSignal(Head(stream), treatment)
     IN  ctrl' = [ctrl EXCEPT !.decision = decision,
                              !.step = IF decision = "signal" THEN "signal" ELSE "append"]
  /\ UNCHANGED <<stream, controllerEvents, scenario, treatment>>

\* #signal: the treatment update and the signal record in one transaction,
\* conditioned on the wait and on the targeted attempt.
SignalCondition(a) == treatment.state = "COMMITTED_WAITING" /\ treatment.owner = a

Signal ==
  /\ ctrl.step = "signal"
  /\ LET a == Head(stream)
     IN  \E o \in WriteOutcomes(SignalCondition(a)) :
           /\ IF Landed(o)
              THEN /\ treatment' = [MovedTo("TIMEOUT_SIGNALLED") EXCEPT !.signal = a]
                   /\ controllerEvents' = controllerEvents \cup {[attempt |-> a, decision |-> "signal"]}
              ELSE UNCHANGED <<treatment, controllerEvents>>
           /\ CASE o = "applied" -> RecordHandled
                [] o = "condition_failed" ->
                     LET again == decideSignal(a, treatment)
                     IN  /\ ctrl' = [ctrl EXCEPT !.decision = again,
                                                 !.step = IF again = "signal" THEN "redecidedToSignal"
                                                          ELSE "append"]
                         /\ UNCHANGED stream
                [] o = "rejected" \/ IsAmbiguous(o) -> RetryRecord
  /\ UNCHANGED scenario

\* appendOrFail
AppendDecision ==
  /\ ctrl.step = "append"
  /\ \E o \in AppendOutcomes :
       /\ controllerEvents' = IF AppendLanded(o)
                              THEN controllerEvents \cup {[attempt |-> Head(stream), decision |-> ctrl.decision]}
                              ELSE controllerEvents
       /\ IF o = "appended" THEN RecordHandled ELSE RetryRecord
  /\ UNCHANGED <<scenario, treatment>>

\* A read fails, or the environment is lost, before the record is handled.
FaultController ==
  /\ stream # <<>>
  /\ RetryRecord
  /\ UNCHANGED <<controllerEvents, scenario, treatment>>

ControllerStep == Plan \/ Signal \/ AppendDecision \/ FaultController
=============================================================================
