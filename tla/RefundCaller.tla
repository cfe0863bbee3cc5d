---------------------------- MODULE RefundCaller ----------------------------
(***************************************************************************)
(* One caller invocation of either variant: the provider client's attempt  *)
(* (register, dispatch, race, record) inside the request-state protocol    *)
(* (reconcile orphans before the attempt, fold its class after it).  The   *)
(* variants add what starts an invocation and what follows its end.        *)
(*                                                                         *)
(* Durable state: the attempt-state items, the outcome and timeout events  *)
(* and the request-state item of one trial partition of the caller         *)
(* journal.  Volatile state: the running invocation `inv', which a crash   *)
(* erases.  `transport' and `effects' belong to the provider side, `queue' *)
(* and `valid' to the source of the trial message, which only the variants *)
(* move.                                                                   *)
(***************************************************************************)
EXTENDS AttemptLifecycle, FiniteSets

CONSTANTS
  Attempts,     \* identities performAttempt may draw (ids.next())
  NoAttempt,    \* no attempt drawn yet
  MaxReceiveCount   \* CONVENTIONAL_MAX_RECEIVE_COUNT or DURABLE_MAX_RECEIVE_COUNT, the redrive threshold

ASSUME CallerAssumption == NoAttempt \notin Attempts

ASSUME ReceiveAssumption == MaxReceiveCount \in Nat \ {0}

VARIABLES
  attemptState,   \* phase of each attempt-state item, "ABSENT" when there is none
  outcomeEvents,  \* resolution of each attempt_outcome_recorded event, None when absent
  timeoutEvents,  \* attempts with a durable caller_timeout_recorded event
  request,        \* the request-state item; version 0 when there is none
  inv,            \* the running invocation
  transport,      \* what the transport knows of each attempt's provider call
  effects,        \* attempts whose provider call committed its ledger transaction
  queue,          \* where the trial message is at its source, and how often it was received
  valid           \* whether validateDeliveredMessage accepts the message

\* The provider, as its callers may rely on it.
Provider == INSTANCE ProviderContract

callerDurable == <<attemptState, outcomeEvents, timeoutEvents, request>>
callerVars == <<attemptState, outcomeEvents, timeoutEvents, request, inv, transport, effects>>

None == [outcome |-> "NONE", dispatch |-> "NONE"]

Resolutions == [outcome : AttemptOutcomes, dispatch : DispatchStates]

Requests == [version : Nat, effect_knowledge : EffectKnowledge, attempt_ids : SUBSET Attempts,
             processing_state : ProcessingStates, reason : FinishReasons]

NoRequest == [version |-> 0, effect_knowledge |-> INITIAL_EFFECT_KNOWLEDGE, attempt_ids |-> {},
              processing_state |-> "NOT_STARTED", reason |-> "NONE"]

Steps == {"idle", "start", "reject", "rejectState", "rejectWrite", "reconcile", "reconcileWrite", "register",
          "dispatch", "notDispatched", "race", "timeout", "late", "outcome", "result",
          "resultWrite", "conclude", "thrown"}

Invocations == [step : Steps, stopped : BOOLEAN, attempt : Attempts \cup {NoAttempt},
                resolution : Resolutions \cup {None}, read : Requests, orphans : SUBSET Attempts,
                processing : ProcessingUpdates]

IdleInvocation == [step |-> "idle", stopped |-> FALSE, attempt |-> NoAttempt, resolution |-> None,
                   read |-> NoRequest, orphans |-> {}, processing |-> STILL_RUNNING]

TransportStates == {"IDLE", "SENT", "SUCCEEDED", "REJECTED", "FAULT"}

CallerTypeOK ==
  /\ attemptState \in [Attempts -> AttemptPhases \cup {"ABSENT"}]
  /\ outcomeEvents \in [Attempts -> Resolutions \cup {None}]
  /\ timeoutEvents \subseteq Attempts
  /\ request \in Requests
  /\ inv \in Invocations
  /\ transport \in [Attempts -> TransportStates]
  /\ effects \subseteq Attempts

CallerInit ==
  /\ attemptState = [a \in Attempts |-> "ABSENT"]
  /\ outcomeEvents = [a \in Attempts |-> None]
  /\ timeoutEvents = {}
  /\ request = NoRequest
  /\ inv = IdleInvocation
  /\ transport = [a \in Attempts |-> "IDLE"]
  /\ effects = {}

-----------------------------------------------------------------------------
At(step) == inv.step = step

Goto(step) == inv' = [inv EXCEPT !.step = step]

Throw == Goto("thrown")

\* A store read, a registry read or a validation the invocation cannot go on
\* without failed: the invocation throws its fault.
ReadFault ==
  /\ inv.step \in {"start", "rejectState", "reconcile", "result"}
  /\ Throw
  /\ UNCHANGED <<callerDurable, transport, effects>>

\* caller_invocation_started, then validateDeliveredMessage: the same message
\* body is judged the same way on every delivery.
StartInvocation(accepted) ==
  /\ At("start")
  /\ \E o \in AppendOutcomes :
       inv' = [inv EXCEPT !.stopped = o # "appended",
                          !.step = IF o # "appended" THEN "thrown"
                                   ELSE IF accepted THEN "reconcile" ELSE "reject"]
  /\ UNCHANGED <<callerDurable, transport, effects>>

\* trial_message_rejected
RejectMessage ==
  /\ At("reject")
  /\ \E o \in AppendOutcomes :
       inv' = [inv EXCEPT !.stopped = o # "appended",
                          !.step = IF o = "appended" THEN "rejectState" ELSE "thrown"]
  /\ UNCHANGED <<callerDurable, transport, effects>>

\* The transaction of #record: the journal put and the state item put, which is
\* conditioned on the version that was read.  `next' is where a recorded state
\* leads; every other result throws.
WriteState(planned, next) ==
  \E o \in WriteOutcomes(request.version = inv.read.version) :
    /\ request' = IF Landed(o) THEN planned ELSE request
    /\ inv' = [inv EXCEPT !.stopped = @ \/ IsAmbiguous(o),
                          !.step = IF o = "applied" THEN next ELSE "thrown"]

-----------------------------------------------------------------------------
\* Faulty variant: overlooks attempts whose outcome was never recorded.
OrphansOfRecorded(read) ==
  {a \in Attempts : outcomeEvents[a] # None /\ a \notin read.attempt_ids}

\* findOrphanAttempts: registered attempts the read state does not account for.
OrphansOf(read) ==
  {a \in Attempts : attemptState[a] # "ABSENT" /\ a \notin read.attempt_ids}

\* The class an orphan adds: its recorded outcome, otherwise its durable phase.
OrphanClass(a) ==
  IF outcomeEvents[a] # None
  THEN classifyOutcome(outcomeEvents[a].outcome, outcomeEvents[a].dispatch)
  ELSE classOfPhase(attemptState[a])

\* The orders in which the partition query may return a set of attempts: their
\* sort keys are random identifiers.
OrderingsOf(S) ==
  {s \in [1 .. Cardinality(S) -> S] : \A i, j \in 1 .. Cardinality(S) : s[i] = s[j] => i = j}

\* baseOf and planState
PlanState(read, ids, classes, processing) ==
  [version |-> read.version + 1,
   effect_knowledge |-> foldEffectKnowledge(read.effect_knowledge, classes),
   attempt_ids |-> read.attempt_ids \cup ids,
   processing_state |-> processing.state,
   reason |-> processing.reason]

\* recordMessageRejected: knowledge and attempts stay, processing is finished.
ReadForRejection ==
  /\ At("rejectState")
  /\ inv' = [inv EXCEPT !.read = request, !.processing = MESSAGE_REJECTED, !.step = "rejectWrite"]
  /\ UNCHANGED <<callerDurable, transport, effects>>

WriteRejection ==
  /\ At("rejectWrite")
  /\ WriteState(PlanState(inv.read, {}, <<>>, inv.processing), "conclude")
  /\ UNCHANGED <<attemptState, outcomeEvents, timeoutEvents, transport, effects>>

\* reconcileOrphans: the state read, the partition query and the decision.
Reconcile ==
  /\ At("reconcile")
  /\ inv' = [inv EXCEPT !.read = request,
                        !.orphans = OrphansOf(request),
                        !.step = IF OrphansOf(request) = {} THEN "register" ELSE "reconcileWrite"]
  /\ UNCHANGED <<callerDurable, transport, effects>>

ReconcileWrite ==
  /\ At("reconcileWrite")
  /\ \E order \in OrderingsOf(inv.orphans) :
       LET classes == [i \in 1 .. Len(order) |-> OrphanClass(order[i])]
       IN  WriteState(PlanState(inv.read, inv.orphans, classes, STILL_RUNNING), "register")
  /\ UNCHANGED <<attemptState, outcomeEvents, timeoutEvents, transport, effects>>

-----------------------------------------------------------------------------
\* performAttempt C1: a fresh identity, registered in its pre-dispatch phase.
Register ==
  /\ At("register")
  /\ \E a \in Attempts :
       /\ attemptState[a] = "ABSENT"
       /\ \E o \in WriteOutcomes(TRUE) :
            /\ attemptState' = IF Landed(o) THEN [attemptState EXCEPT ![a] = "PRE_DISPATCH"]
                               ELSE attemptState
            /\ inv' = [inv EXCEPT !.attempt = a, !.stopped = IsAmbiguous(o),
                                  !.step = IF o = "applied" THEN "dispatch" ELSE "thrown"]
  /\ UNCHANGED <<outcomeEvents, timeoutEvents, request, transport, effects>>

\* The resolution of an attempt that ends without a transport call.
FailedWith(dispatch) == [outcome |-> "FAILED", dispatch |-> dispatch]

\* C2: buildProviderCall refused the input, so nothing is dispatched.
BuildFailed ==
  /\ At("dispatch")
  /\ Goto("notDispatched")
  /\ UNCHANGED <<callerDurable, transport, effects>>

\* C3: the dispatch transition.  Only an applied one is followed by the
\* transport call, in the same synchronous step; a rejected one is recorded as
\* not dispatched; any other leaves dispatch unknown.  A crash between the write
\* and the call is the ambiguous outcome that landed, followed by a crash.
Dispatch ==
  /\ At("dispatch")
  /\ LET a == inv.attempt
     IN  \E o \in WriteOutcomes(attemptState[a] = "PRE_DISPATCH") :
           /\ attemptState' = IF Landed(o) THEN [attemptState EXCEPT ![a] = "DISPATCHED"]
                              ELSE attemptState
           /\ transport' = IF o = "applied" THEN [transport EXCEPT ![a] = "SENT"] ELSE transport
           /\ inv' = CASE o = "applied" -> [inv EXCEPT !.step = "race"]
                       [] o = "rejected" -> [inv EXCEPT !.step = "notDispatched"]
                       [] OTHER -> [inv EXCEPT !.stopped = IsAmbiguous(o), !.step = "outcome",
                                               !.resolution = FailedWith("UNKNOWN")]
  /\ UNCHANGED <<outcomeEvents, timeoutEvents, request, effects>>

\* #recordNotDispatched: only the applied transition proves non-dispatch.
RecordNotDispatched ==
  /\ At("notDispatched")
  /\ LET a == inv.attempt
     IN  \E o \in WriteOutcomes(attemptState[a] = "PRE_DISPATCH") :
           /\ attemptState' = IF Landed(o) THEN [attemptState EXCEPT ![a] = "NOT_DISPATCHED"]
                              ELSE attemptState
           /\ inv' = [inv EXCEPT !.stopped = IsAmbiguous(o), !.step = "outcome",
                                 !.resolution = FailedWith(IF o = "applied" THEN "NOT_DISPATCHED"
                                                           ELSE "UNKNOWN")]
  /\ UNCHANGED <<outcomeEvents, timeoutEvents, request, transport, effects>>

\* The outcomes of an attempt whose transport settled as `t': a well-formed
\* answer is taken at its word; a transport error, a function error or a
\* malformed answer is FAILED, and may hide anything the provider did.
parseProviderResponse(t) == {"FAILED"} \cup ({t} \cap {"SUCCEEDED", "REJECTED"})

\* The arbiter lets the transport win.
TransportWins ==
  /\ At("race")
  /\ \E outcome \in parseProviderResponse(transport[inv.attempt]) :
       inv' = [inv EXCEPT !.step = "outcome",
                          !.resolution = [outcome |-> outcome, dispatch |-> "DISPATCHED"]]
  /\ UNCHANGED <<callerDurable, transport, effects>>

\* The arbiter lets the timer win: the transport call is aborted (the provider
\* does not notice) and whatever it answers later is no longer read.
TimerWins ==
  /\ At("race")
  /\ Goto("timeout")
  /\ UNCHANGED <<callerDurable, transport, effects>>

\* Faulty variant: reports TIMED_OUT whether or not the event was recorded.
RecordTimeoutUnchecked ==
  /\ At("timeout")
  /\ \E o \in AppendOutcomes :
       /\ timeoutEvents' = IF AppendLanded(o) THEN timeoutEvents \cup {inv.attempt} ELSE timeoutEvents
       /\ inv' = [inv EXCEPT !.step = "late",
                             !.resolution = [outcome |-> "TIMED_OUT", dispatch |-> "DISPATCHED"]]
  /\ UNCHANGED <<attemptState, outcomeEvents, request, transport, effects>>

\* #recordTimeout: TIMED_OUT needs the durable caller_timeout_recorded event.
RecordTimeout ==
  /\ At("timeout")
  /\ \E o \in AppendOutcomes :
       /\ timeoutEvents' = IF AppendLanded(o) THEN timeoutEvents \cup {inv.attempt} ELSE timeoutEvents
       /\ inv' = IF o = "appended"
                 THEN [inv EXCEPT !.step = "late",
                                  !.resolution = [outcome |-> "TIMED_OUT", dispatch |-> "DISPATCHED"]]
                 ELSE [inv EXCEPT !.step = "outcome", !.stopped = TRUE,
                                  !.resolution = FailedWith("DISPATCHED")]
  /\ UNCHANGED <<attemptState, outcomeEvents, request, transport, effects>>

\* #recordLateSettlement: a settlement inside the grace is appended by kind
\* only, and the append may stop the journal; otherwise nothing is recorded.
RecordLateSettlement ==
  /\ At("late")
  /\ \E stopped \in BOOLEAN : inv' = [inv EXCEPT !.step = "outcome", !.stopped = stopped]
  /\ UNCHANGED <<callerDurable, transport, effects>>

\* attempt_outcome_recorded; without it the invocation throws JOURNAL_STOPPED.
RecordOutcome ==
  /\ At("outcome")
  /\ \E o \in IF inv.stopped THEN {"stopped_lost"} ELSE AppendOutcomes :
       /\ outcomeEvents' = IF AppendLanded(o)
                           THEN [outcomeEvents EXCEPT ![inv.attempt] = inv.resolution]
                           ELSE outcomeEvents
       /\ inv' = [inv EXCEPT !.stopped = o # "appended",
                             !.step = IF o = "appended" THEN "result" ELSE "thrown"]
  /\ UNCHANGED <<attemptState, timeoutEvents, request, transport, effects>>

\* The disposition is `complete' exactly when the processing decision is definitive.
Completes == inv.processing \notin {STILL_RUNNING, RETRIES_EXHAUSTED}

OutcomeClass == classifyOutcome(inv.resolution.outcome, inv.resolution.dispatch)

\* recordAttemptResult: the state read, with the processing the variant decided.
ReadForResult(processing) ==
  /\ At("result")
  /\ inv' = [inv EXCEPT !.read = request, !.processing = processing, !.step = "resultWrite"]
  /\ UNCHANGED <<callerDurable, transport, effects>>

WriteResult ==
  /\ At("resultWrite")
  /\ WriteState(PlanState(inv.read, {inv.attempt}, <<OutcomeClass>>, inv.processing), "conclude")
  /\ UNCHANGED <<attemptState, outcomeEvents, timeoutEvents, transport, effects>>

\* Every step of an invocation between its start and its end, with the
\* variant's judgement of the message and of the attempt.
InvocationStep(accepted, processing) ==
  \/ ReadFault
  \/ StartInvocation(accepted)
  \/ RejectMessage
  \/ ReadForRejection
  \/ WriteRejection
  \/ Reconcile
  \/ ReconcileWrite
  \/ Register
  \/ BuildFailed
  \/ Dispatch
  \/ RecordNotDispatched
  \/ TransportWins
  \/ TimerWins
  \/ RecordTimeout
  \/ RecordLateSettlement
  \/ RecordOutcome
  \/ ReadForResult(processing)
  \/ WriteResult

-----------------------------------------------------------------------------
Registered == {a \in Attempts : attemptState[a] # "ABSENT"}

AccountedEffects == request.attempt_ids \cap effects

\* The recorded effect knowledge is never contradicted by the ledger: whatever
\* crashed, was redelivered or was written ambiguously, a confirmed count is the
\* number of transactions the accounted attempts committed, and stays it while
\* their provider calls are still running (request-state-recorder baseOf over
\* EFFECT_KNOWLEDGE_TABLE; BR-RUA-004, BR-RUA-022).
KnowledgeSound ==
  /\ request.effect_knowledge \in {"NOT_ATTEMPTED", "NO_EFFECT_CONFIRMED"} => AccountedEffects = {}
  /\ request.effect_knowledge = "ONE_EFFECT_CONFIRMED" =>
       \E a \in Attempts : AccountedEffects = {a}
  /\ request.effect_knowledge = "MULTIPLE_EFFECTS_CONFIRMED" =>
       \E a, b \in AccountedEffects : a # b

\* "Each invocation reconciles before it attempts, so at most one orphan exists
\* at a time" (orphan-attempts.ts:13-15), crashes and ambiguous registrations
\* included.
AtMostOneOrphan ==
  \A a, b \in Registered \ request.attempt_ids : a = b

\* The durable dispatch boundary (BR-RUA-021): the transport is used only behind
\* a durable DISPATCHED phase, so a NOT_DISPATCHED phase, which the effect
\* knowledge reads as "no effect", is never contradicted by a provider call.
DispatchBoundary ==
  \A a \in Attempts : transport[a] # "IDLE" \/ a \in effects => attemptState[a] = "DISPATCHED"

\* A recorded TIMED_OUT outcome has its durable caller_timeout_recorded event
\* (BR-RUA-023), also when the journal stopped in between (#recordTimeout).
TimedOutIsDurable ==
  \A a \in Attempts : outcomeEvents[a].outcome = "TIMED_OUT" => a \in timeoutEvents

\* A request recorded as SUCCEEDED has a ledger transaction of an accounted
\* attempt behind it, whatever later deliveries did to the state.
SucceededHasEffect == request.reason = "SUCCEEDED" => AccountedEffects # {}

\* A message leaves the source by deletion only when every call that may have
\* reached the provider is accounted for, over all deliveries, step attempts and
\* re-runs: each invocation reconciles orphans before its own attempt and
\* completes only after the state write (consume and runStepAttempt, #attempt).
DeletedAccountsForAll ==
  queue.status = "deleted" =>
    \A a \in Attempts : transport[a] # "IDLE" \/ a \in effects => a \in request.attempt_ids

KnowledgeRank ==
  [NOT_ATTEMPTED |-> 0, NO_EFFECT_CONFIRMED |-> 1, ONE_EFFECT_CONFIRMED |-> 2,
   MULTIPLE_EFFECTS_CONFIRMED |-> 3, UNKNOWN |-> 4]

\* "nothing leaves UNKNOWN, and knowledge never moves back toward fewer confirmed
\* effects" (BR-RUA-022), over every state write of every delivery, and no
\* accounted attempt is ever dropped.
KnowledgeNeverRetreats ==
  [][/\ KnowledgeRank[request.effect_knowledge] <= KnowledgeRank[request'.effect_knowledge]
     /\ request.attempt_ids \subseteq request'.attempt_ids]_callerVars
=============================================================================
