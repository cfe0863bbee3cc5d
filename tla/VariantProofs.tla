--------------------------- MODULE VariantProofs ----------------------------
(***************************************************************************)
(* Both variants keep the caller invariant and what their retry layers add *)
(* to it, for any set of attempts, any redrive threshold and any number of *)
(* step attempts: a redelivery, and a step attempt that runs again under   *)
(* the same number, is one more invocation.                                *)
(***************************************************************************)
EXTENDS ConventionalVariant, DurableVariant, TLAPS, FiniteSetTheorems

\* A resolution is backed by what the provider or the durable phase settled.
Backed(a, r) ==
  /\ r \in Resolutions
  /\ r.outcome = "SUCCEEDED" => transport[a] = "SUCCEEDED"
  /\ r.outcome = "REJECTED" => transport[a] = "REJECTED"
  /\ r.outcome = "TIMED_OUT" => a \in timeoutEvents
  /\ r.outcome # "FAILED" => r.dispatch = "DISPATCHED"
  /\ r.outcome = "FAILED" /\ r.dispatch = "NOT_DISPATCHED" => attemptState[a] = "NOT_DISPATCHED"

\* Whether the attempt has a ledger transaction can no longer change.
Settled(a) == transport[a] \in {"SUCCEEDED", "REJECTED"} \/ attemptState[a] = "NOT_DISPATCHED"

AttemptingSteps == {"dispatch", "notDispatched", "race", "timeout", "late", "outcome", "result", "resultWrite"}

OrphanInv ==
  \A a, b \in Attempts :
    /\ attemptState[a] # "ABSENT" /\ a \notin request.attempt_ids
    /\ attemptState[b] # "ABSENT" /\ b \notin request.attempt_ids
    => a = b

AbsentInv == \A a \in Attempts : attemptState[a] = "ABSENT" => a \notin request.attempt_ids

ProviderInv ==
  \A a \in Attempts :
    /\ transport[a] = "SUCCEEDED" => a \in effects
    /\ transport[a] \in {"REJECTED", "IDLE"} => a \notin effects

BoundaryInv == \A a \in Attempts : transport[a] # "IDLE" => attemptState[a] = "DISPATCHED"

OutcomeInv == \A a \in Attempts : outcomeEvents[a] # None => Backed(a, outcomeEvents[a])

KnowledgeInv ==
  /\ request.effect_knowledge # "UNKNOWN" => \A a \in request.attempt_ids : Settled(a)
  /\ KnowledgeSound

ReadInv ==
  /\ inv.step \in {"rejectWrite", "reconcileWrite", "resultWrite"} => inv.read = request
  /\ inv.step = "reconcileWrite" => inv.orphans = OrphansOf(request) /\ inv.orphans # {}
  /\ inv.step = "register" => OrphansOf(request) = {}

AttemptInv ==
  /\ inv.step \in AttemptingSteps =>
       /\ inv.attempt \in Attempts
       /\ attemptState[inv.attempt] # "ABSENT"
       /\ inv.attempt \notin request.attempt_ids
  /\ inv.step \in {"dispatch", "notDispatched"} => transport[inv.attempt] = "IDLE"
  /\ inv.step \in {"late", "outcome", "result", "resultWrite"} => Backed(inv.attempt, inv.resolution)

StateInv == OrphanInv /\ AbsentInv /\ ProviderInv /\ BoundaryInv /\ OutcomeInv /\ KnowledgeInv

CallerInv == CallerTypeOK /\ StateInv /\ ReadInv /\ AttemptInv

-----------------------------------------------------------------------------
\* EFFECT_KNOWLEDGE_TABLE is total: a class never leads out of the vocabulary.
LEMMA NextKnowledgeType ==
  ASSUME NEW k \in EffectKnowledge, NEW c \in OutcomeClasses
  PROVE  nextEffectKnowledge(k, c) \in EffectKnowledge
BY DEF nextEffectKnowledge, EFFECT_KNOWLEDGE_TABLE, EffectKnowledge, OutcomeClasses

\* Folding no class leaves the knowledge as it was (foldEffectKnowledge).
LEMMA FoldNone ==
  ASSUME NEW k \in EffectKnowledge
  PROVE  foldEffectKnowledge(k, <<>>) = k
<1> DEFINE P(f) == f[0] = k /\ \A i \in 1 .. 0 : f[i] = nextEffectKnowledge(f[i - 1], <<>>[i])
<1>1. [i \in 0 .. 0 |-> k] \in [0 .. 0 -> EffectKnowledge] /\ P([i \in 0 .. 0 |-> k])
  OBVIOUS
<1>2. Len(<<>>) = 0
  BY Zenon
<1>3. foldEffectKnowledge(k, <<>>) = (CHOOSE f \in [0 .. 0 -> EffectKnowledge] : P(f))[0]
  BY <1>2, Zenon DEF foldEffectKnowledge
<1>4. P(CHOOSE f \in [0 .. 0 -> EffectKnowledge] : P(f))
  BY <1>1, Zenon
<1> QED
  BY <1>3, <1>4, Zenon

\* Folding one class is one step of the table (foldEffectKnowledge).
LEMMA FoldOne ==
  ASSUME NEW k \in EffectKnowledge, NEW c \in OutcomeClasses
  PROVE  foldEffectKnowledge(k, <<c>>) = nextEffectKnowledge(k, c)
<1> DEFINE next == nextEffectKnowledge(k, c)
           P(f) == f[0] = k /\ \A i \in 1 .. 1 : f[i] = nextEffectKnowledge(f[i - 1], <<c>>[i])
           g == [i \in 0 .. 1 |-> IF i = 0 THEN k ELSE next]
<1>1. next \in EffectKnowledge
  BY NextKnowledgeType, Zenon
<1>2. g \in [0 .. 1 -> EffectKnowledge]
  BY <1>1, Zenon
<1>3. P(g)
  <2>1. g[0] = k /\ g[1] = next
    OBVIOUS
  <2>2. \A i \in 1 .. 1 : i = 1
    OBVIOUS
  <2>3. <<c>>[1] = c
    BY Zenon
  <2> QED
    BY <2>1, <2>2, <2>3
<1>4. Len(<<c>>) = 1
  BY Zenon
<1>5. foldEffectKnowledge(k, <<c>>) = (CHOOSE f \in [0 .. 1 -> EffectKnowledge] : P(f))[1]
  BY <1>4, Zenon DEF foldEffectKnowledge
<1>6. P(CHOOSE f \in [0 .. 1 -> EffectKnowledge] : P(f))
  BY <1>2, <1>3, Zenon
<1>7. \A f : P(f) => f[1] = next
  <2>1. ASSUME NEW f, P(f) PROVE f[1] = next
    <3>1. f[0] = k /\ f[1] = nextEffectKnowledge(f[1 - 1], <<c>>[1])
      BY <2>1
    <3>2. 1 - 1 = 0 /\ <<c>>[1] = c
      OBVIOUS
    <3> QED
      BY <3>1, <3>2, Zenon
  <2> QED
    BY <2>1, Zenon
<1> QED
  BY <1>5, <1>6, <1>7, Zenon

-----------------------------------------------------------------------------
\* What the class of an attempt says about it is settled.
ClassBacked(a, c) ==
  /\ c = "SUCCESS" => transport[a] = "SUCCEEDED"
  /\ c = "REJECTION" => transport[a] = "REJECTED"
  /\ c = "PRE_DISPATCH_FAILURE" => attemptState[a] = "NOT_DISPATCHED"

\* A backed resolution classifies, and its class is backed (classifyOutcome).
LEMMA BackedClass ==
  ASSUME NEW a, NEW r, Backed(a, r)
  PROVE  /\ classifyOutcome(r.outcome, r.dispatch) \in OutcomeClasses
         /\ ClassBacked(a, classifyOutcome(r.outcome, r.dispatch))
BY Zenon DEF Backed, ClassBacked, classifyOutcome, OutcomeClasses, Resolutions, AttemptOutcomes, DispatchStates

\* The class of an orphan is backed, whether it comes from a recorded outcome
\* or from the durable phase (findOrphanAttempts).
LEMMA OrphanClassBacked ==
  ASSUME CallerTypeOK, OutcomeInv, NEW a \in Attempts, attemptState[a] # "ABSENT"
  PROVE  OrphanClass(a) \in OutcomeClasses /\ ClassBacked(a, OrphanClass(a))
<1>1. CASE outcomeEvents[a] # None
  BY <1>1, BackedClass, Zenon DEF OutcomeInv, OrphanClass
<1>2. CASE outcomeEvents[a] = None
  BY <1>2, Zenon DEF OrphanClass, classOfPhase, ClassBacked, OutcomeClasses
<1> QED
  BY <1>1, <1>2, Zenon

\* One orphan has one order, so its fold is that of one class (#orphansOf).
LEMMA SingleOrdering ==
  ASSUME NEW a, NEW order \in OrderingsOf({a})
  PROVE  [i \in 1 .. Len(order) |-> OrphanClass(order[i])] = <<OrphanClass(a)>>
<1>1. Cardinality({a}) = 1
  BY FS_Singleton, Zenon
<1>2. order \in [1 .. 1 -> {a}]
  BY <1>1, Zenon DEF OrderingsOf
<1>3. Len(order) = 1 /\ order[1] = a
  BY <1>2
<1>4. \A i \in 1 .. 1 : order[i] = a
  BY <1>2, Zenon
<1>5. [i \in 1 .. 1 |-> OrphanClass(order[i])] = [i \in 1 .. 1 |-> OrphanClass(a)]
  BY <1>4, Zenon
<1>6. [i \in 1 .. 1 |-> OrphanClass(a)] = <<OrphanClass(a)>>
  OBVIOUS
<1> QED
  BY <1>3, <1>5, <1>6, Zenon

\* Accounting for one more attempt by its class keeps the knowledge sound and
\* settled (baseOf and planState over EFFECT_KNOWLEDGE_TABLE).
LEMMA AccountOne ==
  ASSUME CallerTypeOK, StateInv,
         NEW a \in Attempts, a \notin request.attempt_ids,
         NEW c \in OutcomeClasses, ClassBacked(a, c),
         request'.effect_knowledge = nextEffectKnowledge(request.effect_knowledge, c),
         request'.attempt_ids = request.attempt_ids \cup {a},
         UNCHANGED <<attemptState, transport, effects>>
  PROVE  KnowledgeInv'
<1> DEFINE k == request.effect_knowledge
           AE == request.attempt_ids \cap effects
<1>t. k \in EffectKnowledge /\ request.attempt_ids \subseteq Attempts
  BY Zenon DEF CallerTypeOK, Requests
<1>1. CASE k = "UNKNOWN" \/ c = "AMBIGUOUS"
  <2>1. request'.effect_knowledge = "UNKNOWN"
    BY <1>1, <1>t DEF nextEffectKnowledge, EFFECT_KNOWLEDGE_TABLE, EffectKnowledge, OutcomeClasses
  <2> QED
    BY <2>1, Zenon DEF KnowledgeInv, KnowledgeSound
<1>2. CASE k # "UNKNOWN" /\ c # "AMBIGUOUS"
  <2>1. \A b \in request'.attempt_ids : Settled(b)'
    BY <1>2, Zenon DEF StateInv, KnowledgeInv, Settled, ClassBacked, OutcomeClasses
  <2>2. CASE c = "SUCCESS"
    <3>1. a \in effects /\ AccountedEffects' = AE \cup {a} /\ a \notin AE
      BY <2>2, Zenon DEF ClassBacked, StateInv, ProviderInv, AccountedEffects
    <3>2. CASE k \in {"NOT_ATTEMPTED", "NO_EFFECT_CONFIRMED"}
      <4>1. AE = {}
        BY <3>2, Zenon DEF StateInv, KnowledgeInv, KnowledgeSound, AccountedEffects
      <4>2. request'.effect_knowledge = "ONE_EFFECT_CONFIRMED"
        BY <2>2, <3>2 DEF nextEffectKnowledge, EFFECT_KNOWLEDGE_TABLE
      <4>3. AccountedEffects' = {a}
        BY <3>1, <4>1, Zenon
      <4> QED
        BY <2>1, <4>2, <4>3, Zenon DEF KnowledgeInv, KnowledgeSound
    <3>3. CASE k \in {"ONE_EFFECT_CONFIRMED", "MULTIPLE_EFFECTS_CONFIRMED"}
      <4>1. \E b \in AE : TRUE
        BY <3>3, Zenon DEF StateInv, KnowledgeInv, KnowledgeSound, AccountedEffects
      <4>2. request'.effect_knowledge = "MULTIPLE_EFFECTS_CONFIRMED"
        BY <2>2, <3>3 DEF nextEffectKnowledge, EFFECT_KNOWLEDGE_TABLE
      <4>3. \E x, y \in AccountedEffects' : x # y
        BY <3>1, <4>1
      <4> QED
        BY <2>1, <4>2, <4>3, Zenon DEF KnowledgeInv, KnowledgeSound
    <3> QED
      BY <1>2, <1>t, <3>2, <3>3, Zenon DEF EffectKnowledge
  <2>3. CASE c \in {"REJECTION", "PRE_DISPATCH_FAILURE"}
    <3>1. a \notin effects
      BY <2>3, Zenon DEF ClassBacked, StateInv, ProviderInv, BoundaryInv, CallerTypeOK, TransportStates
    <3>2. AccountedEffects' = AccountedEffects
      BY <3>1, Zenon DEF AccountedEffects
    <3>3. \/ request'.effect_knowledge = k
          \/ k = "NOT_ATTEMPTED" /\ request'.effect_knowledge = "NO_EFFECT_CONFIRMED"
      BY <1>2, <1>t, <2>3 DEF nextEffectKnowledge, EFFECT_KNOWLEDGE_TABLE, EffectKnowledge
    <3> QED
      BY <2>1, <3>2, <3>3, Zenon DEF StateInv, KnowledgeInv, KnowledgeSound
  <2> QED
    BY <1>2, <2>2, <2>3, Zenon DEF OutcomeClasses
<1> QED
  BY <1>1, <1>2, Zenon

-----------------------------------------------------------------------------
\* A step that changes only the invocation needs only its own facts.
LEMMA ControlStep ==
  ASSUME CallerInv, UNCHANGED <<callerDurable, transport, effects>>,
         inv' \in Invocations, ReadInv', AttemptInv'
  PROVE  CallerInv'
BY Zenon DEF CallerInv, CallerTypeOK, callerDurable, StateInv, OrphanInv, AbsentInv, ProviderInv, BoundaryInv,
       OutcomeInv, Backed, KnowledgeInv, Settled, KnowledgeSound, AccountedEffects

\* An invocation may start, end or crash at any time.
LEMMA Restart ==
  ASSUME CallerInv, UNCHANGED <<callerDurable, transport, effects>>,
         inv' = IdleInvocation \/ inv' = [IdleInvocation EXCEPT !.step = "start"]
  PROVE  CallerInv'
<1>1. IdleInvocation \in Invocations
  <2>1. NoRequest \in Requests
    BY Zenon DEF NoRequest, Requests, EffectKnowledge, INITIAL_EFFECT_KNOWLEDGE, ProcessingStates,
           FinishReasons
  <2>2. STILL_RUNNING \in ProcessingUpdates
    BY Zenon DEF ProcessingUpdates
  <2> QED
    BY <2>1, <2>2, Zenon DEF IdleInvocation, Invocations, Steps
<1>2. inv' \in Invocations
  BY <1>1, Zenon DEF Invocations, Steps
<1>3. inv'.step \in {"idle", "start"}
  BY DEF IdleInvocation
<1> QED
  BY <1>2, <1>3, ControlStep, Zenon DEF ReadInv, AttemptInv, AttemptingSteps

\* The steps that read, decide, or append events nothing here depends on.
LEMMA QuietSteps ==
  ASSUME CallerInv, NEW accepted, NEW p \in ProcessingUpdates,
         \/ ReadFault \/ StartInvocation(accepted) \/ RejectMessage \/ ReadForRejection \/ Reconcile
         \/ BuildFailed \/ TransportWins \/ TimerWins \/ RecordLateSettlement \/ ReadForResult(p)
  PROVE  CallerInv'
<1> USE DEF At, Goto, Throw, callerDurable
<1>0. inv \in Invocations /\ request \in Requests
  BY Zenon DEF CallerInv, CallerTypeOK
<1>1. CASE ReadFault
  <2>1. inv' = [inv EXCEPT !.step = "thrown"] /\ UNCHANGED <<callerDurable, transport, effects>>
    BY <1>1, Zenon DEF ReadFault
  <2> QED
    BY <1>0, <2>1, ControlStep, Zenon DEF Invocations, Steps, ReadInv, AttemptInv, AttemptingSteps
<1>2. CASE StartInvocation(accepted)
  <2>1. inv' \in Invocations /\ inv'.step \in {"thrown", "reconcile", "reject"}
    BY <1>0, <1>2, Zenon DEF StartInvocation, Invocations, Steps, AppendOutcomes
  <2> QED
    BY <1>2, <2>1, ControlStep, Zenon DEF StartInvocation, ReadInv, AttemptInv, AttemptingSteps
<1>3. CASE RejectMessage
  <2>1. inv' \in Invocations /\ inv'.step \in {"thrown", "rejectState"}
    BY <1>0, <1>3, Zenon DEF RejectMessage, Invocations, Steps, AppendOutcomes
  <2> QED
    BY <1>3, <2>1, ControlStep, Zenon DEF RejectMessage, ReadInv, AttemptInv, AttemptingSteps
<1>4. CASE ReadForRejection
  <2>1. inv' \in Invocations /\ inv'.step = "rejectWrite" /\ inv'.read = request
    BY <1>0, <1>4, Zenon DEF ReadForRejection, Invocations, Steps, ProcessingUpdates
  <2> QED
    BY <1>4, <2>1, ControlStep, Zenon DEF ReadForRejection, ReadInv, AttemptInv, AttemptingSteps
<1>5. CASE Reconcile
  <2>1. OrphansOf(request) \in SUBSET Attempts
    BY Zenon DEF OrphansOf
  <2>2. /\ inv' \in Invocations
        /\ inv'.read = request /\ inv'.orphans = OrphansOf(request)
        /\ inv'.step = IF OrphansOf(request) = {} THEN "register" ELSE "reconcileWrite"
    BY <1>0, <1>5, <2>1, Zenon DEF Reconcile, Invocations, Steps
  <2>3. OrphansOf(request)' = OrphansOf(request)
    BY <1>5, Zenon DEF Reconcile, OrphansOf
  <2> QED
    BY <1>5, <2>2, <2>3, ControlStep DEF Reconcile, ReadInv, AttemptInv, AttemptingSteps
<1>6. CASE BuildFailed
  <2>1. inv' = [inv EXCEPT !.step = "notDispatched"] /\ inv.step = "dispatch"
    BY <1>6, Zenon DEF BuildFailed
  <2> QED
    BY <1>0, <1>6, <2>1, ControlStep, Zenon
    DEF BuildFailed, CallerInv, Invocations, Steps, ReadInv, AttemptInv, AttemptingSteps
<1>7. CASE TransportWins
  <2>1. PICK outcome \in {"SUCCEEDED", "REJECTED", "FAILED"} :
          /\ outcome # "FAILED" => transport[inv.attempt] = outcome
          /\ inv' = [inv EXCEPT !.step = "outcome",
                                !.resolution = [outcome |-> outcome, dispatch |-> "DISPATCHED"]]
    BY <1>7, Zenon DEF TransportWins, parseProviderResponse
  <2>2. [outcome |-> outcome, dispatch |-> "DISPATCHED"] \in Resolutions
    BY Zenon DEF Resolutions, AttemptOutcomes, DispatchStates
  <2>3. /\ inv' \in Invocations /\ inv'.step = "outcome" /\ inv'.attempt = inv.attempt
        /\ inv'.resolution = [outcome |-> outcome, dispatch |-> "DISPATCHED"]
    BY <1>0, <2>1, <2>2, Zenon DEF Invocations, Steps
  <2>4. Backed(inv.attempt, inv.resolution)'
    BY <1>7, <2>1, <2>2, <2>3 DEF Backed, TransportWins, parseProviderResponse
  <2> QED
    BY <1>7, <2>3, <2>4, ControlStep, Zenon
    DEF TransportWins, parseProviderResponse, CallerInv, ReadInv, AttemptInv, AttemptingSteps, Backed
<1>8. CASE TimerWins
  <2>1. inv' = [inv EXCEPT !.step = "timeout"] /\ inv.step = "race"
    BY <1>8, Zenon DEF TimerWins
  <2> QED
    BY <1>0, <1>8, <2>1, ControlStep, Zenon
    DEF TimerWins, CallerInv, Invocations, Steps, ReadInv, AttemptInv, AttemptingSteps
<1>9. CASE RecordLateSettlement
  <2>1. /\ inv' \in Invocations /\ inv'.step = "outcome" /\ inv.step = "late"
        /\ inv'.attempt = inv.attempt /\ inv'.resolution = inv.resolution
    BY <1>0, <1>9, Zenon DEF RecordLateSettlement, Invocations, Steps
  <2> QED
    BY <1>9, <2>1, ControlStep, Zenon
    DEF RecordLateSettlement, CallerInv, ReadInv, AttemptInv, AttemptingSteps, Backed
<1>10. CASE ReadForResult(p)
  <2>1. /\ inv' \in Invocations /\ inv'.step = "resultWrite" /\ inv.step = "result"
        /\ inv'.attempt = inv.attempt /\ inv'.resolution = inv.resolution /\ inv'.read = request
    BY <1>0, <1>10, Zenon DEF ReadForResult, Invocations, Steps
  <2> QED
    BY <1>10, <2>1, ControlStep
    DEF ReadForResult, CallerInv, ReadInv, AttemptInv, AttemptingSteps, Backed
<1> QED
  BY <1>1, <1>2, <1>3, <1>4, <1>5, <1>6, <1>7, <1>8, <1>9, <1>10, Zenon

-----------------------------------------------------------------------------
\* A state write either lands the planned state or leaves the state alone, and
\* goes on to `next' only when it landed (#record).
LEMMA WriteStateCases ==
  ASSUME inv \in Invocations, NEW planned, NEW next \in Steps, WriteState(planned, next)
  PROVE  /\ \E st \in BOOLEAN, t \in {next, "thrown"} :
              inv' = [inv EXCEPT !.stopped = st, !.step = t]
         /\ inv' \in Invocations
         /\ \/ request' = planned /\ inv'.step \in {next, "thrown"}
            \/ request' = request /\ inv'.step = "thrown"
<1>1. PICK o \in WriteOutcomes(request.version = inv.read.version) :
        /\ request' = IF Landed(o) THEN planned ELSE request
        /\ inv' = [inv EXCEPT !.stopped = @ \/ IsAmbiguous(o),
                              !.step = IF o = "applied" THEN next ELSE "thrown"]
  BY Zenon DEF WriteState
<1>2. inv.stopped \in BOOLEAN
  BY Zenon DEF Invocations
<1>3. (inv.stopped \/ IsAmbiguous(o)) \in BOOLEAN
  BY <1>2, Zenon
<1>4. "thrown" \in Steps
  BY Zenon DEF Steps
<1>5. inv' \in Invocations /\ inv'.step = IF o = "applied" THEN next ELSE "thrown"
  BY <1>1, <1>3, <1>4, Zenon DEF Invocations
<1> QED
  BY <1>1, <1>3, <1>5, Zenon DEF Landed

\* A planned state is a request-state item (planState).
LEMMA PlannedType ==
  ASSUME NEW read \in Requests, NEW ids \in SUBSET Attempts, NEW classes, NEW p \in ProcessingUpdates,
         foldEffectKnowledge(read.effect_knowledge, classes) \in EffectKnowledge
  PROVE  /\ PlanState(read, ids, classes, p) \in Requests
         /\ PlanState(read, ids, classes, p).effect_knowledge
              = foldEffectKnowledge(read.effect_knowledge, classes)
         /\ PlanState(read, ids, classes, p).attempt_ids = read.attempt_ids \cup ids
<1>1. p.state \in ProcessingStates /\ p.reason \in FinishReasons
  BY DEF ProcessingUpdates, STILL_RUNNING, RETRIES_EXHAUSTED, MESSAGE_REJECTED, DEFINITIVE_FINISHES,
         ProcessingStates, FinishReasons
<1>2. read.version + 1 \in Nat /\ read.attempt_ids \cup ids \in SUBSET Attempts
  BY DEF Requests
<1> QED
  BY <1>1, <1>2, Zenon DEF PlanState, Requests

\* A rejected message changes the processing state only (recordMessageRejected).
LEMMA WriteRejectionStep ==
  ASSUME CallerInv, WriteRejection
  PROVE  CallerInv'
<1>0. inv \in Invocations /\ request \in Requests /\ inv.read = request /\ inv.step = "rejectWrite"
  BY Zenon DEF CallerInv, CallerTypeOK, WriteRejection, At, ReadInv
<1>1. inv.processing \in ProcessingUpdates /\ request.effect_knowledge \in EffectKnowledge
  BY <1>0, Zenon DEF Invocations, Requests
<1> DEFINE planned == PlanState(inv.read, {}, <<>>, inv.processing)
<1>2. WriteState(planned, "conclude") /\ UNCHANGED <<attemptState, outcomeEvents, timeoutEvents, transport, effects>>
  BY Zenon DEF WriteRejection
<1>3. /\ planned \in Requests
      /\ planned.effect_knowledge = request.effect_knowledge
      /\ planned.attempt_ids = request.attempt_ids
  <2>1. foldEffectKnowledge(request.effect_knowledge, <<>>) = request.effect_knowledge
    BY <1>1, FoldNone, Zenon
  <2>2. {} \in SUBSET Attempts /\ request.attempt_ids \cup {} = request.attempt_ids
    BY Zenon
  <2> DEFINE P == inv.processing
  <2>3. P.state \in ProcessingStates /\ P.reason \in FinishReasons
    BY <1>1 DEF ProcessingUpdates, STILL_RUNNING, RETRIES_EXHAUSTED, MESSAGE_REJECTED, DEFINITIVE_FINISHES,
                ProcessingStates, FinishReasons
  <2>4. request.version + 1 \in Nat /\ request.attempt_ids \in SUBSET Attempts
    BY <1>0 DEF Requests
  <2>5. planned = [version |-> request.version + 1, effect_knowledge |-> request.effect_knowledge,
                   attempt_ids |-> request.attempt_ids, processing_state |-> P.state, reason |-> P.reason]
    BY <1>0, <2>1, <2>2, Zenon DEF PlanState
  <2> QED
    BY <1>1, <2>3, <2>4, <2>5 DEF Requests
<1> HIDE DEF planned
<1>4. "conclude" \in Steps
  BY Zenon DEF Steps
<1>5. /\ inv' \in Invocations
      /\ request' = planned \/ request' = request
      /\ inv'.step \in {"conclude", "thrown"}
  BY <1>0, <1>2, <1>4, WriteStateCases, Zenon
<1>6. /\ request' \in Requests
      /\ request'.effect_knowledge = request.effect_knowledge
      /\ request'.attempt_ids = request.attempt_ids
  BY <1>0, <1>3, <1>5, Zenon
<1>7. CallerTypeOK'
  BY <1>2, <1>5, <1>6, Zenon DEF CallerInv, CallerTypeOK
<1>8. StateInv'
  BY <1>2, <1>6, Zenon DEF CallerInv, StateInv, OrphanInv, AbsentInv, ProviderInv, BoundaryInv, OutcomeInv,
                    Backed, KnowledgeInv, Settled, KnowledgeSound, AccountedEffects
<1>9. ReadInv' /\ AttemptInv'
  BY <1>5, Zenon DEF ReadInv, AttemptInv, AttemptingSteps
<1> QED
  BY <1>7, <1>8, <1>9, Zenon DEF CallerInv

\* Accounting for the one registered, unaccounted attempt: the state after a
\* write that landed or not (reconcileOrphans, recordAttemptResult).
LEMMA AccountingWrite ==
  ASSUME CallerInv, NEW a \in Attempts, attemptState[a] # "ABSENT", a \notin request.attempt_ids,
         NEW c \in OutcomeClasses, ClassBacked(a, c),
         inv.read = request, NEW p \in ProcessingUpdates, NEW next \in {"register", "conclude"},
         WriteState(PlanState(inv.read, {a}, <<c>>, p), next),
         UNCHANGED <<attemptState, outcomeEvents, timeoutEvents, transport, effects>>
  PROVE  CallerInv'
<1>0. inv \in Invocations /\ request \in Requests /\ request.effect_knowledge \in EffectKnowledge
  BY Zenon DEF CallerInv, CallerTypeOK, Requests
<1> DEFINE planned == PlanState(inv.read, {a}, <<c>>, p)
<1>1. /\ planned \in Requests
      /\ planned.effect_knowledge = nextEffectKnowledge(request.effect_knowledge, c)
      /\ planned.attempt_ids = request.attempt_ids \cup {a}
  BY <1>0, FoldOne, NextKnowledgeType, PlannedType
<1>2. next \in Steps
  BY Zenon DEF Steps
<1>3. WriteState(planned, next)
  BY Zenon
<1> HIDE DEF planned
<1>4. /\ inv' \in Invocations
      /\ \/ request' = planned /\ inv'.step \in {next, "thrown"}
         \/ request' = request /\ inv'.step = "thrown"
  BY <1>0, <1>2, <1>3, WriteStateCases, Zenon
<1>5. CASE request' = planned /\ inv'.step \in {next, "thrown"}
  <2>1. CallerTypeOK'
    BY <1>1, <1>4, <1>5, Zenon DEF CallerInv, CallerTypeOK
  <2>2. KnowledgeInv'
    BY <1>1, <1>5, AccountOne, Zenon DEF CallerInv
  <2>3. \A b \in Attempts : attemptState[b] # "ABSENT" => b \in request'.attempt_ids
    BY <1>1, <1>5, Zenon DEF CallerInv, StateInv, OrphanInv
  <2>4. OrphanInv' /\ AbsentInv'
    BY <1>1, <1>5, <2>3, Zenon DEF CallerInv, StateInv, OrphanInv, AbsentInv
  <2>5. ProviderInv' /\ BoundaryInv' /\ OutcomeInv'
    BY Zenon DEF CallerInv, StateInv, ProviderInv, BoundaryInv, OutcomeInv, Backed
  <2>6. OrphansOf(request)' = {}
    BY <2>3, Zenon DEF OrphansOf
  <2>7. ReadInv' /\ AttemptInv'
    BY <1>5, <2>6, Zenon DEF ReadInv, AttemptInv, AttemptingSteps
  <2> QED
    BY <2>1, <2>2, <2>4, <2>5, <2>7, Zenon DEF CallerInv, StateInv
<1>6. CASE request' = request /\ inv'.step = "thrown"
  BY <1>4, <1>6, ControlStep, Zenon DEF callerDurable, ReadInv, AttemptInv, AttemptingSteps
<1> QED
  BY <1>4, <1>5, <1>6, Zenon

\* reconcileOrphans folds the one orphan there is.
LEMMA ReconcileWriteStep ==
  ASSUME CallerInv, ReconcileWrite
  PROVE  CallerInv'
<1>0. inv.step = "reconcileWrite" /\ inv.read = request /\ inv.orphans = OrphansOf(request) /\ inv.orphans # {}
  BY Zenon DEF CallerInv, ReadInv, ReconcileWrite, At
<1>1. PICK a \in Attempts : inv.orphans = {a}
  BY <1>0 DEF CallerInv, StateInv, OrphanInv, OrphansOf
<1>2. attemptState[a] # "ABSENT" /\ a \notin request.attempt_ids
  BY <1>0, <1>1, Zenon DEF OrphansOf
<1>3. OrphanClass(a) \in OutcomeClasses /\ ClassBacked(a, OrphanClass(a))
  BY <1>2, OrphanClassBacked, Zenon DEF CallerInv, StateInv
<1>4. PICK order \in OrderingsOf({a}) :
        WriteState(PlanState(inv.read, {a}, [i \in 1 .. Len(order) |-> OrphanClass(order[i])], STILL_RUNNING),
                   "register")
  BY <1>1, Zenon DEF ReconcileWrite
<1>5. WriteState(PlanState(inv.read, {a}, <<OrphanClass(a)>>, STILL_RUNNING), "register")
  BY <1>4, SingleOrdering, Zenon
<1>6. STILL_RUNNING \in ProcessingUpdates
  BY Zenon DEF ProcessingUpdates
<1> QED
  BY <1>0, <1>2, <1>3, <1>5, <1>6, AccountingWrite, Zenon DEF ReconcileWrite

\* recordAttemptResult folds the invocation's own attempt.
LEMMA WriteResultStep ==
  ASSUME CallerInv, WriteResult
  PROVE  CallerInv'
<1>0. /\ inv.step = "resultWrite" /\ inv.read = request /\ inv.attempt \in Attempts
      /\ attemptState[inv.attempt] # "ABSENT" /\ inv.attempt \notin request.attempt_ids
      /\ Backed(inv.attempt, inv.resolution)
  BY Zenon DEF CallerInv, ReadInv, AttemptInv, AttemptingSteps, WriteResult, At
<1>1. OutcomeClass \in OutcomeClasses /\ ClassBacked(inv.attempt, OutcomeClass)
  BY <1>0, BackedClass, Zenon DEF OutcomeClass
<1>2. inv.processing \in ProcessingUpdates
  BY Zenon DEF CallerInv, CallerTypeOK, Invocations
<1> QED
  BY <1>0, <1>1, <1>2, AccountingWrite, Zenon DEF WriteResult

-----------------------------------------------------------------------------
\* A journal append that landed or not changes no attempt phase and no state:
\* the invariant's durable part survives once the recorded outcomes are backed.
LEMMA SameState ==
  ASSUME StateInv, UNCHANGED <<attemptState, request, transport, effects>>, OutcomeInv'
  PROVE  StateInv'
BY Zenon DEF StateInv, OrphanInv, AbsentInv, ProviderInv, BoundaryInv, KnowledgeInv, Settled, KnowledgeSound,
       AccountedEffects

\* performAttempt C1: the orphans are reconciled, so the new registration is
\* the only unaccounted one, whether or not its write is known to have landed.
LEMMA RegisterStep ==
  ASSUME CallerInv, Register
  PROVE  CallerInv'
<1>0. inv \in Invocations /\ OrphansOf(request) = {}
  BY Zenon DEF CallerInv, CallerTypeOK, ReadInv, Register, At
<1>1. PICK a \in Attempts, o \in WriteOutcomes(TRUE) :
        /\ attemptState[a] = "ABSENT"
        /\ attemptState' = IF Landed(o) THEN [attemptState EXCEPT ![a] = "PRE_DISPATCH"] ELSE attemptState
        /\ inv' = [inv EXCEPT !.attempt = a, !.stopped = IsAmbiguous(o),
                              !.step = IF o = "applied" THEN "dispatch" ELSE "thrown"]
  BY Zenon DEF Register
<1>2. UNCHANGED <<outcomeEvents, timeoutEvents, request, transport, effects>>
  BY Zenon DEF Register
<1>3. attemptState \in [Attempts -> AttemptPhases \cup {"ABSENT"}]
  BY Zenon DEF CallerInv, CallerTypeOK
<1>4. transport[a] = "IDLE" /\ a \notin request.attempt_ids
  BY <1>1, Zenon DEF CallerInv, StateInv, AbsentInv, BoundaryInv, Settled
<1>5. IsAmbiguous(o) \in BOOLEAN /\ {"dispatch", "thrown"} \subseteq Steps /\ "PRE_DISPATCH" \in AttemptPhases
  BY DEF IsAmbiguous, Steps, AttemptPhases
<1>6. inv' \in Invocations /\ inv'.attempt = a /\ inv'.step = IF o = "applied" THEN "dispatch" ELSE "thrown"
  BY <1>0, <1>1, <1>5, Zenon DEF Invocations
<1>7. attemptState' \in [Attempts -> AttemptPhases \cup {"ABSENT"}]
  BY <1>1, <1>3, <1>5, Zenon
<1>8. /\ \A b \in Attempts : b # a => attemptState'[b] = attemptState[b]
      /\ o = "applied" => attemptState'[a] = "PRE_DISPATCH"
      /\ attemptState'[a] \in {"ABSENT", "PRE_DISPATCH"}
  BY <1>1, <1>3, Zenon DEF Landed
<1>9. CallerTypeOK'
  BY <1>2, <1>6, <1>7, Zenon DEF CallerInv, CallerTypeOK
<1>10. \A b \in Attempts : b # a => attemptState'[b] = "ABSENT" \/ b \in request.attempt_ids
  BY <1>0, <1>8, Zenon DEF OrphansOf
<1>11. OrphanInv' /\ AbsentInv' /\ BoundaryInv' /\ ProviderInv'
  BY <1>1, <1>2, <1>4, <1>8, <1>10, Zenon DEF CallerInv, StateInv, OrphanInv, AbsentInv, BoundaryInv, ProviderInv
<1>12. OutcomeInv'
  BY <1>1, <1>2, <1>8 DEF CallerInv, StateInv, OutcomeInv, Backed
<1>13. KnowledgeInv'
  BY <1>1, <1>2, <1>4, <1>8, Zenon DEF CallerInv, CallerTypeOK, Requests, StateInv, KnowledgeInv, Settled,
                                KnowledgeSound, AccountedEffects
<1>14. ReadInv' /\ AttemptInv'
  BY <1>2, <1>4, <1>6, <1>8, Zenon DEF ReadInv, AttemptInv, AttemptingSteps
<1> QED
  BY <1>9, <1>11, <1>12, <1>13, <1>14, Zenon DEF CallerInv, StateInv

\* A phase transition of the invocation's own attempt out of an earlier phase,
\* with or without the transport call behind it (dispatch, #recordNotDispatched).
LEMMA PhaseStep ==
  ASSUME CallerInv, inv.step \in {"dispatch", "notDispatched"},
         NEW phase \in {"DISPATCHED", "NOT_DISPATCHED"},
         \/ attemptState' = attemptState
         \/ /\ attemptState[inv.attempt] = "PRE_DISPATCH"
            /\ attemptState' = [attemptState EXCEPT ![inv.attempt] = phase],
         \/ transport' = transport
         \/ /\ attemptState'[inv.attempt] = "DISPATCHED"
            /\ transport' = [transport EXCEPT ![inv.attempt] = "SENT"],
         UNCHANGED <<outcomeEvents, timeoutEvents, request, effects>>,
         inv' \in Invocations, inv'.step \in {"race", "notDispatched", "outcome"},
         inv'.attempt = inv.attempt,
         inv'.step = "notDispatched" => transport' = transport,
         inv'.step = "outcome" => Backed(inv.attempt, inv.resolution)'
  PROVE  CallerInv'
<1> DEFINE a == inv.attempt
<1>1. /\ a \in Attempts /\ attemptState[a] # "ABSENT" /\ a \notin request.attempt_ids
      /\ transport[a] = "IDLE" /\ a \notin effects
  BY Zenon DEF CallerInv, AttemptInv, AttemptingSteps, StateInv, ProviderInv
<1>2. /\ attemptState \in [Attempts -> AttemptPhases \cup {"ABSENT"}]
      /\ transport \in [Attempts -> TransportStates]
      /\ phase \in AttemptPhases /\ "SENT" \in TransportStates
  BY Zenon DEF CallerInv, CallerTypeOK, AttemptPhases, TransportStates
<1>3. /\ attemptState' \in [Attempts -> AttemptPhases \cup {"ABSENT"}]
      /\ transport' \in [Attempts -> TransportStates]
  BY <1>2, Zenon
<1>4. /\ \A b \in Attempts : b # a => attemptState'[b] = attemptState[b] /\ transport'[b] = transport[b]
      /\ attemptState'[a] # "ABSENT" /\ transport'[a] \in {"IDLE", "SENT"}
      /\ transport'[a] = "SENT" => attemptState'[a] = "DISPATCHED"
      /\ attemptState[a] = "NOT_DISPATCHED" => attemptState'[a] = "NOT_DISPATCHED"
  BY <1>1, <1>2, Zenon
<1>5. CallerTypeOK'
  BY <1>3, Zenon DEF CallerInv, CallerTypeOK
<1>6. OrphanInv' /\ AbsentInv' /\ BoundaryInv' /\ ProviderInv'
  <2>1. OrphanInv'
    BY <1>1, <1>4, Zenon DEF CallerInv, StateInv, OrphanInv
  <2>2. AbsentInv' /\ BoundaryInv'
    BY <1>1, <1>4, Zenon DEF CallerInv, StateInv, AbsentInv, BoundaryInv
  <2>3. ProviderInv'
    BY <1>1, <1>4, Zenon DEF CallerInv, StateInv, ProviderInv
  <2> QED
    BY <2>1, <2>2, <2>3
<1>7. OutcomeInv'
  <2> SUFFICES ASSUME NEW b \in Attempts, outcomeEvents[b] # None PROVE Backed(b, outcomeEvents[b])'
    BY Zenon DEF OutcomeInv
  <2>1. Backed(b, outcomeEvents[b])
    BY Zenon DEF CallerInv, StateInv, OutcomeInv
  <2> QED
    BY <1>1, <1>4, <2>1, Zenon DEF Backed
<1>8. KnowledgeInv'
  <2>1. \A b \in request.attempt_ids : b \in Attempts /\ b # a
    BY <1>1, Zenon DEF CallerInv, CallerTypeOK, Requests
  <2> QED
    BY <1>4, <2>1, Zenon DEF CallerInv, StateInv, KnowledgeInv, Settled, KnowledgeSound, AccountedEffects
<1>9. ReadInv' /\ AttemptInv'
  BY <1>1, <1>4, Zenon DEF ReadInv, AttemptInv, AttemptingSteps
<1> QED
  BY <1>5, <1>6, <1>7, <1>8, <1>9, Zenon DEF CallerInv, StateInv

\* C3, the dispatch transition: the transport call follows an applied write only.
LEMMA DispatchStep ==
  ASSUME CallerInv, Dispatch
  PROVE  CallerInv'
<1> DEFINE a == inv.attempt
<1>0. inv.step = "dispatch" /\ inv \in Invocations /\ a \in Attempts /\ attemptState[a] # "ABSENT"
  BY Zenon DEF CallerInv, CallerTypeOK, AttemptInv, AttemptingSteps, Dispatch, At
<1>1. PICK o \in WriteOutcomes(attemptState[a] = "PRE_DISPATCH") :
        /\ attemptState' = IF Landed(o) THEN [attemptState EXCEPT ![a] = "DISPATCHED"] ELSE attemptState
        /\ transport' = IF o = "applied" THEN [transport EXCEPT ![a] = "SENT"] ELSE transport
        /\ inv' = CASE o = "applied" -> [inv EXCEPT !.step = "race"]
                    [] o = "rejected" -> [inv EXCEPT !.step = "notDispatched"]
                    [] OTHER -> [inv EXCEPT !.stopped = IsAmbiguous(o), !.step = "outcome",
                                            !.resolution = FailedWith("UNKNOWN")]
  BY Zenon DEF Dispatch
<1>2. UNCHANGED <<outcomeEvents, timeoutEvents, request, effects>>
  BY Zenon DEF Dispatch
<1>3. Landed(o) => attemptState[a] = "PRE_DISPATCH"
  BY Zenon DEF WriteOutcomes, Landed
<1>4. /\ FailedWith("UNKNOWN") \in Resolutions /\ {"race", "notDispatched", "outcome"} \subseteq Steps
      /\ FailedWith("UNKNOWN").outcome = "FAILED" /\ FailedWith("UNKNOWN").dispatch = "UNKNOWN"
      /\ IsAmbiguous(o) \in BOOLEAN
  BY DEF FailedWith, Resolutions, AttemptOutcomes, DispatchStates, Steps, IsAmbiguous
<1>5. CASE o = "applied"
  <2>1. inv' = [inv EXCEPT !.step = "race"]
    BY <1>1, <1>5, Zenon
  <2>2. inv' \in Invocations /\ inv'.step = "race" /\ inv'.attempt = a
    BY <1>0, <1>4, <2>1, Zenon DEF Invocations
  <2>3. /\ attemptState' = [attemptState EXCEPT ![a] = "DISPATCHED"]
        /\ transport' = [transport EXCEPT ![a] = "SENT"]
        /\ attemptState[a] = "PRE_DISPATCH"
    BY <1>1, <1>3, <1>5, Zenon DEF Landed
  <2>4. attemptState'[a] = "DISPATCHED"
    BY <1>0, <2>3, Zenon DEF CallerInv, CallerTypeOK
  <2> QED
    BY <1>0, <1>2, <2>2, <2>3, <2>4, PhaseStep, Zenon
<1>6. CASE o = "rejected"
  <2>1. inv' = [inv EXCEPT !.step = "notDispatched"]
    BY <1>1, <1>6, Zenon
  <2>2. inv' \in Invocations /\ inv'.step = "notDispatched" /\ inv'.attempt = a
    BY <1>0, <1>4, <2>1, Zenon DEF Invocations
  <2>3. attemptState' = attemptState /\ transport' = transport
    BY <1>1, <1>6, Zenon DEF Landed
  <2> QED
    BY <1>0, <1>2, <2>2, <2>3, PhaseStep, Zenon
<1>7. CASE o # "applied" /\ o # "rejected"
  <2>1. inv' = [inv EXCEPT !.stopped = IsAmbiguous(o), !.step = "outcome", !.resolution = FailedWith("UNKNOWN")]
    BY <1>1, <1>7, Zenon
  <2>2. inv' \in Invocations /\ inv'.step = "outcome" /\ inv'.attempt = a /\ inv'.resolution = FailedWith("UNKNOWN")
    BY <1>0, <1>4, <2>1, Zenon DEF Invocations
  <2>3. /\ transport' = transport
        /\ \/ attemptState' = attemptState
           \/ /\ attemptState[a] = "PRE_DISPATCH"
              /\ attemptState' = [attemptState EXCEPT ![a] = "DISPATCHED"]
    BY <1>1, <1>3, <1>7, Zenon
  <2>4. Backed(inv.attempt, inv.resolution)'
    BY <1>4, <2>2, Zenon DEF Backed
  <2> QED
    BY <1>0, <1>2, <2>2, <2>3, <2>4, PhaseStep, Zenon
<1> QED
  BY <1>5, <1>6, <1>7, Zenon

\* #recordNotDispatched claims NOT_DISPATCHED for an applied transition only.
LEMMA RecordNotDispatchedStep ==
  ASSUME CallerInv, RecordNotDispatched
  PROVE  CallerInv'
<1> DEFINE a == inv.attempt
<1>0. inv.step = "notDispatched" /\ inv \in Invocations /\ a \in Attempts
  BY Zenon DEF CallerInv, CallerTypeOK, AttemptInv, AttemptingSteps, RecordNotDispatched, At
<1>1. PICK o \in WriteOutcomes(attemptState[a] = "PRE_DISPATCH") :
        /\ attemptState' = IF Landed(o) THEN [attemptState EXCEPT ![a] = "NOT_DISPATCHED"] ELSE attemptState
        /\ inv' = [inv EXCEPT !.stopped = IsAmbiguous(o), !.step = "outcome",
                              !.resolution = FailedWith(IF o = "applied" THEN "NOT_DISPATCHED" ELSE "UNKNOWN")]
  BY Zenon DEF RecordNotDispatched
<1>2. UNCHANGED <<outcomeEvents, timeoutEvents, request, transport, effects>>
  BY Zenon DEF RecordNotDispatched
<1> DEFINE d == IF o = "applied" THEN "NOT_DISPATCHED" ELSE "UNKNOWN"
<1>3. Landed(o) => attemptState[a] = "PRE_DISPATCH"
  BY Zenon DEF WriteOutcomes, Landed
<1>4. /\ FailedWith(d) \in Resolutions /\ "outcome" \in Steps /\ IsAmbiguous(o) \in BOOLEAN
      /\ FailedWith(d).outcome = "FAILED" /\ FailedWith(d).dispatch = d
  BY DEF FailedWith, Resolutions, AttemptOutcomes, DispatchStates, Steps, IsAmbiguous
<1>5. /\ inv' \in Invocations /\ inv'.step = "outcome" /\ inv'.attempt = a
      /\ inv'.resolution = FailedWith(d)
  BY <1>0, <1>1, <1>4, Zenon DEF Invocations
<1>6. \/ attemptState' = attemptState
      \/ /\ attemptState[a] = "PRE_DISPATCH"
         /\ attemptState' = [attemptState EXCEPT ![a] = "NOT_DISPATCHED"]
  BY <1>1, <1>3, Zenon
<1>7. d = "NOT_DISPATCHED" => attemptState'[a] = "NOT_DISPATCHED"
  BY <1>0, <1>1, Zenon DEF Landed, CallerInv, CallerTypeOK
<1>8. Backed(inv.attempt, inv.resolution)'
  BY <1>4, <1>5, <1>7, Zenon DEF Backed
<1> QED
  BY <1>0, <1>2, <1>5, <1>6, <1>8, PhaseStep, Zenon

\* #recordTimeout: TIMED_OUT is claimed once its event is durable.
LEMMA RecordTimeoutStep ==
  ASSUME CallerInv, RecordTimeout
  PROVE  CallerInv'
<1> DEFINE a == inv.attempt
<1>0. /\ inv.step = "timeout" /\ inv \in Invocations /\ a \in Attempts
      /\ attemptState[a] # "ABSENT" /\ a \notin request.attempt_ids
  BY Zenon DEF CallerInv, CallerTypeOK, AttemptInv, AttemptingSteps, RecordTimeout, At
<1>1. PICK o \in AppendOutcomes :
        /\ timeoutEvents' = IF AppendLanded(o) THEN timeoutEvents \cup {a} ELSE timeoutEvents
        /\ inv' = IF o = "appended"
                  THEN [inv EXCEPT !.step = "late",
                                   !.resolution = [outcome |-> "TIMED_OUT", dispatch |-> "DISPATCHED"]]
                  ELSE [inv EXCEPT !.step = "outcome", !.stopped = TRUE, !.resolution = FailedWith("DISPATCHED")]
  BY Zenon DEF RecordTimeout
<1>2. UNCHANGED <<attemptState, outcomeEvents, request, transport, effects>>
  BY Zenon DEF RecordTimeout
<1> DEFINE r == IF o = "appended" THEN [outcome |-> "TIMED_OUT", dispatch |-> "DISPATCHED"]
                ELSE FailedWith("DISPATCHED")
<1>3. r \in Resolutions /\ {"late", "outcome"} \subseteq Steps
  BY Zenon DEF FailedWith, Resolutions, AttemptOutcomes, DispatchStates, Steps
<1>4. /\ r.dispatch = "DISPATCHED" /\ r.outcome \in {"TIMED_OUT", "FAILED"}
      /\ r.outcome = "TIMED_OUT" => o = "appended"
  BY Zenon DEF FailedWith
<1>5. inv' \in Invocations /\ inv'.attempt = a /\ inv'.resolution = r /\ inv'.step \in {"late", "outcome"}
  BY <1>0, <1>1, <1>3, Zenon DEF Invocations
<1>6. timeoutEvents \subseteq timeoutEvents' /\ timeoutEvents' \subseteq Attempts /\ (o = "appended" => a \in timeoutEvents')
  BY <1>0, <1>1, Zenon DEF AppendLanded, CallerInv, CallerTypeOK
<1>7. CallerTypeOK'
  BY <1>2, <1>5, <1>6, Zenon DEF CallerInv, CallerTypeOK
<1>8. OutcomeInv'
  BY <1>2, <1>6, Zenon DEF CallerInv, StateInv, OutcomeInv, Backed
<1>9. StateInv'
  BY <1>2, <1>8, SameState, Zenon DEF CallerInv
<1>10. Backed(inv.attempt, inv.resolution)'
  BY <1>3, <1>4, <1>5, <1>6, Zenon DEF Backed
<1>11. ReadInv' /\ AttemptInv'
  BY <1>0, <1>2, <1>5, <1>10, Zenon DEF ReadInv, AttemptInv, AttemptingSteps
<1> QED
  BY <1>7, <1>9, <1>11, Zenon DEF CallerInv

\* attempt_outcome_recorded holds the invocation's backed resolution.
LEMMA RecordOutcomeStep ==
  ASSUME CallerInv, RecordOutcome
  PROVE  CallerInv'
<1> DEFINE a == inv.attempt
<1>0. /\ inv.step = "outcome" /\ inv \in Invocations /\ a \in Attempts /\ Backed(a, inv.resolution)
      /\ attemptState[a] # "ABSENT" /\ a \notin request.attempt_ids
  BY Zenon DEF CallerInv, CallerTypeOK, AttemptInv, AttemptingSteps, RecordOutcome, At
<1>1. PICK o \in IF inv.stopped THEN {"stopped_lost"} ELSE AppendOutcomes :
        /\ outcomeEvents' = IF AppendLanded(o) THEN [outcomeEvents EXCEPT ![a] = inv.resolution]
                            ELSE outcomeEvents
        /\ inv' = [inv EXCEPT !.stopped = o # "appended",
                              !.step = IF o = "appended" THEN "result" ELSE "thrown"]
  BY Zenon DEF RecordOutcome
<1>2. UNCHANGED <<attemptState, timeoutEvents, request, transport, effects>>
  BY Zenon DEF RecordOutcome
<1>3. {"result", "thrown"} \subseteq Steps /\ (o # "appended") \in BOOLEAN
  BY Zenon DEF Steps
<1>4. /\ inv' \in Invocations /\ inv'.attempt = a /\ inv'.resolution = inv.resolution
      /\ inv'.step \in {"result", "thrown"}
  BY <1>0, <1>1, <1>3, Zenon DEF Invocations
<1>5. /\ outcomeEvents' \in [Attempts -> Resolutions \cup {None}]
      /\ \A b \in Attempts : outcomeEvents'[b] = outcomeEvents[b] \/ (b = a /\ outcomeEvents'[b] = inv.resolution)
  BY <1>0, <1>1, Zenon DEF CallerInv, CallerTypeOK, Invocations
<1>6. CallerTypeOK'
  BY <1>2, <1>4, <1>5, Zenon DEF CallerInv, CallerTypeOK
<1>7. OutcomeInv'
  <2> SUFFICES ASSUME NEW b \in Attempts, outcomeEvents'[b] # None PROVE Backed(b, outcomeEvents[b])'
    BY Zenon DEF OutcomeInv, None
  <2>1. Backed(b, outcomeEvents'[b])
    BY <1>0, <1>5, Zenon DEF CallerInv, StateInv, OutcomeInv
  <2> QED
    BY <1>2, <2>1, Zenon DEF Backed
<1>8. StateInv'
  BY <1>2, <1>7, SameState, Zenon DEF CallerInv
<1>9. Backed(inv.attempt, inv.resolution)'
  BY <1>0, <1>2, <1>4, Zenon DEF Backed
<1>10. ReadInv' /\ AttemptInv'
  BY <1>0, <1>2, <1>4, <1>9, Zenon DEF ReadInv, AttemptInv, AttemptingSteps
<1> QED
  BY <1>6, <1>8, <1>10, Zenon DEF CallerInv

\* The provider's own steps: a call commits or answers while the caller is
\* anywhere, crashed included, and what the caller settled stays settled.
LEMMA ProviderActsStep ==
  ASSUME CallerInv, Provider!ProviderStep, UNCHANGED <<callerDurable, inv>>
  PROVE  CallerInv'
<1>0. /\ transport \in [Attempts -> TransportStates] /\ effects \subseteq Attempts
      /\ UNCHANGED <<attemptState, outcomeEvents, timeoutEvents, request, inv>>
  BY Zenon DEF CallerInv, CallerTypeOK, callerDurable
<1>1. PICK a \in Attempts :
        \/ Provider!Commit(a)
        \/ \E answer \in {"SUCCEEDED", "REJECTED", "FAULT"} : Provider!Answer(a, answer)
  BY Zenon DEF Provider!ProviderStep
<1>2. /\ transport' \in [Attempts -> TransportStates] /\ effects' \subseteq Attempts
      /\ \A b \in Attempts : b # a => transport'[b] = transport[b] /\ (b \in effects' <=> b \in effects)
      /\ transport[a] \in {"SENT", "FAULT"} /\ transport'[a] # "IDLE"
      /\ transport'[a] = "SUCCEEDED" => a \in effects'
      /\ transport'[a] = "REJECTED" => a \notin effects'
  BY <1>0, <1>1, Zenon DEF Provider!Commit, Provider!Answer, TransportStates
<1>3. CallerTypeOK'
  BY <1>0, <1>2, Zenon DEF CallerInv, CallerTypeOK
<1>4. attemptState[a] = "DISPATCHED"
  BY <1>2, Zenon DEF CallerInv, StateInv, BoundaryInv
<1>5. OrphanInv' /\ AbsentInv' /\ BoundaryInv' /\ ProviderInv'
  BY <1>0, <1>2, <1>4, Zenon DEF CallerInv, StateInv, OrphanInv, AbsentInv, BoundaryInv, ProviderInv
<1>6. \A b \in Attempts, r \in Resolutions \cup {None} : Backed(b, r) => Backed(b, r)'
  BY <1>0, <1>2, Zenon DEF Backed
<1>7. OutcomeInv'
  BY <1>0, <1>6, Zenon DEF CallerInv, CallerTypeOK, StateInv, OutcomeInv
<1>8. ~ Settled(a)
  BY <1>2, <1>4, Zenon DEF Settled
<1>9. KnowledgeInv'
  <2>1. CASE request.effect_knowledge = "UNKNOWN"
    BY <1>0, <2>1, Zenon DEF KnowledgeInv, KnowledgeSound
  <2>2. CASE request.effect_knowledge # "UNKNOWN"
    <3>1. a \notin request.attempt_ids /\ request.attempt_ids \subseteq Attempts
      BY <1>8, <2>2, Zenon DEF CallerInv, CallerTypeOK, Requests, StateInv, KnowledgeInv
    <3>2. AccountedEffects' = AccountedEffects
      BY <1>0, <1>2, <3>1, Zenon DEF AccountedEffects
    <3> QED
      BY <1>0, <1>2, <3>1, <3>2, Zenon DEF CallerInv, StateInv, KnowledgeInv, KnowledgeSound, Settled
  <2> QED
    BY <2>1, <2>2, Zenon
<1>10. ReadInv'
  BY <1>0, Zenon DEF CallerInv, ReadInv, OrphansOf
<1>11. AttemptInv'
  <2>1. inv.step \in {"dispatch", "notDispatched"} => inv.attempt # a /\ inv.attempt \in Attempts
    BY <1>2, Zenon DEF CallerInv, AttemptInv, AttemptingSteps
  <2>2. inv.step \in {"late", "outcome", "result", "resultWrite"} => Backed(inv.attempt, inv.resolution)'
    BY <1>0, <1>6 DEF CallerInv, AttemptInv, AttemptingSteps, Backed
  <2> QED
    BY <1>0, <1>2, <2>1, <2>2, Zenon DEF CallerInv, AttemptInv
<1> QED
  BY <1>3, <1>5, <1>7, <1>9, <1>10, <1>11, Zenon DEF CallerInv, StateInv

-----------------------------------------------------------------------------
\* An empty caller journal satisfies the invariant.
LEMMA CallerInitInv ==
  ASSUME CallerInit
  PROVE  CallerInv
<1> USE DEF CallerInit
<1>1. NoRequest \in Requests
  BY Zenon DEF NoRequest, Requests, EffectKnowledge, INITIAL_EFFECT_KNOWLEDGE, ProcessingStates, FinishReasons
<1>2. IdleInvocation \in Invocations
  BY <1>1, Zenon DEF IdleInvocation, Invocations, Steps, ProcessingUpdates
<1>3. /\ attemptState \in [Attempts -> AttemptPhases \cup {"ABSENT"}]
      /\ outcomeEvents \in [Attempts -> Resolutions \cup {None}]
      /\ transport \in [Attempts -> TransportStates]
  BY Zenon DEF TransportStates
<1>4. CallerTypeOK
  BY <1>1, <1>2, <1>3, Zenon DEF CallerTypeOK
<1>5. /\ \A a \in Attempts : attemptState[a] = "ABSENT" /\ outcomeEvents[a] = None /\ transport[a] = "IDLE"
      /\ effects = {} /\ request.attempt_ids = {} /\ request.effect_knowledge = "NOT_ATTEMPTED"
      /\ inv.step = "idle"
  BY Zenon DEF NoRequest, INITIAL_EFFECT_KNOWLEDGE, IdleInvocation
<1>6. StateInv
  BY <1>5, Zenon DEF StateInv, OrphanInv, AbsentInv, ProviderInv, BoundaryInv, OutcomeInv, KnowledgeInv,
              KnowledgeSound, AccountedEffects
<1>7. ReadInv /\ AttemptInv
  BY <1>5, Zenon DEF ReadInv, AttemptInv, AttemptingSteps
<1> QED
  BY <1>4, <1>6, <1>7, Zenon DEF CallerInv

\* Every step of an invocation preserves the invariant, whatever the variant
\* decides about the message and the attempt.
LEMMA InvocationPreserves ==
  ASSUME CallerInv, NEW accepted, NEW p \in ProcessingUpdates, InvocationStep(accepted, p)
  PROVE  CallerInv'
BY QuietSteps, WriteRejectionStep, ReconcileWriteStep, RegisterStep, DispatchStep,
   RecordNotDispatchedStep, RecordTimeoutStep, RecordOutcomeStep, WriteResultStep, Zenon DEF InvocationStep

\* The invariant implies what the runs check of a caller.
LEMMA CallerInvImplies ==
  ASSUME CallerInv
  PROVE  KnowledgeSound /\ AtMostOneOrphan /\ DispatchBoundary /\ TimedOutIsDurable
<1>1. KnowledgeSound
  BY Zenon DEF CallerInv, StateInv, KnowledgeInv
<1>2. AtMostOneOrphan
  BY Zenon DEF CallerInv, StateInv, OrphanInv, AtMostOneOrphan, Registered
<1>3. DispatchBoundary
  BY Zenon DEF CallerInv, StateInv, ProviderInv, BoundaryInv, DispatchBoundary
<1>4. TimedOutIsDurable
  BY DEF CallerInv, StateInv, OutcomeInv, Backed, None, TimedOutIsDurable
<1> QED
  BY <1>1, <1>2, <1>3, <1>4, Zenon

\* A step that leaves the caller alone leaves the invariant alone.
LEMMA CallerStutter ==
  ASSUME CallerInv, UNCHANGED callerVars
  PROVE  CallerInv'
<1>1. UNCHANGED <<attemptState, outcomeEvents, timeoutEvents, request, inv, transport, effects>>
  BY Zenon DEF callerVars
<1>2. CallerTypeOK'
  BY <1>1, Zenon DEF CallerInv, CallerTypeOK
<1>3. OrphanInv' /\ AbsentInv' /\ ProviderInv' /\ BoundaryInv'
  BY <1>1, Zenon DEF CallerInv, StateInv, OrphanInv, AbsentInv, ProviderInv, BoundaryInv
<1>4. OutcomeInv' /\ KnowledgeInv'
  BY <1>1, Zenon DEF CallerInv, StateInv, OutcomeInv, Backed, KnowledgeInv, Settled, KnowledgeSound, AccountedEffects
<1>5. ReadInv'
  BY <1>1, Zenon DEF CallerInv, ReadInv, OrphansOf
<1>6. AttemptInv'
  BY <1>1, Zenon DEF CallerInv, AttemptInv, Backed
<1> QED
  BY <1>2, <1>3, <1>4, <1>5, <1>6, Zenon DEF CallerInv, StateInv

\* decideTerminality is one of the two open-ended processing decisions.
LEMMA TerminalityType ==
  ASSUME NEW count, NEW max, NEW inner
  PROVE  decideTerminality(count, max, inner) \in ProcessingUpdates
BY Zenon DEF decideTerminality, ProcessingUpdates

-----------------------------------------------------------------------------
(* What a state write adds, and what a delivery is judged by. *)

\* What a write that accounts for attempt a by class c makes of the state.
Accounts(a, c, reason) ==
  /\ request'.effect_knowledge = nextEffectKnowledge(request.effect_knowledge, c)
  /\ request'.attempt_ids = request.attempt_ids \cup {a}
  /\ request'.reason = reason
  /\ OrphansOf(request') = {}

\* Accounting for the one unaccounted attempt leaves none (planState).
LEMMA AccountingEffect ==
  ASSUME CallerInv, NEW a \in Attempts, attemptState[a] # "ABSENT", a \notin request.attempt_ids,
         NEW c \in OutcomeClasses, inv.read = request, NEW p \in ProcessingUpdates,
         NEW next \in {"register", "conclude"}, WriteState(PlanState(inv.read, {a}, <<c>>, p), next)
  PROVE  /\ inv'.step \in {next, "thrown"} /\ inv'.processing = inv.processing
         /\ (request' = request /\ inv'.step = "thrown") \/ Accounts(a, c, p.reason)
<1>0. inv \in Invocations /\ request \in Requests /\ request.effect_knowledge \in EffectKnowledge
  BY Zenon DEF CallerInv, CallerTypeOK, Requests
<1> DEFINE planned == PlanState(inv.read, {a}, <<c>>, p)
<1>1. /\ planned.effect_knowledge = nextEffectKnowledge(request.effect_knowledge, c)
      /\ planned.attempt_ids = request.attempt_ids \cup {a}
  <2>1. foldEffectKnowledge(request.effect_knowledge, <<c>>) = nextEffectKnowledge(request.effect_knowledge, c)
    BY <1>0, FoldOne, Zenon
  <2>2. foldEffectKnowledge(request.effect_knowledge, <<c>>) \in EffectKnowledge
    BY <1>0, <2>1, NextKnowledgeType, Zenon
  <2>3. PlanState(request, {a}, <<c>>, p).effect_knowledge = foldEffectKnowledge(request.effect_knowledge, <<c>>)
    BY <1>0, <2>2, PlannedType
  <2>4. PlanState(request, {a}, <<c>>, p).attempt_ids = request.attempt_ids \cup {a}
    BY <1>0, <2>2, PlannedType
  <2> QED
    BY <2>1, <2>3, <2>4, Zenon
<1>2. planned.reason = p.reason
  BY Zenon DEF PlanState
<1>3. OrphansOf(planned) = {}
  BY <1>1, Zenon DEF CallerInv, StateInv, OrphanInv, OrphansOf
<1>4. next \in Steps /\ WriteState(planned, next)
  BY Zenon DEF Steps
<1> HIDE DEF planned
<1>5. /\ \E st \in BOOLEAN, t \in {next, "thrown"} : inv' = [inv EXCEPT !.stopped = st, !.step = t]
      /\ \/ request' = planned /\ inv'.step \in {next, "thrown"}
         \/ request' = request /\ inv'.step = "thrown"
  BY <1>0, <1>4, WriteStateCases, Zenon
<1>6. inv'.processing = inv.processing
  BY <1>0, <1>5, Zenon DEF Invocations
<1> QED
  BY <1>1, <1>2, <1>3, <1>5, <1>6, Zenon DEF Accounts

\* A rejected message's write changes no knowledge and no account.
LEMMA RejectionEffect ==
  ASSUME CallerInv, WriteRejection
  PROVE  /\ inv'.step \in {"conclude", "thrown"} /\ inv'.processing = inv.processing
         /\ \/ request' = request
            \/ /\ request'.effect_knowledge = request.effect_knowledge
               /\ request'.attempt_ids = request.attempt_ids
               /\ request'.reason = inv.processing.reason
<1>0. inv \in Invocations /\ request \in Requests /\ inv.read = request
  BY Zenon DEF CallerInv, CallerTypeOK, WriteRejection, At, ReadInv
<1> DEFINE planned == PlanState(inv.read, {}, <<>>, inv.processing)
<1>1. request.effect_knowledge \in EffectKnowledge
  BY <1>0, Zenon DEF Requests
<1>2. foldEffectKnowledge(request.effect_knowledge, <<>>) = request.effect_knowledge
  BY <1>1, FoldNone, Zenon
<1>3. /\ planned.effect_knowledge = request.effect_knowledge
      /\ planned.attempt_ids = request.attempt_ids /\ planned.reason = inv.processing.reason
  BY <1>0, <1>2, Zenon DEF PlanState
<1>4. "conclude" \in Steps /\ WriteState(planned, "conclude")
  BY Zenon DEF Steps, WriteRejection
<1> HIDE DEF planned
<1>5. /\ \E st \in BOOLEAN, t \in {"conclude", "thrown"} : inv' = [inv EXCEPT !.stopped = st, !.step = t]
      /\ request' = planned \/ request' = request
  BY <1>0, <1>4, WriteStateCases, Zenon
<1> QED
  BY <1>0, <1>3, <1>5, Zenon DEF Invocations

\* reconcileOrphans accounts for one orphan or none.
LEMMA ReconcileEffect ==
  ASSUME CallerInv, ReconcileWrite
  PROVE  /\ inv'.step \in {"register", "thrown"} /\ inv'.processing = inv.processing
         /\ \/ request' = request
            \/ \E a \in Attempts, c \in OutcomeClasses : a \notin request.attempt_ids /\ Accounts(a, c, "NONE")
<1>0. inv.step = "reconcileWrite" /\ inv.read = request /\ inv.orphans = OrphansOf(request) /\ inv.orphans # {}
  BY Zenon DEF CallerInv, ReadInv, ReconcileWrite, At
<1>1. PICK a \in Attempts : inv.orphans = {a}
  BY <1>0 DEF CallerInv, StateInv, OrphanInv, OrphansOf
<1>2. attemptState[a] # "ABSENT" /\ a \notin request.attempt_ids
  BY <1>0, <1>1, Zenon DEF OrphansOf
<1>3. OrphanClass(a) \in OutcomeClasses
  BY <1>2, OrphanClassBacked, Zenon DEF CallerInv, StateInv
<1>4. PICK order \in OrderingsOf({a}) :
        WriteState(PlanState(inv.read, {a}, [i \in 1 .. Len(order) |-> OrphanClass(order[i])], STILL_RUNNING),
                   "register")
  BY <1>1, Zenon DEF ReconcileWrite
<1>5. WriteState(PlanState(inv.read, {a}, <<OrphanClass(a)>>, STILL_RUNNING), "register")
  BY <1>4, SingleOrdering, Zenon
<1>6. STILL_RUNNING \in ProcessingUpdates /\ STILL_RUNNING.reason = "NONE"
  BY Zenon DEF ProcessingUpdates, STILL_RUNNING
<1>7. /\ inv'.step \in {"register", "thrown"} /\ inv'.processing = inv.processing
      /\ (request' = request /\ inv'.step = "thrown") \/ Accounts(a, OrphanClass(a), STILL_RUNNING.reason)
  BY <1>0, <1>2, <1>3, <1>5, <1>6, AccountingEffect, Zenon
<1> QED
  BY <1>2, <1>3, <1>6, <1>7, Zenon

\* recordAttemptResult accounts for the attempt just made, or for none.
LEMMA ResultEffect ==
  ASSUME CallerInv, WriteResult
  PROVE  /\ inv'.step \in {"conclude", "thrown"} /\ inv'.processing = inv.processing
         /\ inv.attempt \in Attempts /\ inv.attempt \notin request.attempt_ids
         /\ OutcomeClass \in OutcomeClasses /\ ClassBacked(inv.attempt, OutcomeClass)
         /\ (request' = request /\ inv'.step = "thrown") \/ Accounts(inv.attempt, OutcomeClass, inv.processing.reason)
<1>0. /\ inv.step = "resultWrite" /\ inv.read = request /\ inv.attempt \in Attempts
      /\ attemptState[inv.attempt] # "ABSENT" /\ inv.attempt \notin request.attempt_ids
      /\ Backed(inv.attempt, inv.resolution)
  BY Zenon DEF CallerInv, ReadInv, AttemptInv, AttemptingSteps, WriteResult, At
<1>1. OutcomeClass \in OutcomeClasses /\ ClassBacked(inv.attempt, OutcomeClass)
  BY <1>0, BackedClass, Zenon DEF OutcomeClass
<1>2. inv.processing \in ProcessingUpdates
  BY Zenon DEF CallerInv, CallerTypeOK, Invocations
<1> QED
  BY <1>0, <1>1, <1>2, AccountingEffect, Zenon DEF WriteResult

\* One class never moves the knowledge back (EFFECT_KNOWLEDGE_TABLE).
LEMMA KnowledgeRankGrows ==
  ASSUME NEW k \in EffectKnowledge, NEW c \in OutcomeClasses
  PROVE  KnowledgeRank[k] <= KnowledgeRank[nextEffectKnowledge(k, c)]
BY DEF KnowledgeRank, nextEffectKnowledge, EFFECT_KNOWLEDGE_TABLE, EffectKnowledge, OutcomeClasses

\* What the knowledge and the account may do in one step.
Retains ==
  /\ KnowledgeRank[request.effect_knowledge] <= KnowledgeRank[request'.effect_knowledge]
  /\ request.attempt_ids \subseteq request'.attempt_ids

\* A step without a state write retains them.
LEMMA SameRequest ==
  ASSUME CallerInv, request' = request
  PROVE  Retains
<1>1. request.effect_knowledge \in EffectKnowledge
  BY Zenon DEF CallerInv, CallerTypeOK, Requests
<1> QED
  BY <1>1 DEF Retains, KnowledgeRank, EffectKnowledge

\* A step of an invocation retains them.
LEMMA InvocationRetains ==
  ASSUME CallerInv, NEW v, NEW p, InvocationStep(v, p)
  PROVE  Retains
<1>1. request.effect_knowledge \in EffectKnowledge
  BY Zenon DEF CallerInv, CallerTypeOK, Requests
<1>2. ASSUME NEW a, NEW c \in OutcomeClasses, NEW reason, Accounts(a, c, reason) PROVE Retains
  BY <1>1, <1>2, KnowledgeRankGrows, Zenon DEF Accounts, Retains
<1>3. CASE WriteRejection
  <2>1. request'.effect_knowledge = request.effect_knowledge /\ request'.attempt_ids = request.attempt_ids
    BY <1>3, RejectionEffect, Zenon
  <2> QED
    BY <1>1, <2>1 DEF Retains, KnowledgeRank, EffectKnowledge
<1>4. CASE ReconcileWrite
  BY <1>2, <1>4, ReconcileEffect, SameRequest, Zenon
<1>5. CASE WriteResult
  BY <1>2, <1>5, ResultEffect, SameRequest, Zenon
<1>6. CASE ~(WriteRejection \/ ReconcileWrite \/ WriteResult)
  <2>1. request' = request
    BY <1>6, Zenon DEF InvocationStep, ReadFault, StartInvocation, RejectMessage, ReadForRejection, Reconcile, Register,
       BuildFailed, Dispatch, RecordNotDispatched, TransportWins, TimerWins, RecordTimeout, RecordLateSettlement,
       RecordOutcome, ReadForResult, callerDurable
  <2> QED
    BY <2>1, SameRequest, Zenon
<1> QED
  BY <1>3, <1>4, <1>5, <1>6, Zenon

-----------------------------------------------------------------------------
RejectSteps == {"reject", "rejectState", "rejectWrite"}

\* What a delivery's judgement of the message and of its attempt entails.  A
\* message once judged is judged the same way on every delivery, so a rejected one
\* never registered an attempt; an invocation concludes with every attempt
\* accounted for; and SUCCEEDED rests on a success.
JudgedInv(v) ==
  /\ v => inv.step \notin RejectSteps
  /\ ~v => /\ inv.step \in {"idle", "start", "conclude", "thrown"} \cup RejectSteps
           /\ \A a \in Attempts : attemptState[a] = "ABSENT"
  /\ inv.step = "rejectWrite" => inv.processing.reason = "MESSAGE_REJECTED"
  /\ inv.step = "resultWrite" /\ inv.processing.reason = "SUCCEEDED" => OutcomeClass = "SUCCESS"
  /\ inv.step = "conclude" => OrphansOf(request) = {}
  /\ SucceededHasEffect

\* A step that registers nothing and writes no state changes only the invocation:
\* it may not reach the conclusion.
LEMMA JudgedControl ==
  ASSUME NEW v, JudgedInv(v), UNCHANGED <<attemptState, request>>, effects \subseteq effects',
         v => inv'.step \notin RejectSteps,
         ~v => inv'.step \in {"idle", "start", "thrown"} \cup RejectSteps,
         inv'.step = "rejectWrite" => inv'.processing.reason = "MESSAGE_REJECTED",
         inv'.step = "resultWrite" /\ inv'.processing.reason = "SUCCEEDED" => OutcomeClass' = "SUCCESS",
         inv'.step # "conclude"
  PROVE  JudgedInv(v)'
BY Zenon DEF JudgedInv, SucceededHasEffect, AccountedEffects

\* Every step of an invocation keeps it, given that the variant decides SUCCEEDED
\* on a success only.
LEMMA JudgedStep ==
  ASSUME CallerInv, NEW v \in BOOLEAN, JudgedInv(v), NEW p \in ProcessingUpdates, InvocationStep(v, p),
         inv.step = "result" /\ p.reason = "SUCCEEDED" => OutcomeClass = "SUCCESS"
  PROVE  JudgedInv(v)'
<1> USE DEF At, Goto, Throw
<1>0. inv \in Invocations /\ request.attempt_ids \subseteq Attempts /\ effects \subseteq effects
  BY Zenon DEF CallerInv, CallerTypeOK, Requests
<1>a. inv.step \notin {"idle", "start", "conclude", "thrown"} \cup RejectSteps => v
  BY Zenon DEF JudgedInv
<1>b. inv.step \in RejectSteps => ~v
  BY Zenon DEF JudgedInv
<1>1. CASE ReadFault
  <2>1. inv'.step = "thrown" /\ UNCHANGED <<attemptState, request, effects>>
    BY <1>0, <1>1, Zenon DEF ReadFault, callerDurable, Invocations
  <2> QED
    BY <2>1, JudgedControl, Zenon DEF RejectSteps
<1>2. CASE StartInvocation(v)
  <2>1. /\ inv'.step = "thrown" \/ (inv'.step = "reconcile" /\ v) \/ (inv'.step = "reject" /\ ~v)
        /\ UNCHANGED <<attemptState, request, effects>>
    BY <1>0, <1>2, Zenon DEF StartInvocation, callerDurable, Invocations
  <2> QED
    BY <2>1, JudgedControl, Zenon DEF RejectSteps
<1>3. CASE RejectMessage
  <2>1. inv'.step \in {"rejectState", "thrown"} /\ ~v /\ UNCHANGED <<attemptState, request, effects>>
    BY <1>0, <1>b, <1>3, Zenon DEF RejectMessage, callerDurable, Invocations, RejectSteps
  <2> QED
    BY <2>1, JudgedControl, Zenon DEF RejectSteps
<1>4. CASE ReadForRejection
  <2>1. /\ inv'.step = "rejectWrite" /\ inv'.processing = MESSAGE_REJECTED /\ ~v
        /\ UNCHANGED <<attemptState, request, effects>>
    BY <1>0, <1>b, <1>4, Zenon DEF ReadForRejection, callerDurable, Invocations, RejectSteps
  <2> QED
    BY <2>1, JudgedControl DEF RejectSteps, MESSAGE_REJECTED
<1>5. CASE WriteRejection
  <2>1. ~v /\ inv.step = "rejectWrite" /\ UNCHANGED <<attemptState, effects>>
    BY <1>b, <1>5, Zenon DEF WriteRejection, RejectSteps
  <2>2. /\ inv'.step \in {"conclude", "thrown"}
        /\ request'.attempt_ids = request.attempt_ids
        /\ request'.reason \in {request.reason, "MESSAGE_REJECTED"}
    BY <1>5, <2>1, RejectionEffect, Zenon DEF JudgedInv
  <2>3. \A a \in Attempts : attemptState'[a] = "ABSENT"
    BY <2>1, Zenon DEF JudgedInv
  <2>4. OrphansOf(request)' = {}
    BY <2>3, Zenon DEF OrphansOf
  <2>5. SucceededHasEffect'
    BY <2>1, <2>2, Zenon DEF JudgedInv, SucceededHasEffect, AccountedEffects
  <2> QED
    BY <2>1, <2>2, <2>3, <2>4, <2>5, Zenon DEF JudgedInv, RejectSteps
<1>6. CASE ReconcileWrite
  <2>1. v /\ UNCHANGED <<attemptState, effects>>
    BY <1>a, <1>6, Zenon DEF ReconcileWrite, RejectSteps
  <2>2. inv'.step \in {"register", "thrown"}
    BY <1>6, ReconcileEffect, Zenon
  <2>3. request' = request \/ request'.reason = "NONE"
    BY <1>6, ReconcileEffect, Zenon DEF Accounts
  <2>4. SucceededHasEffect'
    BY <2>1, <2>3, Zenon DEF JudgedInv, SucceededHasEffect, AccountedEffects
  <2> QED
    BY <2>1, <2>2, <2>4, Zenon DEF JudgedInv, RejectSteps
<1>7. CASE WriteResult
  <2>1. v /\ UNCHANGED <<attemptState, effects>> /\ inv.step = "resultWrite"
    BY <1>a, <1>7, Zenon DEF WriteResult, RejectSteps
  <2>2. /\ inv'.step \in {"conclude", "thrown"} /\ inv.attempt \in Attempts
        /\ ClassBacked(inv.attempt, OutcomeClass)
        /\ (request' = request /\ inv'.step = "thrown") \/ Accounts(inv.attempt, OutcomeClass, inv.processing.reason)
    BY <1>7, ResultEffect, Zenon
  <2>3. inv'.step = "conclude" => OrphansOf(request)' = {}
    BY <2>1, <2>2, Zenon DEF Accounts, OrphansOf
  <2>4. SucceededHasEffect'
    <3>1. CASE request' = request
      BY <2>1, <3>1, Zenon DEF JudgedInv, SucceededHasEffect, AccountedEffects
    <3>2. CASE Accounts(inv.attempt, OutcomeClass, inv.processing.reason) /\ inv.processing.reason = "SUCCEEDED"
      <4>1. OutcomeClass = "SUCCESS"
        BY <2>1, <3>2, Zenon DEF JudgedInv
      <4>2. inv.attempt \in effects
        BY <2>2, <4>1, Zenon DEF ClassBacked, CallerInv, StateInv, ProviderInv
      <4> QED
        BY <2>1, <3>2, <4>2, Zenon DEF Accounts, SucceededHasEffect, AccountedEffects
    <3>3. CASE Accounts(inv.attempt, OutcomeClass, inv.processing.reason) /\ inv.processing.reason # "SUCCEEDED"
      BY <3>3, Zenon DEF Accounts, SucceededHasEffect
    <3> QED
      BY <2>2, <3>1, <3>2, <3>3, Zenon
  <2> QED
    BY <2>1, <2>2, <2>3, <2>4, Zenon DEF JudgedInv, RejectSteps
<1>8. CASE Reconcile \/ BuildFailed \/ TransportWins \/ TimerWins \/ RecordTimeout \/ RecordLateSettlement \/ RecordOutcome
  <2>1. v /\ UNCHANGED <<attemptState, request, effects>>
    BY <1>a, <1>8, Zenon DEF Reconcile, BuildFailed, TransportWins, TimerWins, RecordTimeout, RecordLateSettlement,
       RecordOutcome, callerDurable, RejectSteps
  <2>2. inv'.step \in {"register", "reconcileWrite", "notDispatched", "outcome", "timeout", "late", "result", "thrown"}
    BY <1>0, <1>8, Zenon DEF Reconcile, BuildFailed, TransportWins, TimerWins, RecordTimeout, RecordLateSettlement,
       RecordOutcome, Invocations
  <2> QED
    BY <2>1, <2>2, JudgedControl, Zenon DEF RejectSteps
<1>9. CASE ReadForResult(p)
  <2>1. /\ v /\ UNCHANGED <<attemptState, request, effects>> /\ inv.step = "result"
        /\ inv' = [inv EXCEPT !.read = request, !.processing = p, !.step = "resultWrite"]
    BY <1>a, <1>9, Zenon DEF ReadForResult, callerDurable, RejectSteps
  <2>2. inv'.step = "resultWrite" /\ inv'.processing = p /\ inv'.resolution = inv.resolution
    BY <1>0, <2>1, Zenon DEF Invocations
  <2>3. OutcomeClass' = OutcomeClass
    BY <2>2, Zenon DEF OutcomeClass
  <2> QED
    BY <2>1, <2>2, <2>3, JudgedControl, Zenon DEF RejectSteps
<1>10. CASE Register \/ Dispatch \/ RecordNotDispatched
  <2>1. v /\ UNCHANGED <<request, effects>>
    BY <1>a, <1>10, Zenon DEF Register, Dispatch, RecordNotDispatched, RejectSteps
  <2>2. inv'.step \in {"dispatch", "thrown", "race", "notDispatched", "outcome"}
    BY <1>0, <1>10, Zenon DEF Register, Dispatch, RecordNotDispatched, Invocations
  <2>3. SucceededHasEffect'
    BY <2>1, Zenon DEF JudgedInv, SucceededHasEffect, AccountedEffects
  <2> QED
    BY <2>1, <2>2, <2>3, Zenon DEF JudgedInv, RejectSteps
<1> QED
  BY <1>1, <1>2, <1>3, <1>4, <1>5, <1>6, <1>7, <1>8, <1>9, <1>10, Zenon DEF InvocationStep

\* What starts or ends an invocation keeps it.
LEMMA JudgedRestart ==
  ASSUME NEW v, JudgedInv(v), UNCHANGED <<callerDurable, transport, effects>>,
         inv' = IdleInvocation \/ inv' = [IdleInvocation EXCEPT !.step = "start"]
  PROVE  JudgedInv(v)'
<1>1. inv'.step \in {"idle", "start"} /\ UNCHANGED <<attemptState, request, effects>>
  BY DEF IdleInvocation, callerDurable
<1> QED
  BY <1>1, JudgedControl, Zenon DEF RejectSteps

\* So does a step of the provider or of the queue alone: effects only grow.
LEMMA JudgedElsewhere ==
  ASSUME NEW v, JudgedInv(v), UNCHANGED <<callerDurable, inv>>, effects \subseteq effects'
  PROVE  JudgedInv(v)'
BY Zenon DEF JudgedInv, callerDurable, SucceededHasEffect, AccountedEffects, OrphansOf, OutcomeClass

\* A provider step never takes an effect back.
LEMMA EffectsGrow ==
  ASSUME Provider!ProviderStep
  PROVE  effects \subseteq effects'
BY Zenon DEF Provider!ProviderStep, Provider!Commit, Provider!Answer

\* An empty caller journal satisfies it.
LEMMA JudgedInit ==
  ASSUME CallerInit, NEW v
  PROVE  JudgedInv(v)
BY Zenon DEF CallerInit, JudgedInv, IdleInvocation, NoRequest, RejectSteps, SucceededHasEffect

\* With no attempt left to account for, no call to the provider is either.
LEMMA AllAccounted ==
  ASSUME CallerInv, OrphansOf(request) = {}
  PROVE  \A a \in Attempts : transport[a] # "IDLE" \/ a \in effects => a \in request.attempt_ids
BY Zenon DEF OrphansOf, CallerInv, StateInv, BoundaryInv, ProviderInv

\* Only the result write of an invocation records RETRIES_EXHAUSTED, as decided
\* when the result was read (recordAttemptResult).
LEMMA ExhaustedWrite ==
  ASSUME CallerInv, NEW v \in BOOLEAN, JudgedInv(v), NEW p, InvocationStep(v, p)
  PROVE  /\ inv.step \notin {"idle", "conclude", "thrown"}
         /\ inv'.step # "idle"
         /\ inv'.step = "resultWrite" => inv.step = "result" /\ inv'.processing = p
         /\ \/ request'.reason = request.reason
            \/ request'.reason # "RETRIES_EXHAUSTED"
            \/ /\ inv.step = "resultWrite" /\ inv.processing.reason = "RETRIES_EXHAUSTED"
               /\ inv'.step \in {"conclude", "thrown"}
<1> USE DEF At, Goto, Throw
<1>0. inv \in Invocations
  BY Zenon DEF CallerInv, CallerTypeOK
<1>1. CASE WriteRejection
  <2>1. inv.step = "rejectWrite" /\ inv.processing.reason = "MESSAGE_REJECTED"
    BY <1>1, Zenon DEF WriteRejection, JudgedInv
  <2> QED
    BY <1>1, <2>1, RejectionEffect, Zenon
<1>2. CASE ReconcileWrite
  BY <1>2, ReconcileEffect, Zenon DEF ReconcileWrite, Accounts
<1>3. CASE WriteResult
  BY <1>3, ResultEffect, Zenon DEF WriteResult, Accounts
<1>4. CASE ReadForResult(p)
  BY <1>0, <1>4, Zenon DEF ReadForResult, callerDurable, Invocations
<1>5. CASE ReadFault \/ StartInvocation(v) \/ RejectMessage \/ ReadForRejection \/ Reconcile \/ BuildFailed \/ TimerWins
  BY <1>0, <1>5, Zenon DEF ReadFault, StartInvocation, RejectMessage, ReadForRejection, Reconcile, BuildFailed, TimerWins,
     callerDurable, Invocations
<1>6. CASE Register \/ Dispatch \/ RecordNotDispatched \/ TransportWins
  BY <1>0, <1>6, Zenon DEF Register, Dispatch, RecordNotDispatched, TransportWins, callerDurable, Invocations
<1>7. CASE RecordTimeout \/ RecordLateSettlement \/ RecordOutcome
  BY <1>0, <1>7, Zenon DEF RecordTimeout, RecordLateSettlement, RecordOutcome, callerDurable, Invocations
<1> QED
  BY <1>1, <1>2, <1>3, <1>4, <1>5, <1>6, <1>7, Zenon DEF InvocationStep

-----------------------------------------------------------------------------
(* The conventional variant. *)

\* TypeOK together with the caller invariant is inductive.
Inv == TypeOK /\ CallerInv

\* The variant's processing decision is one the state protocol knows
\* (decideConventionalDisposition).
LEMMA DecidedType ==
  (IF At("result") THEN DecidedProcessing ELSE STILL_RUNNING) \in ProcessingUpdates
BY TerminalityType, Zenon DEF DecidedProcessing, DEFINITIVE_FINISHES, ProcessingUpdates

\* A sent, never received message and an empty journal satisfy the invariant.
LEMMA ConventionalInit ==
  Init => Inv
<1> SUFFICES ASSUME Init PROVE Inv
  BY Zenon
<1>1. CallerInv
  BY CallerInitInv, Zenon DEF Init
<1>2. CallerTypeOK
  BY <1>1, Zenon DEF CallerInv
<1>3. 0 \in 0 .. MaxReceiveCount
  BY ReceiveAssumption
<1> QED
  BY <1>1, <1>2, <1>3, Zenon DEF Init, Inv, TypeOK

\* Every step of the queue, the consumer and the provider preserves it: what
\* ends an invocation erases only its volatile part.
LEMMA ConventionalNext ==
  Inv /\ [Next]_vars => Inv'
<1> SUFFICES ASSUME Inv, [Next]_vars PROVE Inv'
  BY Zenon
<1> USE ReceiveAssumption
<1> DEFINE QueueOK == queue \in [status : {"visible", "inflight", "deleted", "dlq"},
                                 receives : 0 .. MaxReceiveCount]
<1>0. CallerInv /\ QueueOK /\ valid \in BOOLEAN
  BY Zenon DEF Inv, TypeOK
<1>1. SUFFICES CallerInv' /\ QueueOK' /\ valid' \in BOOLEAN
  BY Zenon DEF Inv, TypeOK, CallerInv
<1>2. CASE Receive
  <2>1. CallerInv'
    BY <1>0, <1>2, Restart, Zenon DEF Receive
  <2> QED
    BY <1>0, <1>2, <2>1 DEF Receive
<1>3. CASE ThrottledReceive \/ Redrive \/ Done \/ UNCHANGED vars
  <2>1. UNCHANGED callerVars /\ valid' = valid
    BY <1>3, Zenon DEF ThrottledReceive, Redrive, Done, vars
  <2>2. CallerInv'
    BY <1>0, <2>1, CallerStutter, Zenon
  <2>3. QueueOK'
    BY <1>0, <1>3 DEF ThrottledReceive, Redrive, Done, vars
  <2> QED
    BY <1>0, <2>1, <2>2, <2>3, Zenon
<1>4. CASE Consume
  BY <1>0, <1>4, DecidedType, InvocationPreserves, Zenon DEF Consume
<1>5. CASE CompleteDelivery \/ PropagateFailure \/ Crash
  <2>1. /\ inv' = IdleInvocation /\ UNCHANGED <<callerDurable, transport, effects, valid>>
        /\ \E status \in {"deleted", "visible"} : queue' = [queue EXCEPT !.status = status]
    BY <1>5, Zenon DEF CompleteDelivery, PropagateFailure, Crash
  <2>2. CallerInv'
    BY <1>0, <2>1, Restart, Zenon
  <2> QED
    BY <1>0, <2>1, <2>2, Zenon
<1>6. CASE ProviderActs
  BY <1>0, <1>6, ProviderActsStep, Zenon DEF ProviderActs
<1> QED
  BY <1>2, <1>3, <1>4, <1>5, <1>6, Zenon DEF Next

\* The inductive invariant holds in every reachable state.
THEOREM ConventionalInvariant ==
  Spec => []Inv
BY ConventionalInit, ConventionalNext, PTL DEF Spec

\* Every reachable state is well typed: redeliveries stay within the redrive
\* threshold and every record within its vocabulary.
THEOREM ConventionalTypeCorrect ==
  Spec => []TypeOK
<1>1. Inv => TypeOK
  BY Zenon DEF Inv
<1> QED
  BY <1>1, ConventionalInvariant, PTL

\* What the caller recorded about effects is what the ledger holds, whatever
\* crashes, redeliveries and ambiguous writes happened.
THEOREM ConventionalKnowledgeSound ==
  Spec => []KnowledgeSound
<1>1. Inv => KnowledgeSound
  BY CallerInvImplies, Zenon DEF Inv
<1> QED
  BY <1>1, ConventionalInvariant, PTL

\* At most one registered attempt is unaccounted for at any time.
THEOREM ConventionalAtMostOneOrphan ==
  Spec => []AtMostOneOrphan
<1>1. Inv => AtMostOneOrphan
  BY CallerInvImplies, Zenon DEF Inv
<1> QED
  BY <1>1, ConventionalInvariant, PTL

\* The provider is reached only behind a durable DISPATCHED phase.
THEOREM ConventionalDispatchBoundary ==
  Spec => []DispatchBoundary
<1>1. Inv => DispatchBoundary
  BY CallerInvImplies, Zenon DEF Inv
<1> QED
  BY <1>1, ConventionalInvariant, PTL

\* A recorded TIMED_OUT outcome has its durable timeout event.
THEOREM ConventionalTimedOutIsDurable ==
  Spec => []TimedOutIsDurable
<1>1. Inv => TimedOutIsDurable
  BY CallerInvImplies, Zenon DEF Inv
<1> QED
  BY <1>1, ConventionalInvariant, PTL

-----------------------------------------------------------------------------
\* How a delivery and its message go together: an invocation runs while its
\* message is in flight, a deleted message has no attempt left to account for,
\* and RETRIES_EXHAUSTED is the decision of the last receive, after which no
\* invocation goes on.
DeliveryInv ==
  /\ JudgedInv(valid)
  /\ inv.step # "idle" => queue.status = "inflight"
  /\ queue.status = "deleted" => OrphansOf(request) = {}
  /\ inv.step = "resultWrite" /\ inv.processing.reason = "RETRIES_EXHAUSTED" => queue.receives = MaxReceiveCount
  /\ request.reason = "RETRIES_EXHAUSTED" =>
       queue.receives = MaxReceiveCount /\ inv.step \in {"idle", "conclude", "thrown"}

\* What the consumer decides on a result: SUCCEEDED on a success, RETRIES_EXHAUSTED
\* on the last receive (decideConventionalDisposition).
LEMMA DecisionSound ==
  ASSUME TypeOK
  PROVE  /\ DecidedProcessing.reason = "SUCCEEDED" => OutcomeClass = "SUCCESS"
         /\ DecidedProcessing.reason = "RETRIES_EXHAUSTED" => queue.receives = MaxReceiveCount
<1>1. queue.receives \in 0 .. MaxReceiveCount /\ MaxReceiveCount \in Nat
  BY ReceiveAssumption, Zenon DEF TypeOK
<1> QED
  BY <1>1 DEF DecidedProcessing, DEFINITIVE_FINISHES, decideTerminality, RETRIES_EXHAUSTED, STILL_RUNNING

\* A sent, never received message satisfies it.
LEMMA DeliveryInit == Init => DeliveryInv
<1> SUFFICES ASSUME Init PROVE DeliveryInv
  BY Zenon
<1>1. JudgedInv(valid)
  BY JudgedInit, Zenon DEF Init
<1>2. inv.step = "idle" /\ queue.status = "visible" /\ request.reason = "NONE"
  BY Zenon DEF Init, CallerInit, IdleInvocation, NoRequest
<1> QED
  BY <1>1, <1>2, Zenon DEF DeliveryInv

\* Every step keeps it.
LEMMA DeliveryNext == Inv /\ DeliveryInv /\ [Next]_vars => DeliveryInv'
<1> SUFFICES ASSUME Inv, DeliveryInv, [Next]_vars PROVE DeliveryInv'
  BY Zenon
<1>0. /\ CallerInv /\ TypeOK /\ valid' = valid /\ valid \in BOOLEAN
      /\ queue \in [status : {"visible", "inflight", "deleted", "dlq"}, receives : 0 .. MaxReceiveCount]
  BY Zenon DEF Inv, TypeOK, Next, vars, Receive, ThrottledReceive, Redrive, Consume, CompleteDelivery, PropagateFailure,
     Crash, ProviderActs, Done
<1>a. PICK v \in BOOLEAN : v = valid
  BY <1>0, Zenon
<1>b. JudgedInv(v)
  BY <1>a, Zenon DEF DeliveryInv
<1>c. ASSUME JudgedInv(v)' PROVE JudgedInv(valid)'
  BY <1>0, <1>a, <1>c, Zenon
<1>1. CASE Receive
  <2>1. JudgedInv(v)'
    BY <1>1, <1>b, JudgedRestart, Zenon DEF Receive
  <2>2. queue'.status = "inflight" /\ inv'.step = "start" /\ request' = request /\ queue.receives # MaxReceiveCount
    BY <1>0, <1>1, ReceiveAssumption DEF Receive, IdleInvocation, callerDurable
  <2> QED
    BY <1>c, <2>1, <2>2, Zenon DEF DeliveryInv
<1>2. CASE ThrottledReceive \/ Redrive \/ Done \/ UNCHANGED vars
  <2>1. UNCHANGED callerVars
    BY <1>2, Zenon DEF ThrottledReceive, Redrive, Done, vars
  <2>2. JudgedInv(v)'
    BY <1>b, <2>1, JudgedElsewhere, Zenon DEF callerVars, callerDurable
  <2>3. \/ queue' = queue
        \/ /\ queue.status = "visible" /\ queue'.status \in {"visible", "dlq"}
           /\ queue.receives = MaxReceiveCount => queue'.receives = MaxReceiveCount
    BY <1>0, <1>2, ReceiveAssumption DEF ThrottledReceive, Redrive, Done, vars
  <2>4. OrphansOf(request)' = OrphansOf(request)
    BY <2>1, Zenon DEF OrphansOf, callerVars
  <2> QED
    BY <1>c, <2>1, <2>2, <2>3, <2>4, Zenon DEF DeliveryInv, callerVars
<1>3. CASE Consume
  <2> DEFINE p == IF At("result") THEN DecidedProcessing ELSE STILL_RUNNING
  <2>1. InvocationStep(v, p) /\ UNCHANGED queue /\ p \in ProcessingUpdates
    BY <1>3, <1>a, DecidedType, Zenon DEF Consume
  <2>2. /\ inv.step = "result" /\ p.reason = "SUCCEEDED" => OutcomeClass = "SUCCESS"
        /\ inv.step = "result" /\ p.reason = "RETRIES_EXHAUSTED" => queue.receives = MaxReceiveCount
    BY <1>0, DecisionSound, Zenon DEF At
  <2> HIDE DEF p
  <2>3. JudgedInv(v)'
    BY <1>0, <1>b, <2>1, <2>2, JudgedStep, Zenon
  <2>4. /\ inv.step \notin {"idle", "conclude", "thrown"} /\ inv'.step # "idle"
        /\ inv'.step = "resultWrite" => inv.step = "result" /\ inv'.processing = p
        /\ \/ request'.reason = request.reason
           \/ request'.reason # "RETRIES_EXHAUSTED"
           \/ /\ inv.step = "resultWrite" /\ inv.processing.reason = "RETRIES_EXHAUSTED"
              /\ inv'.step \in {"conclude", "thrown"}
    BY <1>0, <1>b, <2>1, ExhaustedWrite, Zenon
  <2> QED
    BY <1>c, <2>1, <2>2, <2>3, <2>4, Zenon DEF DeliveryInv
<1>4. CASE CompleteDelivery \/ PropagateFailure \/ Crash
  <2>1. /\ inv' = IdleInvocation /\ UNCHANGED <<callerDurable, transport, effects>>
        /\ \E status \in {"deleted", "visible"} :
             queue' = [queue EXCEPT !.status = status] /\ (status = "deleted" => inv.step = "conclude")
    BY <1>4, Zenon DEF CompleteDelivery, PropagateFailure, Crash, At
  <2>2. JudgedInv(v)'
    BY <1>b, <2>1, JudgedRestart, Zenon
  <2>3. /\ inv'.step = "idle" /\ queue'.receives = queue.receives /\ request' = request
        /\ queue'.status = "deleted" => inv.step = "conclude"
    BY <1>0, <2>1, Zenon DEF IdleInvocation, callerDurable
  <2>4. OrphansOf(request)' = OrphansOf(request)
    BY <2>1, Zenon DEF OrphansOf, callerDurable
  <2> QED
    BY <1>b, <1>c, <2>2, <2>3, <2>4, Zenon DEF DeliveryInv, JudgedInv
<1>5. CASE ProviderActs
  <2>1. UNCHANGED <<callerDurable, inv, queue>> /\ Provider!ProviderStep
    BY <1>5, Zenon DEF ProviderActs
  <2>2. JudgedInv(v)'
    BY <1>b, <2>1, JudgedElsewhere, EffectsGrow, Zenon
  <2>3. request' = request /\ OrphansOf(request)' = OrphansOf(request)
    BY <2>1, Zenon DEF OrphansOf, callerDurable
  <2> QED
    BY <1>c, <2>1, <2>2, <2>3, Zenon DEF DeliveryInv
<1> QED
  BY <1>1, <1>2, <1>3, <1>4, <1>5, Zenon DEF Next

\* Both parts of the invariant hold in every reachable state.
THEOREM ConventionalDelivery ==
  Spec => [](Inv /\ DeliveryInv)
<1>1. Init => DeliveryInv
  BY DeliveryInit, Zenon
<1> QED
  BY <1>1, DeliveryNext, ConventionalInvariant, PTL DEF Spec

\* A message is deleted only when every call that may have reached the provider is
\* accounted for, whatever was lost, redelivered or crashed before.
THEOREM ConventionalDeletedAccountsForAll ==
  Spec => []DeletedAccountsForAll
<1>1. Inv /\ DeliveryInv => DeletedAccountsForAll
  BY AllAccounted, Zenon DEF Inv, DeliveryInv, DeletedAccountsForAll
<1> QED
  BY <1>1, ConventionalDelivery, PTL

\* A request recorded as SUCCEEDED has a ledger transaction of an accounted attempt.
THEOREM ConventionalSucceededHasEffect ==
  Spec => []SucceededHasEffect
<1>1. DeliveryInv => SucceededHasEffect
  BY Zenon DEF DeliveryInv, JudgedInv
<1> QED
  BY <1>1, ConventionalDelivery, PTL

\* Effect knowledge never moves back toward fewer confirmed effects and no
\* accounted attempt is dropped, over every state write of every delivery.
THEOREM ConventionalKnowledgeNeverRetreats ==
  Spec => KnowledgeNeverRetreats
<1>1. Inv /\ [Next]_vars => [Retains]_callerVars
  <2> SUFFICES ASSUME Inv, [Next]_vars PROVE [Retains]_callerVars
    BY Zenon
  <2>1. CallerInv
    BY Zenon DEF Inv
  <2>2. CASE Consume
    BY <2>1, <2>2, InvocationRetains, Zenon DEF Consume
  <2>3. CASE ~Consume
    <3>1. request' = request
      BY <2>3, Zenon DEF Next, vars, callerVars, callerDurable, Receive, ThrottledReceive, Redrive, CompleteDelivery,
         PropagateFailure, Crash, ProviderActs, Done
    <3> QED
      BY <2>1, <3>1, SameRequest, Zenon
  <2> QED
    BY <2>2, <2>3, Zenon
<1>2. [Retains]_callerVars <=> [/\ KnowledgeRank[request.effect_knowledge] <= KnowledgeRank[request'.effect_knowledge]
                                /\ request.attempt_ids \subseteq request'.attempt_ids]_callerVars
  BY Zenon DEF Retains
<1> QED
  BY <1>1, <1>2, ConventionalInvariant, PTL DEF Spec, KnowledgeNeverRetreats

\* No attempt is registered, dispatched or given up once RETRIES_EXHAUSTED is
\* recorded: no layer can deliver the message again (BR-RUA-024).
THEOREM ConventionalExhaustedIsLast ==
  Spec => ExhaustedIsLast
<1>1. Inv /\ DeliveryInv /\ [Next]_vars => [request.reason = "RETRIES_EXHAUSTED" => attemptState' = attemptState]_vars
  <2> SUFFICES ASSUME Inv, DeliveryInv, [Next]_vars, request.reason = "RETRIES_EXHAUSTED"
               PROVE  attemptState' = attemptState
    BY Zenon
  <2>1. inv.step \in {"idle", "conclude", "thrown"}
    BY Zenon DEF DeliveryInv
  <2>2. CASE Consume
    <3>1. PICK v \in BOOLEAN : v = valid
      BY Zenon DEF Inv, TypeOK
    <3> QED
      BY <2>1, <2>2, <3>1, ExhaustedWrite, Zenon DEF Consume, Inv, DeliveryInv
  <2> QED
    BY <2>2, Zenon DEF Next, vars, callerVars, callerDurable, Receive, ThrottledReceive, Redrive, CompleteDelivery,
       PropagateFailure, Crash, ProviderActs, Done
<1> QED
  BY <1>1, ConventionalDelivery, PTL DEF Spec, ExhaustedIsLast

-----------------------------------------------------------------------------
(* The Durable variant. *)

\* DurableTypeOK together with the caller invariant is inductive.
DurableInv == DurableTypeOK /\ CallerInv

\* The variant's processing decision is one the state protocol knows
\* (decideDurableStep).
LEMMA DecidedStepType ==
  (IF At("result") THEN DecidedStep ELSE STILL_RUNNING) \in ProcessingUpdates
BY TerminalityType, Zenon DEF DecidedStep, DEFINITIVE_FINISHES, ProcessingUpdates

\* A sent, never received message and an empty journal satisfy the invariant.
LEMMA DurableInitially ==
  DurableInit => DurableInv
<1> SUFFICES ASSUME DurableInit PROVE DurableInv
  BY Zenon
<1>1. CallerInv
  BY CallerInitInv, Zenon DEF DurableInit
<1>2. CallerTypeOK
  BY <1>1, Zenon DEF CallerInv
<1>3. 0 \in 0 .. MaxReceiveCount /\ 0 \in 0 .. StepAttempts /\ 0 \in 0 .. MaxReruns
  BY LayerAssumption, ReceiveAssumption
<1> QED
  BY <1>1, <1>2, <1>3, Zenon DEF DurableInit, DurableInv, DurableTypeOK, NoExecution

\* Every step of the queue, the execution, the step attempt and the provider
\* preserves it: what ends a step attempt erases only its volatile part.
LEMMA DurableStep ==
  DurableInv /\ [DurableNext]_durableVars => DurableInv'
<1> SUFFICES ASSUME DurableInv, [DurableNext]_durableVars PROVE DurableInv'
  BY Zenon
<1> DEFINE LayersOK ==
             /\ queue \in [status : {"visible", "inflight", "deleted", "dlq"}, receives : 0 .. MaxReceiveCount]
             /\ valid \in BOOLEAN
             /\ exec \in [status : {"none", "ready", "running"}, step_attempt : 0 .. StepAttempts,
                          reruns : 0 .. MaxReruns]
<1>0. CallerInv /\ LayersOK
  BY Zenon DEF DurableInv, DurableTypeOK
<1>a. /\ queue.receives \in 0 .. MaxReceiveCount /\ exec.step_attempt \in 0 .. StepAttempts
      /\ exec.reruns \in 0 .. MaxReruns /\ 1 \in 0 .. StepAttempts
  BY <1>0, LayerAssumption, ReceiveAssumption
<1>b. /\ queue.receives < MaxReceiveCount => queue.receives + 1 \in 0 .. MaxReceiveCount
      /\ exec.step_attempt < StepAttempts => exec.step_attempt + 1 \in 0 .. StepAttempts
      /\ exec.reruns < MaxReruns => exec.reruns + 1 \in 0 .. MaxReruns
  BY <1>a, LayerAssumption, ReceiveAssumption
<1>1. SUFFICES CallerInv' /\ LayersOK'
  BY Zenon DEF DurableInv, DurableTypeOK, CallerInv
<1>2. CASE StartExecution \/ ThrottledStart \/ RedriveAfterExecutions \/ MessageSettled \/ UNCHANGED durableVars
  <2>1. UNCHANGED callerVars
    BY <1>2, Zenon DEF StartExecution, ThrottledStart, RedriveAfterExecutions, MessageSettled, durableVars
  <2>2. CallerInv'
    BY <1>0, <2>1, CallerStutter, Zenon
  <2>3. LayersOK'
    <3>1. CASE StartExecution
      BY <1>0, <1>a, <1>b, <3>1, Zenon DEF StartExecution
    <3>2. CASE ThrottledStart \/ RedriveAfterExecutions \/ MessageSettled \/ UNCHANGED durableVars
      BY <1>0, <1>b, <3>2, Zenon DEF ThrottledStart, RedriveAfterExecutions, MessageSettled, durableVars
    <3> QED
      BY <1>2, <3>1, <3>2, Zenon
  <2> QED
    BY <2>2, <2>3, Zenon
<1>3. CASE StartStepAttempt
  BY <1>0, <1>3, Restart, Zenon DEF StartStepAttempt
<1>4. CASE RunStepAttempt
  BY <1>0, <1>4, DecidedStepType, InvocationPreserves, Zenon DEF RunStepAttempt
<1>5. CASE CompleteExecution \/ StepAttemptFailed \/ StepAttemptLost \/ ExecutionTimeout
  <2>1. inv' = IdleInvocation /\ UNCHANGED <<callerDurable, transport, effects, valid>>
    BY <1>5, Zenon DEF CompleteExecution, StepAttemptFailed, StepAttemptLost, ExecutionTimeout
  <2>2. CallerInv'
    BY <1>0, <2>1, Restart, Zenon
  <2>3. CASE CompleteExecution
    BY <1>0, <2>2, <2>3, Zenon DEF CompleteExecution
  <2>4. CASE StepAttemptFailed
    <3>1. CASE exec.step_attempt < StepAttempts
      BY <1>0, <1>b, <2>1, <2>2, <2>4, <3>1, Zenon DEF StepAttemptFailed
    <3>2. CASE ~ (exec.step_attempt < StepAttempts)
      BY <1>0, <2>1, <2>2, <2>4, <3>2, Zenon DEF StepAttemptFailed
    <3> QED
      BY <3>1, <3>2, Zenon
  <2>5. CASE StepAttemptLost
    BY <1>0, <1>b, <2>2, <2>5, Zenon DEF StepAttemptLost
  <2>6. CASE ExecutionTimeout
    BY <1>0, <2>2, <2>6, Zenon DEF ExecutionTimeout
  <2> QED
    BY <1>5, <2>3, <2>4, <2>5, <2>6, Zenon
<1>6. CASE ProviderActsOnCall
  BY <1>0, <1>6, ProviderActsStep, Zenon DEF ProviderActsOnCall
<1> QED
  BY <1>2, <1>3, <1>4, <1>5, <1>6, Zenon DEF DurableNext

\* The inductive invariant holds in every reachable state.
THEOREM DurableInvariant ==
  DurableSpec => []DurableInv
BY DurableInitially, DurableStep, PTL DEF DurableSpec

\* Every reachable state is well typed: receives, step attempts and
\* re-runs stay within their limits and every record within its vocabulary.
THEOREM DurableTypeCorrect ==
  DurableSpec => []DurableTypeOK
<1>1. DurableInv => DurableTypeOK
  BY Zenon DEF DurableInv
<1> QED
  BY <1>1, DurableInvariant, PTL

\* What the caller recorded about effects is what the ledger holds, whatever
\* step retries, re-runs, redeliveries and ambiguous writes happened.
THEOREM DurableKnowledgeSound ==
  DurableSpec => []KnowledgeSound
<1>1. DurableInv => KnowledgeSound
  BY CallerInvImplies, Zenon DEF DurableInv
<1> QED
  BY <1>1, DurableInvariant, PTL

\* At most one registered attempt is unaccounted for at any time.
THEOREM DurableAtMostOneOrphan ==
  DurableSpec => []AtMostOneOrphan
<1>1. DurableInv => AtMostOneOrphan
  BY CallerInvImplies, Zenon DEF DurableInv
<1> QED
  BY <1>1, DurableInvariant, PTL

\* The provider is reached only behind a durable DISPATCHED phase.
THEOREM DurableDispatchBoundary ==
  DurableSpec => []DispatchBoundary
<1>1. DurableInv => DispatchBoundary
  BY CallerInvImplies, Zenon DEF DurableInv
<1> QED
  BY <1>1, DurableInvariant, PTL

\* A recorded TIMED_OUT outcome has its durable timeout event.
THEOREM DurableTimedOutIsDurable ==
  DurableSpec => []TimedOutIsDurable
<1>1. DurableInv => TimedOutIsDurable
  BY CallerInvImplies, Zenon DEF DurableInv
<1> QED
  BY <1>1, DurableInvariant, PTL

-----------------------------------------------------------------------------
\* How the layers go together: a step attempt runs inside an execution and an
\* execution while its message is in flight; a deleted message has no attempt left
\* to account for; RETRIES_EXHAUSTED is the decision of the last step attempt of
\* the last receive, and a re-run of that step attempt leaves it the last.
LayerInv ==
  /\ JudgedInv(valid)
  /\ inv.step # "idle" => exec.status = "running"
  /\ exec.status # "none" => queue.status = "inflight"
  /\ queue.status = "deleted" => OrphansOf(request) = {}
  /\ \/ inv.step = "resultWrite" /\ inv.processing.reason = "RETRIES_EXHAUSTED"
     \/ request.reason = "RETRIES_EXHAUSTED"
     => queue.receives = MaxReceiveCount /\ exec.step_attempt = StepAttempts

\* What a step attempt decides on a result: SUCCEEDED on a success and
\* RETRIES_EXHAUSTED when neither layer has anything left (decideDurableStep).
LEMMA StepDecisionSound ==
  ASSUME DurableTypeOK
  PROVE  /\ DecidedStep.reason = "SUCCEEDED" => OutcomeClass = "SUCCESS"
         /\ DecidedStep.reason = "RETRIES_EXHAUSTED" =>
              queue.receives = MaxReceiveCount /\ exec.step_attempt = StepAttempts
<1>1. /\ queue.receives \in 0 .. MaxReceiveCount /\ MaxReceiveCount \in Nat
      /\ exec.step_attempt \in 0 .. StepAttempts /\ StepAttempts \in Nat
  BY LayerAssumption, ReceiveAssumption, Zenon DEF DurableTypeOK
<1> QED
  BY <1>1 DEF DecidedStep, DEFINITIVE_FINISHES, decideTerminality, RETRIES_EXHAUSTED, STILL_RUNNING

\* A sent, never received message satisfies it.
LEMMA LayerInit == DurableInit => LayerInv
<1> SUFFICES ASSUME DurableInit PROVE LayerInv
  BY Zenon
<1>1. JudgedInv(valid)
  BY JudgedInit, Zenon DEF DurableInit
<1>2. inv.step = "idle" /\ queue.status = "visible" /\ request.reason = "NONE" /\ exec.status = "none"
  BY Zenon DEF DurableInit, CallerInit, IdleInvocation, NoRequest, NoExecution
<1> QED
  BY <1>1, <1>2, Zenon DEF LayerInv

\* A step outside a step attempt: what the layers do while the state stays.
LayersMove ==
  /\ request' = request /\ OrphansOf(request)' = OrphansOf(request)
  /\ inv'.step \in {"idle", "start"}
  /\ inv'.step # "idle" => exec'.status = "running"
  /\ exec'.status # "none" => queue'.status = "inflight"
  /\ queue'.status = "deleted" => queue.status = "deleted" \/ inv.step = "conclude"
  /\ queue'.receives = queue.receives \/ queue.receives # MaxReceiveCount
  /\ exec'.step_attempt = exec.step_attempt \/ queue.receives # MaxReceiveCount \/ exec.step_attempt # StepAttempts

\* Such a step keeps the invariant.
LEMMA LayersMoved ==
  ASSUME LayerInv, LayersMove, JudgedInv(valid)'
  PROVE  LayerInv'
BY Zenon DEF LayerInv, LayersMove, JudgedInv

\* Every step keeps it.
LEMMA LayerNext == DurableInv /\ LayerInv /\ [DurableNext]_durableVars => LayerInv'
<1> SUFFICES ASSUME DurableInv, LayerInv, [DurableNext]_durableVars PROVE LayerInv'
  BY Zenon
<1>0. /\ CallerInv /\ DurableTypeOK /\ valid' = valid /\ valid \in BOOLEAN
      /\ queue \in [status : {"visible", "inflight", "deleted", "dlq"}, receives : 0 .. MaxReceiveCount]
      /\ exec \in [status : {"none", "ready", "running"}, step_attempt : 0 .. StepAttempts, reruns : 0 .. MaxReruns]
  BY Zenon DEF DurableInv, DurableTypeOK, DurableNext, durableVars, StartExecution, ThrottledStart, RedriveAfterExecutions, StartStepAttempt, RunStepAttempt,
     CompleteExecution, StepAttemptFailed, StepAttemptLost, ExecutionTimeout, ProviderActsOnCall, MessageSettled
<1>a. PICK v \in BOOLEAN : v = valid
  BY <1>0, Zenon
<1>b. JudgedInv(v)
  BY <1>a, Zenon DEF LayerInv
<1>c. ASSUME JudgedInv(v)' PROVE JudgedInv(valid)'
  BY <1>0, <1>a, <1>c, Zenon
<1>d. /\ queue.receives < MaxReceiveCount => queue.receives # MaxReceiveCount
      /\ exec.step_attempt < StepAttempts => exec.step_attempt # StepAttempts
  BY <1>0, LayerAssumption, ReceiveAssumption
<1>1. CASE StartExecution \/ ThrottledStart \/ RedriveAfterExecutions
  <2>1. UNCHANGED callerVars /\ queue.status = "visible"
    BY <1>1, Zenon DEF StartExecution, ThrottledStart, RedriveAfterExecutions
  <2>2. JudgedInv(v)'
    BY <1>b, <2>1, JudgedElsewhere, Zenon DEF callerVars, callerDurable
  <2>3. exec.status = "none" /\ inv.step = "idle"
    BY <2>1, Zenon DEF LayerInv
  <2>4. request' = request /\ inv' = inv /\ OrphansOf(request)' = OrphansOf(request)
    BY <2>1, Zenon DEF OrphansOf, callerVars
  <2>5. LayersMove
    BY <1>0, <1>1, <1>d, <2>3, <2>4 DEF StartExecution, ThrottledStart, RedriveAfterExecutions, LayersMove
  <2> QED
    BY <1>c, <2>2, <2>5, LayersMoved, Zenon
<1>2. CASE MessageSettled \/ UNCHANGED durableVars \/ ProviderActsOnCall
  <2>1. UNCHANGED <<callerDurable, inv, queue, exec>> /\ (effects' = effects \/ Provider!ProviderStep)
    BY <1>2, Zenon DEF MessageSettled, durableVars, callerVars, callerDurable, ProviderActsOnCall
  <2>2. JudgedInv(v)'
    BY <1>b, <2>1, JudgedElsewhere, EffectsGrow, Zenon
  <2>3. request' = request /\ OrphansOf(request)' = OrphansOf(request)
    BY <2>1, Zenon DEF OrphansOf, callerDurable
  <2> QED
    BY <1>c, <2>1, <2>2, <2>3, Zenon DEF LayerInv
<1>3. CASE RunStepAttempt
  <2> DEFINE p == IF At("result") THEN DecidedStep ELSE STILL_RUNNING
  <2>1. InvocationStep(v, p) /\ UNCHANGED <<queue, exec>> /\ p \in ProcessingUpdates
    BY <1>3, <1>a, DecidedStepType, Zenon DEF RunStepAttempt
  <2>2. /\ inv.step = "result" /\ p.reason = "SUCCEEDED" => OutcomeClass = "SUCCESS"
        /\ inv.step = "result" /\ p.reason = "RETRIES_EXHAUSTED" =>
             queue.receives = MaxReceiveCount /\ exec.step_attempt = StepAttempts
    BY <1>0, StepDecisionSound, Zenon DEF At
  <2> HIDE DEF p
  <2>3. JudgedInv(v)'
    BY <1>0, <1>b, <2>1, <2>2, JudgedStep, Zenon
  <2>4. /\ inv.step \notin {"idle", "conclude", "thrown"} /\ inv'.step # "idle"
        /\ inv'.step = "resultWrite" => inv.step = "result" /\ inv'.processing = p
        /\ \/ request'.reason = request.reason
           \/ request'.reason # "RETRIES_EXHAUSTED"
           \/ /\ inv.step = "resultWrite" /\ inv.processing.reason = "RETRIES_EXHAUSTED"
              /\ inv'.step \in {"conclude", "thrown"}
    BY <1>0, <1>b, <2>1, ExhaustedWrite, Zenon
  <2> QED
    BY <1>c, <2>1, <2>2, <2>3, <2>4, Zenon DEF LayerInv
<1>4. CASE StartStepAttempt \/ CompleteExecution \/ StepAttemptFailed \/ StepAttemptLost \/ ExecutionTimeout
  <2>1. /\ inv' = IdleInvocation \/ inv' = [IdleInvocation EXCEPT !.step = "start"]
        /\ UNCHANGED <<callerDurable, transport, effects>>
    BY <1>4, Zenon DEF StartStepAttempt, CompleteExecution, StepAttemptFailed, StepAttemptLost, ExecutionTimeout
  <2>2. JudgedInv(v)'
    BY <1>b, <2>1, JudgedRestart, Zenon
  <2>3. request' = request /\ OrphansOf(request)' = OrphansOf(request) /\ inv'.step \in {"idle", "start"}
    BY <2>1 DEF OrphansOf, callerDurable, IdleInvocation
  <2>4. inv'.step = "start" => StartStepAttempt
    BY <1>4 DEF CompleteExecution, StepAttemptFailed, StepAttemptLost, ExecutionTimeout, IdleInvocation
  <2>5. /\ exec'.status # "none" => queue'.status = "inflight"
        /\ queue'.status = "deleted" => queue.status = "deleted" \/ inv.step = "conclude"
        /\ queue'.receives = queue.receives
        /\ exec'.step_attempt = exec.step_attempt \/ exec.step_attempt # StepAttempts
        /\ StartStepAttempt => exec'.status = "running"
    BY <1>0, <1>4, <1>d, Zenon DEF LayerInv, StartStepAttempt, CompleteExecution, StepAttemptFailed, StepAttemptLost,
       ExecutionTimeout, At
  <2>6. LayersMove
    BY <2>3, <2>4, <2>5, Zenon DEF LayersMove
  <2> QED
    BY <1>c, <2>2, <2>6, LayersMoved, Zenon
<1> QED
  BY <1>1, <1>2, <1>3, <1>4, Zenon DEF DurableNext

\* Both parts of the invariant hold in every reachable state.
THEOREM DurableLayers ==
  DurableSpec => [](DurableInv /\ LayerInv)
<1>1. DurableInit => LayerInv
  BY LayerInit, Zenon
<1> QED
  BY <1>1, LayerNext, DurableInvariant, PTL DEF DurableSpec

\* A message is deleted only when every call that may have reached the provider is
\* accounted for, over all step attempts, re-runs and executions of it.
THEOREM DurableDeletedAccountsForAll ==
  DurableSpec => []DeletedAccountsForAll
<1>1. DurableInv /\ LayerInv => DeletedAccountsForAll
  BY AllAccounted, Zenon DEF DurableInv, LayerInv, DeletedAccountsForAll
<1> QED
  BY <1>1, DurableLayers, PTL

\* A request recorded as SUCCEEDED has a ledger transaction of an accounted attempt.
THEOREM DurableSucceededHasEffect ==
  DurableSpec => []SucceededHasEffect
<1>1. LayerInv => SucceededHasEffect
  BY Zenon DEF LayerInv, JudgedInv
<1> QED
  BY <1>1, DurableLayers, PTL

\* Effect knowledge never moves back toward fewer confirmed effects and no
\* accounted attempt is dropped, over every state write of every step attempt.
THEOREM DurableKnowledgeNeverRetreats ==
  DurableSpec => KnowledgeNeverRetreats
<1>1. DurableInv /\ [DurableNext]_durableVars => [Retains]_callerVars
  <2> SUFFICES ASSUME DurableInv, [DurableNext]_durableVars PROVE [Retains]_callerVars
    BY Zenon
  <2>1. CallerInv
    BY Zenon DEF DurableInv
  <2>2. CASE RunStepAttempt
    BY <2>1, <2>2, InvocationRetains, Zenon DEF RunStepAttempt
  <2>3. CASE ~RunStepAttempt
    <3>1. request' = request
      BY <2>3, Zenon DEF DurableNext, durableVars, callerVars, callerDurable, StartExecution, ThrottledStart, RedriveAfterExecutions, StartStepAttempt,
         CompleteExecution, StepAttemptFailed, StepAttemptLost, ExecutionTimeout, ProviderActsOnCall, MessageSettled
    <3> QED
      BY <2>1, <3>1, SameRequest, Zenon
  <2> QED
    BY <2>2, <2>3, Zenon
<1>2. [Retains]_callerVars <=> [/\ KnowledgeRank[request.effect_knowledge] <= KnowledgeRank[request'.effect_knowledge]
                                /\ request.attempt_ids \subseteq request'.attempt_ids]_callerVars
  BY Zenon DEF Retains
<1> QED
  BY <1>1, <1>2, DurableInvariant, PTL DEF DurableSpec, KnowledgeNeverRetreats

\* No delivery and no step retry follows a recorded RETRIES_EXHAUSTED: it was the
\* last step attempt of the last receive (BR-RUA-024).
THEOREM DurableExhaustedIsLast ==
  DurableSpec => ExhaustedLayersAreLast
<1>1. DurableInv /\ LayerInv /\ [DurableNext]_durableVars =>
        [request.reason = "RETRIES_EXHAUSTED" =>
           queue'.receives = queue.receives /\ exec'.step_attempt = exec.step_attempt]_durableVars
  <2> SUFFICES ASSUME DurableInv, LayerInv, [DurableNext]_durableVars, request.reason = "RETRIES_EXHAUSTED"
               PROVE  queue'.receives = queue.receives /\ exec'.step_attempt = exec.step_attempt
    BY Zenon
  <2>1. /\ queue.receives = MaxReceiveCount /\ exec.step_attempt = StepAttempts
        /\ MaxReceiveCount \in Nat /\ StepAttempts \in Nat
    BY LayerAssumption, ReceiveAssumption, Zenon DEF LayerInv
  <2>2. /\ queue \in [status : {"visible", "inflight", "deleted", "dlq"}, receives : 0 .. MaxReceiveCount]
        /\ exec \in [status : {"none", "ready", "running"}, step_attempt : 0 .. StepAttempts, reruns : 0 .. MaxReruns]
    BY Zenon DEF DurableInv, DurableTypeOK
  <2>3. CASE StartExecution \/ ThrottledStart \/ RedriveAfterExecutions
    BY <2>1, <2>2, <2>3 DEF StartExecution, ThrottledStart, RedriveAfterExecutions
  <2>4. CASE StartStepAttempt \/ StepAttemptLost
    BY <2>2, <2>4, Zenon DEF StartStepAttempt, StepAttemptLost
  <2>5. CASE CompleteExecution \/ ExecutionTimeout
    BY <2>2, <2>5, Zenon DEF CompleteExecution, ExecutionTimeout
  <2>6. CASE StepAttemptFailed
    BY <2>1, <2>2, <2>6 DEF StepAttemptFailed
  <2>7. CASE RunStepAttempt \/ ProviderActsOnCall \/ MessageSettled \/ UNCHANGED durableVars
    BY <2>7, Zenon DEF RunStepAttempt, ProviderActsOnCall, MessageSettled, durableVars
  <2> QED
    BY <2>3, <2>4, <2>5, <2>6, <2>7, Zenon DEF DurableNext
<1> QED
  BY <1>1, DurableLayers, PTL DEF DurableSpec, ExhaustedLayersAreLast
=============================================================================
