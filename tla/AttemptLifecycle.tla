-------------------------- MODULE AttemptLifecycle --------------------------
(***************************************************************************)
(* The pure decisions about one physical provider attempt and about the    *)
(* request it belongs to: how an attempt outcome is classified, what a     *)
(* class adds to the request's effect knowledge, and when a failed retry   *)
(* layer ends request processing.  Also the outcomes of a durable write,   *)
(* which every component above the item store decides on.                  *)
(***************************************************************************)
EXTENDS Naturals, Sequences

AttemptOutcomes == {"SUCCEEDED", "REJECTED", "TIMED_OUT", "FAILED"}

DispatchStates == {"NOT_DISPATCHED", "DISPATCHED", "UNKNOWN"}

OutcomeClasses == {"PRE_DISPATCH_FAILURE", "REJECTION", "SUCCESS", "AMBIGUOUS"}

\* `INVALID' stands for the error value the source returns for a pair that
\* BR-RUA-021 forbids.
classifyOutcome(outcome, dispatch) ==
  IF outcome = "FAILED"
  THEN IF dispatch = "NOT_DISPATCHED" THEN "PRE_DISPATCH_FAILURE" ELSE "AMBIGUOUS"
  ELSE IF dispatch = "NOT_DISPATCHED"
       THEN "INVALID"
       ELSE IF outcome = "SUCCEEDED" THEN "SUCCESS"
       ELSE IF outcome = "REJECTED" THEN "REJECTION" ELSE "AMBIGUOUS"

-----------------------------------------------------------------------------
EffectKnowledge ==
  {"NOT_ATTEMPTED", "NO_EFFECT_CONFIRMED", "ONE_EFFECT_CONFIRMED",
   "MULTIPLE_EFFECTS_CONFIRMED", "UNKNOWN"}

INITIAL_EFFECT_KNOWLEDGE == "NOT_ATTEMPTED"

\* Faulty variant: a second success is not counted.
nextEffectKnowledgeSaturating(from, cls) ==
  IF from = "UNKNOWN" \/ cls = "AMBIGUOUS" THEN "UNKNOWN"
  ELSE IF cls = "SUCCESS" THEN "ONE_EFFECT_CONFIRMED"
  ELSE IF cls = "REJECTION" /\ from = "NOT_ATTEMPTED" THEN "NO_EFFECT_CONFIRMED" ELSE from

\* What one more attempt of a class makes of the knowledge so far.
EFFECT_KNOWLEDGE_TABLE ==
  [NOT_ATTEMPTED |->
     [PRE_DISPATCH_FAILURE |-> "NOT_ATTEMPTED", REJECTION |-> "NO_EFFECT_CONFIRMED",
      SUCCESS |-> "ONE_EFFECT_CONFIRMED", AMBIGUOUS |-> "UNKNOWN"],
   NO_EFFECT_CONFIRMED |->
     [PRE_DISPATCH_FAILURE |-> "NO_EFFECT_CONFIRMED", REJECTION |-> "NO_EFFECT_CONFIRMED",
      SUCCESS |-> "ONE_EFFECT_CONFIRMED", AMBIGUOUS |-> "UNKNOWN"],
   ONE_EFFECT_CONFIRMED |->
     [PRE_DISPATCH_FAILURE |-> "ONE_EFFECT_CONFIRMED", REJECTION |-> "ONE_EFFECT_CONFIRMED",
      SUCCESS |-> "MULTIPLE_EFFECTS_CONFIRMED", AMBIGUOUS |-> "UNKNOWN"],
   MULTIPLE_EFFECTS_CONFIRMED |->
     [PRE_DISPATCH_FAILURE |-> "MULTIPLE_EFFECTS_CONFIRMED", REJECTION |-> "MULTIPLE_EFFECTS_CONFIRMED",
      SUCCESS |-> "MULTIPLE_EFFECTS_CONFIRMED", AMBIGUOUS |-> "UNKNOWN"],
   UNKNOWN |->
     [PRE_DISPATCH_FAILURE |-> "UNKNOWN", REJECTION |-> "UNKNOWN", SUCCESS |-> "UNKNOWN",
      AMBIGUOUS |-> "UNKNOWN"]]

nextEffectKnowledge(from, cls) == EFFECT_KNOWLEDGE_TABLE[from][cls]

isPermittedKnowledgeTransition(from, to) ==
  \E cls \in OutcomeClasses : to = nextEffectKnowledge(from, cls)

\* Array.reduce over the classes: the chain of intermediate knowledge values,
\* of which the last one is the result.
foldEffectKnowledge(from, classes) ==
  LET n == Len(classes)
      chain == CHOOSE k \in [0 .. n -> EffectKnowledge] :
                 /\ k[0] = from
                 /\ \A i \in 1 .. n : k[i] = nextEffectKnowledge(k[i - 1], classes[i])
  IN  chain[n]

-----------------------------------------------------------------------------
AttemptPhases == {"PRE_DISPATCH", "DISPATCHED", "NOT_DISPATCHED"}

\* The class an attempt without a recorded outcome adds, from its durable phase.
classOfPhase(phase) ==
  IF phase = "NOT_DISPATCHED" THEN "PRE_DISPATCH_FAILURE" ELSE "AMBIGUOUS"

ProcessingStates == {"NOT_STARTED", "RUNNING", "FINISHED"}

FinishReasons == {"NONE", "SUCCEEDED", "PROVIDER_REJECTED", "RETRIES_EXHAUSTED", "MESSAGE_REJECTED"}

STILL_RUNNING == [state |-> "RUNNING", reason |-> "NONE"]

RETRIES_EXHAUSTED == [state |-> "FINISHED", reason |-> "RETRIES_EXHAUSTED"]

MESSAGE_REJECTED == [state |-> "FINISHED", reason |-> "MESSAGE_REJECTED"]

DEFINITIVE_FINISHES ==
  [SUCCESS   |-> [state |-> "FINISHED", reason |-> "SUCCEEDED"],
   REJECTION |-> [state |-> "FINISHED", reason |-> "PROVIDER_REJECTED"]]

ProcessingUpdates ==
  {STILL_RUNNING, RETRIES_EXHAUSTED, MESSAGE_REJECTED,
   DEFINITIVE_FINISHES["SUCCESS"], DEFINITIVE_FINISHES["REJECTION"]}

\* Terminality of a failed retry layer; `innerExhausted' is TRUE for the
\* conventional variant, which has no inner layer.
decideTerminality(receiveCount, maxReceiveCount, innerExhausted) ==
  IF innerExhausted /\ receiveCount >= maxReceiveCount
  THEN RETRIES_EXHAUSTED
  ELSE STILL_RUNNING

-----------------------------------------------------------------------------
\* What a conditional durable write may do.  An ambiguous write took effect or
\* did not, and its writer cannot tell which; a rejected one is the definitive
\* failure left after the writer's budget of identical retries.
WriteOutcomes(condition) ==
  IF condition
  THEN {"applied", "rejected", "ambiguous_landed", "ambiguous_lost"}
  ELSE {"condition_failed", "rejected", "ambiguous_lost"}

Landed(outcome) == outcome \in {"applied", "ambiguous_landed"}

IsAmbiguous(outcome) == outcome \in {"ambiguous_landed", "ambiguous_lost"}

\* What an append does to a journal instance: it is appended, or the instance
\* stops for good (on ambiguity, or when its retries are used up), in which
\* case the event may still have landed.
AppendOutcomes == {"appended", "stopped_landed", "stopped_lost"}

AppendLanded(outcome) == outcome \in {"appended", "stopped_landed"}
=============================================================================
