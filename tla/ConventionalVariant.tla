------------------------ MODULE ConventionalVariant -------------------------
(***************************************************************************)
(* The conventional variant over one trial message: an SQS FIFO source     *)
(* with a redrive threshold, a Lambda consumer that runs one caller        *)
(* invocation per delivery and never deduplicates, and the provider as its *)
(* contract describes it.  Crashes, throttled receives, faults, lost       *)
(* deletions and ambiguous writes may happen at every step.                *)
(***************************************************************************)
EXTENDS RefundCaller

vars == <<callerVars, queue, valid>>

TypeOK ==
  /\ CallerTypeOK
  /\ queue \in [status : {"visible", "inflight", "deleted", "dlq"}, receives : 0 .. MaxReceiveCount]
  /\ valid \in BOOLEAN

Init ==
  /\ CallerInit
  /\ queue = [status |-> "visible", receives |-> 0]
  /\ valid \in BOOLEAN

-----------------------------------------------------------------------------
\* The event source mapping receives the message and invokes the consumer with
\* a new journal instance.
Receive ==
  /\ queue.status = "visible"
  /\ queue.receives < MaxReceiveCount
  /\ queue' = [status |-> "inflight", receives |-> queue.receives + 1]
  /\ inv' = [IdleInvocation EXCEPT !.step = "start"]
  /\ UNCHANGED <<callerDurable, transport, effects, valid>>

\* A throttled invocation uses up a receive without running the consumer.
ThrottledReceive ==
  /\ queue.status = "visible"
  /\ queue.receives < MaxReceiveCount
  /\ queue' = [queue EXCEPT !.receives = @ + 1]
  /\ UNCHANGED <<callerVars, valid>>

\* Faulty variant: the message goes back to its source with a fresh count.
RedriveToSource ==
  /\ queue.status = "visible"
  /\ queue.receives = MaxReceiveCount
  /\ queue' = [queue EXCEPT !.receives = 0]
  /\ UNCHANGED <<callerVars, valid>>

\* The redrive policy moves the message at the receive after the last one.
Redrive ==
  /\ queue.status = "visible"
  /\ queue.receives = MaxReceiveCount
  /\ queue' = [queue EXCEPT !.status = "dlq"]
  /\ UNCHANGED <<callerVars, valid>>

\* decideConventionalDisposition
DecidedProcessing ==
  IF OutcomeClass \in {"SUCCESS", "REJECTION"}
  THEN DEFINITIVE_FINISHES[OutcomeClass]
  ELSE decideTerminality(queue.receives, MaxReceiveCount, TRUE)

Consume ==
  /\ InvocationStep(valid, IF At("result") THEN DecidedProcessing ELSE STILL_RUNNING)
  /\ UNCHANGED <<queue, valid>>

\* A completed delivery is deleted by the event source mapping; a deletion that
\* is lost leaves the message to its visibility timeout.
CompleteDelivery ==
  /\ At("conclude")
  /\ Completes
  /\ inv' = IdleInvocation
  /\ \E status \in {"deleted", "visible"} : queue' = [queue EXCEPT !.status = status]
  /\ UNCHANGED <<callerDurable, transport, effects, valid>>

\* A propagated failure or a fault returns the message after its visibility
\* timeout.
PropagateFailure ==
  /\ \/ At("thrown")
     \/ At("conclude") /\ ~Completes
  /\ inv' = IdleInvocation
  /\ queue' = [queue EXCEPT !.status = "visible"]
  /\ UNCHANGED <<callerDurable, transport, effects, valid>>

\* The environment of the invocation is lost (a crash or the 10 s timeout).
Crash ==
  /\ ~At("idle")
  /\ inv' = IdleInvocation
  /\ queue' = [queue EXCEPT !.status = "visible"]
  /\ UNCHANGED <<callerDurable, transport, effects, valid>>

ProviderActs ==
  /\ Provider!ProviderStep
  /\ UNCHANGED <<callerDurable, inv, queue, valid>>

Done ==
  /\ queue.status \in {"deleted", "dlq"}
  /\ UNCHANGED vars

Next ==
  \/ Receive \/ ThrottledReceive \/ Redrive
  \/ Consume \/ CompleteDelivery \/ PropagateFailure \/ Crash
  \/ ProviderActs
  \/ Done

Spec == Init /\ [][Next]_vars

\* The event source mapping keeps polling, the redrive policy is applied, and a
\* running invocation proceeds (its own deadline timer bounds the race) or ends.
Proceeds == Receive \/ Redrive \/ Consume \/ CompleteDelivery \/ PropagateFailure

Fairness == WF_vars(Proceeds)

FairSpec == Spec /\ Fairness

-----------------------------------------------------------------------------
\* RETRIES_EXHAUSTED is recorded only when no layer can redeliver (BR-RUA-024,
\* decideTerminality): no attempt is registered after it.
ExhaustedIsLast ==
  [][request.reason = "RETRIES_EXHAUSTED" => attemptState' = attemptState]_vars

\* The trial message always leaves its source: by deletion or to the dead-letter
\* queue, however deliveries fail.
MessageLeavesSource == <>(queue.status \in {"deleted", "dlq"})

\* orphan-attempts.ts:4-6 says that the next delivery folds an orphan in, "so
\* effect knowledge never forgets a call that may have reached the provider".
NeverForgetsACall ==
  queue.status \in {"deleted", "dlq"} =>
    \A a \in Attempts : transport[a] # "IDLE" => a \in request.attempt_ids
=============================================================================
