--------------------------- MODULE DurableVariant ---------------------------
(***************************************************************************)
(* The Durable variant over one trial message: a delivery starts a Durable *)
(* execution with one step, whose attempts each run one caller invocation. *)
(* A failed step attempt is retried after a delay while attempts remain;   *)
(* an execution that fails leaves the message to the source's redelivery.  *)
(* Step semantics are at least once per retry: a step attempt whose result *)
(* was not checkpointed runs again under the same attempt number.          *)
(***************************************************************************)
EXTENDS RefundCaller, TLC

CONSTANTS
  StepAttempts,      \* DURABLE_STEP_ATTEMPTS
  MaxReruns          \* bound: re-runs of an uncheckpointed step attempt, in all

ASSUME LayerAssumption ==
  /\ StepAttempts \in Nat \ {0}
  /\ MaxReruns \in Nat

VARIABLE exec   \* the Durable execution of the delivery in flight

durableVars == <<callerVars, queue, valid, exec>>

NoExecution == [status |-> "none", step_attempt |-> 0, reruns |-> 0]

DurableTypeOK ==
  /\ CallerTypeOK
  /\ queue \in [status : {"visible", "inflight", "deleted", "dlq"}, receives : 0 .. MaxReceiveCount]
  /\ valid \in BOOLEAN
  /\ exec \in [status : {"none", "ready", "running"}, step_attempt : 0 .. StepAttempts,
               reruns : 0 .. MaxReruns]

DurableInit ==
  /\ CallerInit
  /\ queue = [status |-> "visible", receives |-> 0]
  /\ valid \in BOOLEAN
  /\ exec = NoExecution

-----------------------------------------------------------------------------
\* The event source mapping starts an execution, ready for its first step attempt.
StartExecution ==
  /\ queue.status = "visible"
  /\ queue.receives < MaxReceiveCount
  /\ queue' = [status |-> "inflight", receives |-> queue.receives + 1]
  /\ exec' = [exec EXCEPT !.status = "ready", !.step_attempt = 1]
  /\ UNCHANGED <<callerVars, valid>>

ThrottledStart ==
  /\ queue.status = "visible"
  /\ queue.receives < MaxReceiveCount
  /\ queue' = [queue EXCEPT !.receives = @ + 1]
  /\ UNCHANGED <<callerVars, valid, exec>>

RedriveAfterExecutions ==
  /\ queue.status = "visible"
  /\ queue.receives = MaxReceiveCount
  /\ queue' = [queue EXCEPT !.status = "dlq"]
  /\ UNCHANGED <<callerVars, valid, exec>>

\* The SDK runs the step function; a retry runs it after the fixed delay.
StartStepAttempt ==
  /\ exec.status = "ready"
  /\ exec' = [exec EXCEPT !.status = "running"]
  /\ inv' = [IdleInvocation EXCEPT !.step = "start"]
  /\ UNCHANGED <<callerDurable, transport, effects, queue, valid>>

\* decideDurableStep and decideDurableExhaustion
DecidedStep ==
  IF OutcomeClass \in {"SUCCESS", "REJECTION"}
  THEN DEFINITIVE_FINISHES[OutcomeClass]
  ELSE decideTerminality(queue.receives, MaxReceiveCount, exec.step_attempt >= StepAttempts)

RunStepAttempt ==
  /\ InvocationStep(valid, IF At("result") THEN DecidedStep ELSE STILL_RUNNING)
  /\ UNCHANGED <<queue, valid, exec>>

\* The step result is checkpointed, the execution succeeds and the message is
\* deleted, unless the deletion is lost.
CompleteExecution ==
  /\ At("conclude")
  /\ Completes
  /\ inv' = IdleInvocation
  /\ exec' = [exec EXCEPT !.status = "none"]
  /\ \E status \in {"deleted", "visible"} : queue' = [queue EXCEPT !.status = status]
  /\ UNCHANGED <<callerDurable, transport, effects, valid>>

\* createStepRetryStrategy: every error is retried the same way, while fewer
\* than StepAttempts attempts were made; then the execution fails.  (#conclude
\* appends inner_execution_exhausted before it throws; the append changes
\* nothing the caller reads again.)
StepAttemptFailed ==
  /\ \/ At("thrown")
     \/ At("conclude") /\ ~Completes
  /\ inv' = IdleInvocation
  /\ IF exec.step_attempt < StepAttempts
     THEN /\ exec' = [exec EXCEPT !.status = "ready", !.step_attempt = @ + 1]
          /\ UNCHANGED queue
     ELSE /\ exec' = [exec EXCEPT !.status = "none"]
          /\ queue' = [queue EXCEPT !.status = "visible"]
  /\ UNCHANGED <<callerDurable, transport, effects, valid>>

\* The environment is lost before the step attempt was checkpointed: the same
\* attempt number runs again.
StepAttemptLost ==
  /\ exec.status = "running"
  /\ exec.reruns < MaxReruns
  /\ exec' = [exec EXCEPT !.status = "ready", !.reruns = @ + 1]
  /\ inv' = IdleInvocation
  /\ UNCHANGED <<callerDurable, transport, effects, queue, valid>>

\* The execution reaches its own timeout, wherever it is.
ExecutionTimeout ==
  /\ exec.status # "none"
  /\ exec' = [exec EXCEPT !.status = "none"]
  /\ inv' = IdleInvocation
  /\ queue' = [queue EXCEPT !.status = "visible"]
  /\ UNCHANGED <<callerDurable, transport, effects, valid>>

ProviderActsOnCall ==
  /\ Provider!ProviderStep
  /\ UNCHANGED <<callerDurable, inv, queue, valid, exec>>

MessageSettled ==
  /\ queue.status \in {"deleted", "dlq"}
  /\ UNCHANGED durableVars

DurableNext ==
  \/ StartExecution \/ ThrottledStart \/ RedriveAfterExecutions
  \/ StartStepAttempt \/ RunStepAttempt \/ CompleteExecution \/ StepAttemptFailed
  \/ StepAttemptLost \/ ExecutionTimeout
  \/ ProviderActsOnCall
  \/ MessageSettled

DurableSpec == DurableInit /\ [][DurableNext]_durableVars

\* No step tells one attempt identity from another.
AttemptSymmetry == Permutations(Attempts)

-----------------------------------------------------------------------------
\* RETRIES_EXHAUSTED is recorded only when neither retry layer has anything left
\* (BR-RUA-024, decideDurableStep): no delivery and no step retry follows it.
ExhaustedLayersAreLast ==
  [][request.reason = "RETRIES_EXHAUSTED" =>
       /\ queue'.receives = queue.receives
       /\ exec'.step_attempt = exec.step_attempt]_durableVars
=============================================================================
