----------------------------- MODULE MCProgress -----------------------------
(***************************************************************************)
(* What must eventually happen: an execution ends, so does a provider call *)
(* that the treatment holds, and a trial message leaves its source.  The   *)
(* three share no state; `part' says which of them a behaviour is about.   *)
(***************************************************************************)
EXTENDS ExecutionRunner

CONSTANTS Attempts, NoAttempt, MaxTries, MAX_RELEASE_ATTEMPTS, CallerAttempts, MaxReceiveCount

VARIABLES part,
          scenario, treatment, transport, effects, call, deadline, providerEvents,
          stream, ctrl, controllerEvents, release, timeouts,
          attemptState, outcomeEvents, timeoutEvents, request, inv, callerTransport, callerEffects, queue, valid

treatmentVars == <<scenario, treatment, transport, effects, call, deadline, providerEvents,
                   stream, ctrl, controllerEvents, release, timeouts>>

messageVars == <<attemptState, outcomeEvents, timeoutEvents, request, inv, callerTransport, callerEffects,
                 queue, valid>>

Treatment == INSTANCE TreatmentProtocol

Message == INSTANCE ConventionalVariant
             WITH Attempts <- CallerAttempts, transport <- callerTransport, effects <- callerEffects

OneTrial == {[kind |-> "RUN", units |-> 1, stoppable |-> {}, losable |-> {}]}

ProgressInit ==
  /\ part \in {"execution", "treatment", "message"}
  /\ Init
  /\ Treatment!Init /\ (part # "treatment" => scenario = "CONTROL")
  /\ Message!Init /\ (part # "message" => valid)

ExecutionNext == part = "execution" /\ Next /\ UNCHANGED <<treatmentVars, messageVars>>
TreatmentNext == part = "treatment" /\ Treatment!Next /\ UNCHANGED <<vars, messageVars>>
MessageNext == part = "message" /\ Message!Next /\ UNCHANGED <<vars, treatmentVars>>
ProgressNext == (ExecutionNext \/ TreatmentNext \/ MessageNext) /\ UNCHANGED part

\* The fairness of ExecutionRunner, TreatmentProtocol and ConventionalVariant,
\* each for its part.
TreatmentStep(A) == part = "treatment" /\ Treatment!Alone(A)
ProgressSpec ==
  /\ ProgressInit
  /\ [][ProgressNext]_<<part, vars, treatmentVars, messageVars>>
  /\ WF_vars(part = "execution" /\ RunnerStep)
  /\ WF_vars(part = "execution" /\ Tick)
  /\ WF_vars(part = "execution" /\ ReportLoss)
  /\ \A a \in Attempts :
       /\ WF_treatmentVars(TreatmentStep(Treatment!DeadlinePasses(a)))
       /\ SF_treatmentVars(TreatmentStep(Treatment!Poll(a, TRUE)))
       /\ SF_treatmentVars(TreatmentStep(Treatment!Transition(a, "applied")))
       /\ SF_treatmentVars(TreatmentStep(Treatment!Transition(a, "condition_failed")))
       /\ WF_treatmentVars(TreatmentStep(Treatment!RecordExternalRelease(a)))
  /\ WF_messageVars(part = "message" /\ Message!Proceeds)

\* Every execution ends: an uncertain lease, a lost one, an abort or a
\* deadline never leaves the runner waiting (awaitUnitStart, observe).
EveryExecutionEnds == <>(part = "execution" => pc = "done")

\* A held call is never held for ever: the signal, cleanup or the safety release
\* ends the wait (awaitRelease with decideBarrierStep), Lambda timeout aside.
HeldCallEnds == Treatment!HeldCallEnds

\* The trial message always leaves its source, by deletion or to the dead-letter
\* queue, however deliveries fail and receives are throttled (decideTerminality,
\* the redrive threshold).
MessageLeavesSource == part = "message" => Message!MessageLeavesSource
=============================================================================
