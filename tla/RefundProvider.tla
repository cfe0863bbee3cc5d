--------------------------- MODULE RefundProvider ---------------------------
(***************************************************************************)
(* The controlled refund provider: one Lambda invocation per call, each    *)
(* with its own journal instance.  A call is judged, committed in one      *)
(* transaction (which consumes an ARMED treatment when the call is the     *)
(* targeted one) and answered; the targeted call is held at the treatment  *)
(* barrier first.  Every journal stop and every ambiguous write ends the   *)
(* call in a fault.                                                        *)
(***************************************************************************)
EXTENDS TreatmentItem

VARIABLES
  transport,       \* what the caller's transport can know of each call
  effects,         \* attempts with a ledger transaction
  call,            \* the provider invocation of each attempt
  deadline,        \* calls held for the safety-release time since their commit
  providerEvents   \* per attempt, the events an answered call must have in the experiment journal

providerVars == <<transport, effects, call, deadline, providerEvents>>

CallSteps == {"none", "unattributed", "open", "judge", "commit", "commitFailed", "confirm", "respond",
              "poll", "observe", "release", "safetyRelease", "external", "ended"}

\* What a call's payload is to the provider.
CallKinds == {"unattributable", "unacceptable", "acceptable"}

CommitKinds == {"targeted", "untargeted"}

\* `kind': the payload; `plan': the commit kind in force; `late': the plan of an
\* ambiguous commit request that the store may still execute.
Calls == [step : CallSteps, kind : CallKinds, plan : CommitKinds, late : CommitKinds \cup {"none"}]

NoCall == [step |-> "none", kind |-> "acceptable", plan |-> "untargeted", late |-> "none"]

ProviderEventTypes ==
  {"provider_call_rejected", "provider_commit_confirmed", "provider_response_returned",
   "treatment_timeout_observed", "treatment_response_released", "treatment_safety_released"}

ProviderTypeOK ==
  /\ transport \in [Attempts -> {"IDLE", "SENT", "SUCCEEDED", "REJECTED", "FAULT"}]
  /\ effects \subseteq Attempts
  /\ call \in [Attempts -> Calls]
  /\ deadline \subseteq Attempts
  /\ providerEvents \in [Attempts -> SUBSET ProviderEventTypes]

ProviderInit ==
  /\ transport = [a \in Attempts |-> "IDLE"]
  /\ effects = {}
  /\ call = [a \in Attempts |-> NoCall]
  /\ deadline = {}
  /\ providerEvents = [a \in Attempts |-> {}]

-----------------------------------------------------------------------------
AtStep(a, step) == call[a].step = step

StepTo(a, step) == call' = [call EXCEPT ![a].step = step]

\* The invocation ends, with a response or with a fault.
EndWith(a, answer) ==
  /\ StepTo(a, "ended")
  /\ transport' = [transport EXCEPT ![a] = answer]

Record(a, event, landed) ==
  providerEvents' = IF landed THEN [providerEvents EXCEPT ![a] = @ \cup {event}] ELSE providerEvents

\* Faulty variant: answers a journal stop with a rejection.
AppendThenRejecting(a, event, step) ==
  \E o \in AppendOutcomes :
    /\ Record(a, event, AppendLanded(o))
    /\ IF o = "appended" THEN StepTo(a, step) /\ UNCHANGED transport ELSE EndWith(a, "REJECTED")

\* appendOrFault, followed by `next'.
AppendThen(a, event, step) ==
  \E o \in AppendOutcomes :
    /\ Record(a, event, AppendLanded(o))
    /\ IF o = "appended" THEN StepTo(a, step) /\ UNCHANGED transport ELSE EndWith(a, "FAULT")

\* appendOrFault of the last event before the response.
AppendAndAnswer(a, event, answer) ==
  \E o \in AppendOutcomes :
    /\ Record(a, event, AppendLanded(o))
    /\ EndWith(a, IF o = "appended" THEN answer ELSE "FAULT")

\* The caller invokes the provider once for attempt `a'.
Invoke(a) ==
  /\ transport[a] = "IDLE"
  /\ transport' = [transport EXCEPT ![a] = "SENT"]
  /\ \E kind \in CallKinds :
       call' = [call EXCEPT ![a].kind = kind,
                            ![a].step = IF kind = "unattributable" THEN "unattributed" ELSE "open"]
  /\ UNCHANGED <<effects, deadline, providerEvents, scenario, treatment>>

\* The environment of the invocation is lost, or it reaches its Lambda timeout;
\* readOrFault, and a journal that cannot be written, end it the same way.
FaultCall(a) ==
  /\ call[a].step \notin {"none", "ended"}
  /\ EndWith(a, "FAULT")
  /\ UNCHANGED <<effects, deadline, providerEvents, scenario, treatment>>

RejectUnattributed(a) ==
  /\ AtStep(a, "unattributed")
  /\ AppendAndAnswer(a, "provider_call_rejected", "REJECTED")
  /\ UNCHANGED <<effects, deadline, scenario, treatment>>

\* #openSession: the treatment read here decides later whether the call is the
\* targeted one; then provider_call_received is appended.
OpenSession(a) ==
  /\ AtStep(a, "open")
  /\ call' = [call EXCEPT ![a].step = "judge",
                          ![a].plan = IF scenario = "COMMIT_THEN_TIMEOUT" /\ treatment.state = "ARMED"
                                      THEN "targeted" ELSE "untargeted"]
  /\ UNCHANGED <<transport, effects, deadline, providerEvents, scenario, treatment>>

\* evaluateAcceptance, then #reject or provider_call_accepted.
Judge(a) ==
  /\ AtStep(a, "judge")
  /\ IF call[a].kind = "acceptable"
     THEN StepTo(a, "commit") /\ UNCHANGED <<transport, providerEvents>>
     ELSE AppendAndAnswer(a, "provider_call_rejected", "REJECTED")
  /\ UNCHANGED <<effects, deadline, scenario, treatment>>

-----------------------------------------------------------------------------
\* planCommit: the ledger put, the journal put and, for a targeted plan, the
\* treatment update conditioned on ARMED, in one transaction.
CommitCondition(plan) == plan = "targeted" => treatment.state = "ARMED"

CommitApplied(a, plan) ==
  /\ effects' = effects \cup {a}
  /\ treatment' = IF plan = "targeted" THEN [MovedTo("COMMITTED_WAITING") EXCEPT !.owner = a]
                  ELSE treatment

\* attemptCommit: applied; a failed treatment condition, which re-plans the
\* commit as untargeted; a definitive failure; or an ambiguous outcome, which
\* faults and leaves a request that may still be executed.
Commit(a) ==
  /\ AtStep(a, "commit")
  /\ LET plan == call[a].plan
     IN  \/ /\ CommitCondition(plan)
            /\ CommitApplied(a, plan)
            /\ StepTo(a, "confirm")
            /\ UNCHANGED transport
         \/ /\ ~CommitCondition(plan)
            /\ call' = [call EXCEPT ![a].plan = "untargeted"]
            /\ UNCHANGED <<effects, treatment, transport>>
         \/ /\ StepTo(a, "commitFailed")
            /\ UNCHANGED <<effects, treatment, transport>>
         \/ /\ call' = [call EXCEPT ![a].step = "ended", ![a].late = plan]
            /\ transport' = [transport EXCEPT ![a] = "FAULT"]
            /\ UNCHANGED <<effects, treatment>>
  /\ UNCHANGED <<deadline, providerEvents, scenario>>

\* The store executes a commit request whose answer was lost; a transaction
\* whose condition fails by then does nothing.
LateCommit(a) ==
  /\ call[a].late # "none"
  /\ IF CommitCondition(call[a].late) THEN CommitApplied(a, call[a].late)
     ELSE UNCHANGED <<effects, treatment>>
  /\ call' = [call EXCEPT ![a].late = "none"]
  /\ UNCHANGED <<transport, deadline, providerEvents, scenario>>

\* recordCommitFailure throws whether or not its event was recorded.
RecordCommitFailure(a) ==
  /\ AtStep(a, "commitFailed")
  /\ EndWith(a, "FAULT")
  /\ UNCHANGED <<effects, deadline, providerEvents, scenario, treatment>>

\* provider_commit_confirmed; then #finish returns or enters the barrier.
ConfirmCommit(a) ==
  /\ AtStep(a, "confirm")
  /\ AppendThen(a, "provider_commit_confirmed", IF call[a].plan = "targeted" THEN "poll" ELSE "respond")
  /\ UNCHANGED <<effects, deadline, scenario, treatment>>

Respond(a) ==
  /\ AtStep(a, "respond")
  /\ AppendAndAnswer(a, "provider_response_returned", "SUCCEEDED")
  /\ UNCHANGED <<effects, deadline, scenario, treatment>>

-----------------------------------------------------------------------------
\* Faulty variant: at the deadline the wait ends without the conditional update.
decideBarrierStepUnconditional(a, item) ==
  IF item.owner # a
  THEN "ended"
  ELSE CASE item.state = "TIMEOUT_SIGNALLED" -> "observe"
         [] item.state = "TIMEOUT_OBSERVED" -> "release"
         [] item.state = "COMMITTED_WAITING" -> IF a \in deadline THEN "external" ELSE "poll"
         [] item.state = "SAFETY_RELEASED" -> "external"
         [] item.state \in {"ARMED", "RESPONSE_RELEASED", "ABSENT"} -> "ended"

\* Faulty variant: no safety release.
decideBarrierStepPatient(a, item) ==
  IF item.owner # a
  THEN "ended"
  ELSE CASE item.state = "TIMEOUT_SIGNALLED" -> "observe"
         [] item.state = "TIMEOUT_OBSERVED" -> "release"
         [] item.state = "COMMITTED_WAITING" -> "poll"
         [] item.state = "SAFETY_RELEASED" -> "external"
         [] item.state \in {"ARMED", "RESPONSE_RELEASED", "ABSENT"} -> "ended"

\* decideBarrierStep for a readable item; the step the barrier performs next.
\* (A signalled or observed item always carries the identity of its event: the
\* update that moves the state writes both.)
decideBarrierStep(a, item) ==
  IF item.owner # a
  THEN "ended"
  ELSE CASE item.state = "TIMEOUT_SIGNALLED" -> "observe"
         [] item.state = "TIMEOUT_OBSERVED" -> "release"
         [] item.state = "COMMITTED_WAITING" -> IF a \in deadline THEN "safetyRelease" ELSE "poll"
         [] item.state = "SAFETY_RELEASED" -> "external"
         [] item.state \in {"ARMED", "RESPONSE_RELEASED", "ABSENT"} -> "ended"

\* Performing a decision: an unexpected item ends the call in a fault.
Perform(a, step) ==
  IF step = "ended" THEN EndWith(a, "FAULT") ELSE StepTo(a, step) /\ UNCHANGED transport

\* One poll.  A failed read is no news before the deadline; after it, a safety
\* release from COMMITTED_WAITING settles what the state is.
Poll(a, readable) ==
  /\ AtStep(a, "poll")
  /\ Perform(a, IF readable THEN decideBarrierStep(a, treatment)
                ELSE IF a \in deadline THEN "safetyRelease" ELSE "poll")
  /\ UNCHANGED <<effects, deadline, providerEvents, scenario, treatment>>

\* The monotonic clock passes the safety-release time of a held call.
DeadlinePasses(a) ==
  /\ call[a].step \in {"poll", "observe", "release", "safetyRelease"}
  /\ a \notin deadline
  /\ deadline' = deadline \cup {a}
  /\ UNCHANGED <<transport, effects, call, providerEvents, scenario, treatment>>

\* Faulty variant: the deadline releases the response as if it had been signalled.
BarrierTransitionsUnsignalled ==
  {[step |-> "observe", from |-> "TIMEOUT_SIGNALLED", to |-> "TIMEOUT_OBSERVED",
    event |-> "treatment_timeout_observed"],
   [step |-> "release", from |-> "TIMEOUT_OBSERVED", to |-> "RESPONSE_RELEASED",
    event |-> "treatment_response_released"],
   [step |-> "safetyRelease", from |-> "COMMITTED_WAITING", to |-> "RESPONSE_RELEASED",
    event |-> "treatment_response_released"]}

BarrierTransitions ==
  {[step |-> "observe", from |-> "TIMEOUT_SIGNALLED", to |-> "TIMEOUT_OBSERVED",
    event |-> "treatment_timeout_observed"],
   [step |-> "release", from |-> "TIMEOUT_OBSERVED", to |-> "RESPONSE_RELEASED",
    event |-> "treatment_response_released"],
   [step |-> "safetyRelease", from |-> "COMMITTED_WAITING", to |-> "SAFETY_RELEASED",
    event |-> "treatment_safety_released"]}

\* The conditional update of #transition, which also writes its event.
TransitionApplied(a, t) ==
  /\ treatment' = [MovedTo(t.to) EXCEPT !.cause = IF t.to = "SAFETY_RELEASED" THEN "SAFETY_DEADLINE" ELSE @]
  /\ Record(a, t.event, TRUE)

\* #transition with outcome `o': an observation releases at once; a superseded
\* transition decides from the item the failed condition returned; one that
\* changed nothing waits one poll; an ambiguous one faults.
Transition(a, o) ==
  \E t \in BarrierTransitions :
    /\ AtStep(a, t.step)
    /\ o \in WriteOutcomes(treatment.state = t.from)
    /\ IF Landed(o) THEN TransitionApplied(a, t) ELSE UNCHANGED <<treatment, providerEvents>>
    /\ CASE o = "applied" /\ t.step = "observe" -> StepTo(a, "release") /\ UNCHANGED transport
         [] o = "applied" /\ t.step # "observe" -> EndWith(a, "SUCCEEDED")
         [] o = "condition_failed" -> Perform(a, decideBarrierStep(a, treatment))
         [] o = "rejected" -> StepTo(a, "poll") /\ UNCHANGED transport
         [] IsAmbiguous(o) -> EndWith(a, "FAULT")
    /\ UNCHANGED <<effects, deadline, scenario>>

\* #recordExternalRelease: another writer ended the wait.
RecordExternalRelease(a) ==
  /\ AtStep(a, "external")
  /\ AppendAndAnswer(a, "treatment_safety_released", "SUCCEEDED")
  /\ UNCHANGED <<effects, deadline, scenario, treatment>>

BarrierStep(a) ==
  \/ \E readable \in BOOLEAN : Poll(a, readable)
  \/ \E o \in WriteOutcomes(TRUE) \cup WriteOutcomes(FALSE) : Transition(a, o)
  \/ RecordExternalRelease(a)

ProviderStep(a) ==
  \/ Invoke(a) \/ FaultCall(a)
  \/ RejectUnattributed(a) \/ OpenSession(a) \/ Judge(a)
  \/ Commit(a) \/ LateCommit(a) \/ RecordCommitFailure(a) \/ ConfirmCommit(a) \/ Respond(a)
  \/ DeadlinePasses(a) \/ BarrierStep(a)
=============================================================================
