------------------------- MODULE TreatmentProtocol --------------------------
(***************************************************************************)
(* The three writers of the treatment item together: any number of         *)
(* concurrent provider calls, the controller behind the caller journal's   *)
(* stream, and cleanup's safety release, against callers that may invoke   *)
(* the provider and record timeouts in any order.                          *)
(***************************************************************************)
EXTENDS RefundProvider, TreatmentController, TLC

(***************************************************************************)
(* Cleanup's safety release of one trial partition: read the treatment     *)
(* item, release it from the state and version read, and start again when  *)
(* another writer won the race, a bounded number of times.  A failed       *)
(* release is re-run by a later cleanup or recovery.                       *)
(***************************************************************************)
CONSTANT MAX_RELEASE_ATTEMPTS

ASSUME ReleaseAssumption == MAX_RELEASE_ATTEMPTS \in Nat \ {0}

VARIABLE release   \* the release in progress, with the item it read

BarrierReleaseTypeOK ==
  release \in [step : {"idle", "decide", "write", "released", "not_held", "failed"},
               attempt : 0 .. MAX_RELEASE_ATTEMPTS,
               from : NONTERMINAL_TREATMENT_STATES \cup {"NONE"}, version : Nat]

BarrierReleaseInit == release = [step |-> "idle", attempt |-> 0, from |-> "NONE", version |-> 0]

-----------------------------------------------------------------------------
requestSafetyRelease ==
  /\ release.step \in {"idle", "failed"}
  /\ release' = [step |-> "decide", attempt |-> 1, from |-> "NONE", version |-> 0]
  /\ UNCHANGED <<scenario, treatment>>

\* #decide: a nonterminal item is to be released, anything else holds nothing;
\* a failed read fails the release.
DecideRelease ==
  /\ release.step = "decide"
  /\ \/ /\ treatment.state \in NONTERMINAL_TREATMENT_STATES
        /\ release' = [release EXCEPT !.step = "write", !.from = treatment.state,
                                      !.version = treatment.version]
     \/ /\ treatment.state \notin NONTERMINAL_TREATMENT_STATES
        /\ release' = [release EXCEPT !.step = "not_held"]
     \/ release' = [release EXCEPT !.step = "failed"]
  /\ UNCHANGED <<scenario, treatment>>

\* releaseAction's condition
ReleaseCondition == treatment.state = release.from /\ treatment.version = release.version

\* The release write and releaseOutcome.
WriteRelease ==
  /\ release.step = "write"
  /\ \E o \in WriteOutcomes(ReleaseCondition) :
       /\ treatment' = IF Landed(o)
                       THEN [MovedTo("SAFETY_RELEASED") EXCEPT !.cause = "CLEANUP_REQUEST"]
                       ELSE treatment
       /\ release' = CASE o = "applied" -> [release EXCEPT !.step = "released"]
                       [] o = "condition_failed" /\ release.attempt < MAX_RELEASE_ATTEMPTS ->
                            [release EXCEPT !.step = "decide", !.attempt = @ + 1]
                       [] OTHER -> [release EXCEPT !.step = "failed"]
  /\ UNCHANGED scenario

ReleaseStep == requestSafetyRelease \/ DecideRelease \/ WriteRelease

-----------------------------------------------------------------------------
(* The protocol. *)

VARIABLE timeouts   \* attempts with a durable caller_timeout_recorded event

vars == <<scenario, treatment, providerVars, controllerVars, release, timeouts>>

Contract == INSTANCE ProviderContract

TypeOK ==
  /\ TreatmentTypeOK
  /\ ProviderTypeOK
  /\ ControllerTypeOK
  /\ BarrierReleaseTypeOK
  /\ timeouts \subseteq Attempts

Init ==
  /\ TreatmentInit
  /\ ProviderInit
  /\ ControllerInit
  /\ BarrierReleaseInit
  /\ timeouts = {}

\* A caller that dispatched attempt `a' records its timeout; the insert reaches
\* the controller's stream.
CallerTimesOut(a) ==
  /\ transport[a] # "IDLE"
  /\ a \notin timeouts
  /\ timeouts' = timeouts \cup {a}
  /\ stream' = Append(stream, a)
  /\ UNCHANGED <<scenario, treatment, providerVars, ctrl, controllerEvents, release>>

ProviderActs(a) == ProviderStep(a) /\ UNCHANGED <<controllerVars, release, timeouts>>

ControllerActs == ControllerStep /\ UNCHANGED <<providerVars, release, timeouts>>

CleanupActs == ReleaseStep /\ UNCHANGED <<providerVars, controllerVars, timeouts>>

Next ==
  \/ \E a \in Attempts : ProviderActs(a) \/ CallerTimesOut(a)
  \/ ControllerActs
  \/ CleanupActs

Spec == Init /\ [][Next]_vars

\* No step tells one attempt identity from another.
AttemptSymmetry == Permutations(Attempts)

Alone(action) == action /\ UNCHANGED <<controllerVars, release, timeouts>>

\* Clocks advance, a running invocation goes on, and the store does not refuse
\* a read or a permitted write that the barrier keeps repeating for ever.
Fairness ==
  \A a \in Attempts :
    /\ WF_vars(Alone(DeadlinePasses(a)))
    /\ SF_vars(Alone(Poll(a, TRUE)))
    /\ SF_vars(Alone(Transition(a, "applied")))
    /\ SF_vars(Alone(Transition(a, "condition_failed")))
    /\ WF_vars(Alone(RecordExternalRelease(a)))

FairSpec == Spec /\ Fairness

-----------------------------------------------------------------------------
\* At most one call is ever held, and it is the owner: a call that lost the race
\* for the treatment, by a stale read or by cleanup's release, is never held at
\* the barrier (attemptCommit's re-plan, planCommit).
OnlyOwnerIsHeld ==
  \A a \in Attempts :
    call[a].step \in {"poll", "observe", "release", "safetyRelease", "external"} => treatment.owner = a

\* A targeted response is held: whatever the controller, cleanup and the other
\* calls do, the call that consumed the treatment answers only after the item
\* reached a released state, and no other call is held for it (awaitRelease,
\* the re-plan of attemptCommit, BR-RUA-014).
TargetedResponseIsHeld ==
  /\ \A a \in Attempts :
       treatment.owner = a /\ transport[a] = "SUCCEEDED" =>
         treatment.state \in {"RESPONSE_RELEASED", "SAFETY_RELEASED"}
  /\ OnlyOwnerIsHeld

\* A treatment that counts as signalled was signalled by the timeout of the very
\* attempt whose commit it holds, and that commit is in the ledger (decideSignal,
\* the condition of signal(), BR-RUA-013).
SignalIsCausal ==
  treatment.state \in {"TIMEOUT_SIGNALLED", "TIMEOUT_OBSERVED", "RESPONSE_RELEASED"} =>
    /\ treatment.signal = treatment.owner
    /\ treatment.owner \in effects \cap timeouts

\* No answer without its record: a REJECTED one was journaled, and a SUCCEEDED
\* one has its ledger transaction, the confirmation and the terminal event that
\* fits how the wait ended (#reject, #finish, #recordExternalRelease).
AnsweredIsJournaled ==
  \A a \in Attempts :
    /\ transport[a] = "REJECTED" => "provider_call_rejected" \in providerEvents[a]
    /\ transport[a] = "SUCCEEDED" =>
      /\ a \in effects
      /\ "provider_commit_confirmed" \in providerEvents[a]
      /\ IF treatment.owner = a
         THEN IF treatment.state = "RESPONSE_RELEASED"
              THEN "treatment_response_released" \in providerEvents[a]
              ELSE "treatment_safety_released" \in providerEvents[a]
         ELSE "provider_response_returned" \in providerEvents[a]

\* The controller's second decision never admits the signal again, so the fault
\* SIGNAL_REDECIDED_TO_SIGNAL is unreachable (redecide).
RedecisionNeverSignals == ctrl.step # "redecidedToSignal"

RecordedFor(decision) == {a \in Attempts : [attempt |-> a, decision |-> decision] \in controllerEvents}

\* What the controller recorded about a caller event stays true of the item,
\* through retries after ambiguous writes and whatever moved the treatment in
\* between: the signal record is the item's signal, a duplicate repeats it, a
\* conflict names another, and a late rejection (also of the event that had
\* signalled) follows a safety release only (decideSignal, redecide).
ControllerRecordsHold ==
  /\ RecordedFor("signal") \cup RecordedFor("duplicate_ignored") \subseteq {treatment.signal}
  /\ treatment.signal # NoAttempt => treatment.signal \in RecordedFor("signal") \ RecordedFor("conflict")
  /\ treatment.owner \notin RecordedFor("not_targeted_rejected")
  /\ RecordedFor("late_rejected") # {} => treatment.state = "SAFETY_RELEASED"

\* A release that cleanup reported as done stays done: no in-flight call,
\* delayed commit or signal makes the treatment nonterminal again
\* (requestSafetyRelease, BR-RUA-048 step 5).
ReleaseIsFinal ==
  release.step \in {"released", "not_held"} => treatment.state \notin NONTERMINAL_TREATMENT_STATES

PermittedMoves ==
  {<<"ARMED", "COMMITTED_WAITING">>, <<"COMMITTED_WAITING", "TIMEOUT_SIGNALLED">>,
   <<"TIMEOUT_SIGNALLED", "TIMEOUT_OBSERVED">>, <<"TIMEOUT_OBSERVED", "RESPONSE_RELEASED">>}
  \cup (NONTERMINAL_TREATMENT_STATES \X {"SAFETY_RELEASED"})

\* The treatment item moves only along BR-RUA-025's state machine, one version
\* at a time, and the identity of its targeted commit never changes once set,
\* with three programs writing it.
TreatmentMovesForward ==
  [][treatment' # treatment =>
       /\ <<treatment.state, treatment'.state>> \in PermittedMoves
       /\ treatment'.version = treatment.version + 1
       /\ treatment.owner # NoAttempt => treatment'.owner = treatment.owner]_vars

\* The provider with its barrier implements the contract its callers rely on.
ImplementsContract == Contract!Spec

\* A held call is never held for ever: the signal, cleanup or the safety release
\* ends the wait (awaitRelease with decideBarrierStep), Lambda timeout aside.
HeldCallEnds ==
  \A a \in Attempts : call[a].step = "poll" ~> call[a].step = "ended"

\* control-barrier-release.ts:8-9: "Releasing from `ARMED` too keeps a late
\* provider call from committing after cleanup started".
NoCommitAfterArmedRelease ==
  [][treatment.state = "SAFETY_RELEASED" /\ treatment.owner = NoAttempt => effects' = effects]_vars
=============================================================================
