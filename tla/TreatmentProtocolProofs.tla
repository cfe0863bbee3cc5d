---------------------- MODULE TreatmentProtocolProofs -----------------------
(***************************************************************************)
(* The provider's barrier, the controller and cleanup's safety release     *)
(* over one treatment item, for any set of attempts: the item moves along  *)
(* its state machine only, the targeted response is held, a signal is      *)
(* causal, and the provider implements the contract its callers rely on.   *)
(***************************************************************************)
EXTENDS TreatmentProtocol, TLAPS, SequenceTheorems

BeforeCommit == {"unattributed", "open", "judge", "commit", "commitFailed"}

HeldSteps == {"poll", "observe", "release", "safetyRelease", "external"}

AfterCommit == {"confirm", "respond"} \cup HeldSteps

SignalledStates == {"TIMEOUT_SIGNALLED", "TIMEOUT_OBSERVED", "RESPONSE_RELEASED"}

ReleasedStates == {"RESPONSE_RELEASED", "SAFETY_RELEASED"}

\* The item: its owner committed, and a signalled one was signalled by its owner.
ItemInv ==
  /\ scenario = "CONTROL" <=> treatment.state = "ABSENT"
  /\ treatment.state \in {"ABSENT", "ARMED"} => treatment.owner = NoAttempt
  /\ treatment.owner # NoAttempt => treatment.owner \in effects
  /\ treatment.state \in {"COMMITTED_WAITING"} \cup SignalledStates => treatment.owner # NoAttempt
  /\ treatment.state \in SignalledStates => treatment.signal = treatment.owner /\ treatment.owner \in timeouts

\* A call: what its caller's transport knows, what it committed, and what the item
\* says of it, at every step.
CallInv(a) ==
  /\ transport[a] = "IDLE" <=> call[a].step = "none"
  /\ transport[a] = "SENT" <=> call[a].step \notin {"none", "ended"}
  /\ call[a].step \in BeforeCommit \cup {"none"} => a \notin effects
  /\ call[a].step \in AfterCommit => a \in effects
  /\ call[a].step \in HeldSteps => treatment.owner = a
  /\ call[a].step = "confirm" => (call[a].plan = "targeted" <=> treatment.owner = a)
  /\ call[a].step = "respond" => treatment.owner # a
  /\ call[a].step = "external" => treatment.state = "SAFETY_RELEASED"
  /\ call[a].late # "none" => transport[a] = "FAULT" /\ a \notin effects
  /\ transport[a] = "SUCCEEDED" => a \in effects /\ (treatment.owner = a => treatment.state \in ReleasedStates)
  /\ transport[a] = "REJECTED" => a \notin effects

\* The controller: it handles the first record of its stream, and every record is
\* a timeout some caller recorded.
ControllerInv ==
  /\ \A i \in 1 .. Len(stream) : stream[i] \in timeouts
  /\ ctrl.step # "idle" => stream # <<>>
  /\ ctrl.step # "redecidedToSignal"

ReleaseInv == release.step \in {"released", "not_held"} => treatment.state \notin NONTERMINAL_TREATMENT_STATES

ProtocolInv ==
  TypeOK /\ ItemInv /\ (\A a \in Attempts : CallInv(a)) /\ ControllerInv /\ ReleaseInv

-----------------------------------------------------------------------------
(* The item. *)

\* A step of the item along the state machine, by a commit, a signal, the owner's
\* observation and release, or a safety release.
Moves ==
  /\ treatment'.version = treatment.version + 1
  /\ \/ /\ treatment.state = "ARMED" /\ treatment'.state = "COMMITTED_WAITING"
        /\ treatment'.owner \in effects' \ effects /\ treatment'.owner \in Attempts
     \/ /\ treatment.state = "COMMITTED_WAITING" /\ treatment'.state = "TIMEOUT_SIGNALLED"
        /\ treatment'.owner = treatment.owner
        /\ treatment'.signal = treatment.owner /\ treatment.owner \in timeouts
     \/ /\ \/ treatment.state = "TIMEOUT_SIGNALLED" /\ treatment'.state = "TIMEOUT_OBSERVED"
           \/ treatment.state = "TIMEOUT_OBSERVED" /\ treatment'.state = "RESPONSE_RELEASED"
           \/ treatment.state \in NONTERMINAL_TREATMENT_STATES /\ treatment'.state = "SAFETY_RELEASED"
        /\ treatment'.owner = treatment.owner /\ treatment'.signal = treatment.signal

\* What every step does to the item and to what the item refers to.
ItemStep ==
  /\ scenario' = scenario /\ treatment' \in TreatmentItems
  /\ treatment' = treatment \/ Moves
  /\ effects \subseteq effects' /\ timeouts \subseteq timeouts'

\* An update that sets the state and the version leaves the rest (MovedTo).
LEMMA MovedToType ==
  ASSUME treatment \in TreatmentItems, NEW s \in TREATMENT_STATES
  PROVE  /\ MovedTo(s) \in TreatmentItems
         /\ MovedTo(s).state = s /\ MovedTo(s).version = treatment.version + 1
         /\ MovedTo(s).owner = treatment.owner /\ MovedTo(s).signal = treatment.signal
<1>1. treatment.version + 1 \in Nat
  BY DEF TreatmentItems
<1> QED
  BY <1>1, Zenon DEF MovedTo, TreatmentItems

\* A targeted commit makes the call the owner (planCommit).
LEMMA CommitMoves ==
  ASSUME treatment \in TreatmentItems, NEW a \in Attempts, treatment.state = "ARMED",
         treatment' = [MovedTo("COMMITTED_WAITING") EXCEPT !.owner = a]
  PROVE  /\ treatment' \in TreatmentItems /\ treatment'.state = "COMMITTED_WAITING" /\ treatment'.owner = a
         /\ treatment'.version = treatment.version + 1
<1> DEFINE m == MovedTo("COMMITTED_WAITING")
<1>1. m \in TreatmentItems /\ m.state = "COMMITTED_WAITING" /\ m.version = treatment.version + 1
  BY MovedToType, Zenon DEF TREATMENT_STATES, NONTERMINAL_TREATMENT_STATES, COMMITTED_WAIT_STATES
<1> HIDE DEF m
<1> QED
  BY <1>1, Zenon DEF TreatmentItems, m

\* A signal names the attempt of the handled record (#signal).
LEMMA SignalMoves ==
  ASSUME treatment \in TreatmentItems, NEW a \in Attempts,
         treatment' = [MovedTo("TIMEOUT_SIGNALLED") EXCEPT !.signal = a]
  PROVE  /\ treatment' \in TreatmentItems /\ treatment'.state = "TIMEOUT_SIGNALLED" /\ treatment'.signal = a
         /\ treatment'.owner = treatment.owner /\ treatment'.version = treatment.version + 1
<1> DEFINE m == MovedTo("TIMEOUT_SIGNALLED")
<1>1. m \in TreatmentItems /\ m.state = "TIMEOUT_SIGNALLED" /\ m.version = treatment.version + 1 /\ m.owner = treatment.owner
  BY MovedToType, Zenon DEF TREATMENT_STATES, NONTERMINAL_TREATMENT_STATES, COMMITTED_WAIT_STATES
<1> HIDE DEF m
<1> QED
  BY <1>1, Zenon DEF TreatmentItems, m

\* The owner's transitions and both safety releases change state and cause only
\* (#transition, releaseAction).
LEMMA CauseMoves ==
  ASSUME treatment \in TreatmentItems, NEW s \in TREATMENT_STATES, NEW c \in SafetyReleaseCauses \cup {"NONE"},
         treatment' = [MovedTo(s) EXCEPT !.cause = c]
  PROVE  /\ treatment' \in TreatmentItems /\ treatment'.state = s /\ treatment'.signal = treatment.signal
         /\ treatment'.owner = treatment.owner /\ treatment'.version = treatment.version + 1
<1> DEFINE m == MovedTo(s)
<1>1. /\ m \in TreatmentItems /\ m.state = s /\ m.version = treatment.version + 1
      /\ m.owner = treatment.owner /\ m.signal = treatment.signal
  BY MovedToType, Zenon
<1> HIDE DEF m
<1> QED
  BY <1>1, Zenon DEF TreatmentItems, m

\* The item's invariant survives every step of the item.
LEMMA ItemKept ==
  ASSUME TreatmentTypeOK, ItemInv, ItemStep
  PROVE  ItemInv'
<1>1. CASE treatment' = treatment
  BY <1>1, Zenon DEF ItemInv, ItemStep
<1>2. CASE Moves
  BY <1>2, TreatmentAssumption, Zenon DEF Moves, ItemInv, ItemStep, TreatmentTypeOK, TreatmentItems, SignalledStates,
     NONTERMINAL_TREATMENT_STATES, COMMITTED_WAIT_STATES
<1> QED
  BY <1>1, <1>2, Zenon DEF ItemStep

\* A call nobody touches keeps its invariant while the item moves.
LEMMA CallKept ==
  ASSUME TreatmentTypeOK, ItemInv, ItemStep, NEW b \in Attempts, CallInv(b),
         call'[b] = call[b], transport'[b] = transport[b], b \in effects' <=> b \in effects
  PROVE  CallInv(b)'
<1>1. CASE treatment' = treatment
  BY <1>1, Zenon DEF CallInv
<1>2. CASE Moves
  <2>1. treatment.owner = b <=> treatment'.owner = b
    BY <1>2, TreatmentAssumption, Zenon DEF Moves, ItemInv
  <2>2. treatment.state \in ReleasedStates => treatment'.state \in ReleasedStates
    BY <1>2, Zenon DEF Moves, ReleasedStates, NONTERMINAL_TREATMENT_STATES, COMMITTED_WAIT_STATES
  <2>3. treatment.state # "SAFETY_RELEASED"
    BY <1>2, Zenon DEF Moves, NONTERMINAL_TREATMENT_STATES, COMMITTED_WAIT_STATES
  <2> QED
    BY <2>1, <2>2, <2>3, Zenon DEF CallInv
<1> QED
  BY <1>1, <1>2, Zenon DEF ItemStep

\* So does a release that is over.
LEMMA ReleaseKept ==
  ASSUME ReleaseInv, ItemStep, release' = release
  PROVE  ReleaseInv'
BY Zenon DEF ReleaseInv, ItemStep, Moves, NONTERMINAL_TREATMENT_STATES, COMMITTED_WAIT_STATES

-----------------------------------------------------------------------------
(* One step of a provider call. *)

\* The other calls, and what they committed, stay as they are.
Apart(a) ==
  \A b \in Attempts \ {a} : call'[b] = call[b] /\ transport'[b] = transport[b] /\ (b \in effects' <=> b \in effects)

\* What a step of the call of `a' achieves: it is a step of the contract or none,
\* and it keeps the invariant of the item and of the call.
ProviderEffect(a) ==
  /\ ProviderTypeOK' /\ ItemStep /\ Apart(a) /\ CallInv(a)'
  /\ Contract!Next \/ UNCHANGED <<transport, effects>>

\* The call's record after a step that sets its step only (StepTo).
LEMMA StepToFields ==
  ASSUME call \in [Attempts -> Calls], NEW a \in Attempts, NEW s \in CallSteps, StepTo(a, s)
  PROVE  /\ call' \in [Attempts -> Calls] /\ \A b \in Attempts \ {a} : call'[b] = call[b]
         /\ call'[a].step = s /\ call'[a].plan = call[a].plan /\ call'[a].late = call[a].late
<1> DEFINE c == [call[a] EXCEPT !.step = s]
<1>1. call[a] \in Calls
  BY Zenon
<1>2. c \in Calls /\ c.step = s /\ c.plan = call[a].plan /\ c.late = call[a].late
  BY <1>1, Zenon DEF Calls
<1>3. call' = [call EXCEPT ![a] = c]
  BY Zenon DEF StepTo
<1> HIDE DEF c
<1> QED
  BY <1>2, <1>3, Zenon

\* A journal append keeps the journal's type, landed or not (Record).
LEMMA RecordType ==
  ASSUME providerEvents \in [Attempts -> SUBSET ProviderEventTypes], NEW a \in Attempts,
         NEW event \in ProviderEventTypes, NEW landed, Record(a, event, landed)
  PROVE  providerEvents' \in [Attempts -> SUBSET ProviderEventTypes]
BY Zenon DEF Record

\* What every step that only answers or advances a call leaves alone.
Quiet ==
  /\ UNCHANGED <<effects, scenario, treatment, timeouts>>
  /\ deadline' \subseteq Attempts /\ providerEvents' \in [Attempts -> SUBSET ProviderEventTypes]

\* Such a step leaves the item alone.
LEMMA QuietItem ==
  ASSUME TypeOK, Quiet
  PROVE  ItemStep
BY Zenon DEF Quiet, ItemStep, TypeOK, TreatmentTypeOK

\* A call that ends in a fault, from any step: its commit may be there or not, and
\* a write of the item may just have landed (FaultCall, appendOrFault, #transition).
LEMMA FaultsAnyItem ==
  ASSUME ProtocolInv, NEW a \in Attempts, call[a].step \notin {"none", "ended"}, EndWith(a, "FAULT"),
         ItemStep, effects' = effects, deadline' \subseteq Attempts,
         providerEvents' \in [Attempts -> SUBSET ProviderEventTypes]
  PROVE  ProviderEffect(a)
<1>1. CallInv(a) /\ ProviderTypeOK
  BY Zenon DEF ProtocolInv, TypeOK
<1>2. /\ call' \in [Attempts -> Calls] /\ \A b \in Attempts \ {a} : call'[b] = call[b]
      /\ call'[a].step = "ended" /\ call'[a].plan = call[a].plan /\ call'[a].late = call[a].late
  BY <1>1, StepToFields, Zenon DEF EndWith, ProviderTypeOK, CallSteps
<1>3. /\ transport' \in [Attempts -> {"IDLE", "SENT", "SUCCEEDED", "REJECTED", "FAULT"}]
      /\ transport'[a] = "FAULT" /\ \A b \in Attempts \ {a} : transport'[b] = transport[b]
  BY <1>1, Zenon DEF EndWith, ProviderTypeOK
<1>4. CallInv(a)'
  BY <1>1, <1>2, <1>3, Zenon DEF CallInv, BeforeCommit, AfterCommit, HeldSteps
<1>5. Contract!Answer(a, "FAULT")
  BY <1>1, Zenon DEF Contract!Answer, EndWith, CallInv
<1> QED
  BY <1>1, <1>2, <1>3, <1>4, <1>5, Zenon DEF ProviderEffect, Apart, ProviderTypeOK, Contract!Next, Contract!ProviderStep

\* The fault of a step that leaves the item alone.
LEMMA Faults ==
  ASSUME ProtocolInv, NEW a \in Attempts, call[a].step \notin {"none", "ended"}, EndWith(a, "FAULT"), Quiet
  PROVE  ProviderEffect(a)
BY FaultsAnyItem, QuietItem, Zenon DEF Quiet, ProtocolInv

\* A call that answers REJECTED before its commit (#reject).
LEMMA Rejects ==
  ASSUME ProtocolInv, NEW a \in Attempts, call[a].step \in BeforeCommit, EndWith(a, "REJECTED"), Quiet
  PROVE  ProviderEffect(a)
<1>1. CallInv(a) /\ ProviderTypeOK
  BY Zenon DEF ProtocolInv, TypeOK
<1>2. /\ call' \in [Attempts -> Calls] /\ \A b \in Attempts \ {a} : call'[b] = call[b]
      /\ call'[a].step = "ended" /\ call'[a].plan = call[a].plan /\ call'[a].late = call[a].late
  BY <1>1, StepToFields, Zenon DEF EndWith, ProviderTypeOK, CallSteps
<1>3. /\ transport' \in [Attempts -> {"IDLE", "SENT", "SUCCEEDED", "REJECTED", "FAULT"}]
      /\ transport'[a] = "REJECTED" /\ \A b \in Attempts \ {a} : transport'[b] = transport[b]
  BY <1>1, Zenon DEF EndWith, ProviderTypeOK
<1>4. ItemStep
  BY QuietItem, Zenon DEF ProtocolInv
<1>5. CallInv(a)'
  BY <1>1, <1>2, <1>3, Zenon DEF CallInv, Quiet, BeforeCommit, AfterCommit, HeldSteps
<1>6. Contract!Answer(a, "REJECTED")
  BY <1>1, Zenon DEF Contract!Answer, EndWith, Quiet, CallInv, BeforeCommit
<1> QED
  BY <1>1, <1>2, <1>3, <1>4, <1>5, <1>6, Zenon DEF ProviderEffect, Apart, Quiet, ProviderTypeOK, Contract!Next, Contract!ProviderStep

\* A committed call that answers SUCCEEDED: it is not the owner, or the item is
\* released (#finish, #recordExternalRelease).
LEMMA Succeeds ==
  ASSUME ProtocolInv, NEW a \in Attempts, call[a].step \in AfterCommit, EndWith(a, "SUCCEEDED"),
         ItemStep, effects' = effects, deadline' \subseteq Attempts,
         providerEvents' \in [Attempts -> SUBSET ProviderEventTypes],
         treatment'.owner = a => treatment'.state \in ReleasedStates
  PROVE  ProviderEffect(a)
<1>1. CallInv(a) /\ ProviderTypeOK
  BY Zenon DEF ProtocolInv, TypeOK
<1>2. /\ call' \in [Attempts -> Calls] /\ \A b \in Attempts \ {a} : call'[b] = call[b]
      /\ call'[a].step = "ended" /\ call'[a].plan = call[a].plan /\ call'[a].late = call[a].late
  BY <1>1, StepToFields, Zenon DEF EndWith, ProviderTypeOK, CallSteps
<1>3. /\ transport' \in [Attempts -> {"IDLE", "SENT", "SUCCEEDED", "REJECTED", "FAULT"}]
      /\ transport'[a] = "SUCCEEDED" /\ \A b \in Attempts \ {a} : transport'[b] = transport[b]
  BY <1>1, Zenon DEF EndWith, ProviderTypeOK
<1>4. CallInv(a)'
  BY <1>1, <1>2, <1>3, Zenon DEF CallInv, BeforeCommit, AfterCommit, HeldSteps
<1>5. Contract!Answer(a, "SUCCEEDED")
  BY <1>1, Zenon DEF Contract!Answer, EndWith, CallInv, AfterCommit, HeldSteps
<1> QED
  BY <1>1, <1>2, <1>3, <1>4, <1>5, Zenon DEF ProviderEffect, Apart, ProviderTypeOK, Contract!Next, Contract!ProviderStep

\* A call that goes on without an answer and without a commit: it reaches the
\* barrier as the owner, and the external release in a released item only.
LEMMA Advances ==
  ASSUME ProtocolInv, NEW a \in Attempts, NEW s \in BeforeCommit \cup AfterCommit, s # "confirm",
         call[a].step \notin {"none", "ended"},
         StepTo(a, s), UNCHANGED transport, ItemStep, effects' = effects, deadline' \subseteq Attempts,
         providerEvents' \in [Attempts -> SUBSET ProviderEventTypes],
         s \in BeforeCommit => call[a].step \in BeforeCommit,
         s \in AfterCommit => call[a].step \in AfterCommit,
         s \in HeldSteps => treatment'.owner = a,
         s = "respond" => treatment'.owner # a,
         s = "external" => treatment'.state = "SAFETY_RELEASED"
  PROVE  ProviderEffect(a)
<1>1. CallInv(a) /\ ProviderTypeOK
  BY Zenon DEF ProtocolInv, TypeOK
<1>2. /\ call' \in [Attempts -> Calls] /\ \A b \in Attempts \ {a} : call'[b] = call[b]
      /\ call'[a].step = s /\ call'[a].plan = call[a].plan /\ call'[a].late = call[a].late
  <2>1. s \in CallSteps
    BY Zenon DEF BeforeCommit, AfterCommit, HeldSteps, CallSteps
  <2> QED
    BY <1>1, <2>1, StepToFields, Zenon DEF ProviderTypeOK
<1>3. CallInv(a)'
  BY <1>1, <1>2, Zenon DEF CallInv, BeforeCommit, AfterCommit, HeldSteps
<1> QED
  BY <1>1, <1>2, <1>3, Zenon DEF ProviderEffect, Apart, ProviderTypeOK
-----------------------------------------------------------------------------
(* The actions of the provider. *)

\* The last append before a rejection answers or faults (#reject).
LEMMA AppendAndReject ==
  ASSUME ProtocolInv, NEW a \in Attempts, call[a].step \in BeforeCommit,
         AppendAndAnswer(a, "provider_call_rejected", "REJECTED"),
         UNCHANGED <<effects, deadline, scenario, treatment, timeouts>>
  PROVE  ProviderEffect(a)
<1>1. PICK o \in AppendOutcomes : /\ Record(a, "provider_call_rejected", AppendLanded(o))
                                  /\ EndWith(a, IF o = "appended" THEN "REJECTED" ELSE "FAULT")
  BY Zenon DEF AppendAndAnswer
<1>2. Quiet
  BY <1>1, RecordType, Zenon DEF Quiet, ProtocolInv, TypeOK, ProviderTypeOK, ProviderEventTypes
<1>3. CASE o = "appended"
  BY <1>1, <1>2, <1>3, Rejects, Zenon
<1>4. CASE o # "appended"
  BY <1>1, <1>2, <1>4, Faults, Zenon DEF BeforeCommit
<1> QED
  BY <1>3, <1>4, Zenon

\* The last append before a success answers or faults (#finish,
\* #recordExternalRelease).
LEMMA AppendAndSucceed ==
  ASSUME ProtocolInv, NEW a \in Attempts, NEW event \in ProviderEventTypes,
         call[a].step \in {"respond", "external"},
         AppendAndAnswer(a, event, "SUCCEEDED"),
         UNCHANGED <<effects, deadline, scenario, treatment, timeouts>>
  PROVE  ProviderEffect(a)
<1>1. PICK o \in AppendOutcomes : /\ Record(a, event, AppendLanded(o))
                                  /\ EndWith(a, IF o = "appended" THEN "SUCCEEDED" ELSE "FAULT")
  BY Zenon DEF AppendAndAnswer
<1>2. Quiet
  BY <1>1, RecordType, Zenon DEF Quiet, ProtocolInv, TypeOK, ProviderTypeOK
<1>3. CASE o = "appended"
  <2>1. treatment.owner = a => treatment.state \in ReleasedStates
    BY Zenon DEF ProtocolInv, CallInv, ReleasedStates
  <2>2. ItemStep
    BY <1>2, QuietItem, Zenon DEF ProtocolInv
  <2> QED
    BY <1>1, <1>2, <1>3, <2>1, <2>2, Succeeds, Zenon DEF AfterCommit, HeldSteps, Quiet
<1>4. CASE o # "appended"
  BY <1>1, <1>2, <1>4, Faults, Zenon
<1> QED
  BY <1>3, <1>4, Zenon

\* A caller invokes the provider (Invoke).
LEMMA InvokeEffect ==
  ASSUME ProtocolInv, NEW a \in Attempts, Invoke(a), UNCHANGED timeouts
  PROVE  ProviderEffect(a)
<1>1. CallInv(a) /\ ProviderTypeOK /\ TypeOK
  BY Zenon DEF ProtocolInv, TypeOK
<1>2. PICK kind \in CallKinds :
        call' = [call EXCEPT ![a].kind = kind,
                             ![a].step = IF kind = "unattributable" THEN "unattributed" ELSE "open"]
  BY Zenon DEF Invoke
<1> DEFINE k == [call[a] EXCEPT !.kind = kind]
           c == [k EXCEPT !.step = IF kind = "unattributable" THEN "unattributed" ELSE "open"]
<1>3. k \in Calls /\ k.plan = call[a].plan /\ k.late = call[a].late
  BY <1>1, Zenon DEF Calls, ProviderTypeOK
<1> HIDE DEF k
<1>4. c \in Calls /\ c.step \in {"unattributed", "open"} /\ c.plan = call[a].plan /\ c.late = call[a].late
  BY <1>3, Zenon DEF Calls, CallSteps
<1>5. call' = [call EXCEPT ![a] = c]
  BY <1>1, <1>2, Zenon DEF k, ProviderTypeOK
<1> HIDE DEF c
<1>6. /\ call' \in [Attempts -> Calls] /\ \A b \in Attempts \ {a} : call'[b] = call[b]
      /\ call'[a] = c
  BY <1>1, <1>4, <1>5, Zenon DEF ProviderTypeOK
<1>7. /\ transport' \in [Attempts -> {"IDLE", "SENT", "SUCCEEDED", "REJECTED", "FAULT"}]
      /\ transport'[a] = "SENT" /\ \A b \in Attempts \ {a} : transport'[b] = transport[b]
  BY <1>1, Zenon DEF Invoke, ProviderTypeOK
<1>8. CallInv(a)'
  BY <1>1, <1>4, <1>6, <1>7, Zenon DEF CallInv, Invoke, BeforeCommit, AfterCommit, HeldSteps
<1>9. ItemStep
  BY <1>1, Zenon DEF Invoke, ItemStep, TypeOK, TreatmentTypeOK
<1>10. Contract!Send(a)
  BY Zenon DEF Invoke, Contract!Send
<1> QED
  BY <1>1, <1>6, <1>7, <1>8, <1>9, <1>10, Zenon DEF ProviderEffect, Apart, ProviderTypeOK, Invoke, Contract!Next

\* The session is opened, with the plan of the item it read (#openSession).
LEMMA OpenSessionEffect ==
  ASSUME ProtocolInv, NEW a \in Attempts, OpenSession(a), UNCHANGED timeouts
  PROVE  ProviderEffect(a)
<1>1. CallInv(a) /\ ProviderTypeOK /\ TypeOK
  BY Zenon DEF ProtocolInv, TypeOK
<1> DEFINE p == IF scenario = "COMMIT_THEN_TIMEOUT" /\ treatment.state = "ARMED" THEN "targeted" ELSE "untargeted"
           k == [call[a] EXCEPT !.step = "judge"]
           c == [k EXCEPT !.plan = p]
<1>2. k \in Calls /\ k.step = "judge" /\ k.late = call[a].late
  BY <1>1, Zenon DEF Calls, ProviderTypeOK, CallSteps
<1> HIDE DEF k
<1>3. p \in CommitKinds
  BY Zenon DEF CommitKinds
<1> HIDE DEF p
<1>4. c \in Calls /\ c.step = "judge" /\ c.late = call[a].late
  BY <1>2, <1>3, Zenon DEF Calls
<1>5. call' = [call EXCEPT ![a] = c]
  BY <1>1, Zenon DEF OpenSession, k, p, ProviderTypeOK
<1> HIDE DEF c
<1>6. call' \in [Attempts -> Calls] /\ call'[a] = c /\ \A b \in Attempts \ {a} : call'[b] = call[b]
  BY <1>1, <1>4, <1>5, Zenon DEF ProviderTypeOK
<1>7. CallInv(a)'
  BY <1>1, <1>4, <1>6, Zenon DEF CallInv, OpenSession, AtStep, BeforeCommit, AfterCommit, HeldSteps
<1>8. ItemStep
  BY <1>1, Zenon DEF OpenSession, ItemStep, TypeOK, TreatmentTypeOK
<1> QED
  BY <1>1, <1>6, <1>7, <1>8, Zenon DEF ProviderEffect, Apart, ProviderTypeOK, OpenSession

\* The call is accepted or rejected (evaluateAcceptance).
LEMMA JudgeEffect ==
  ASSUME ProtocolInv, NEW a \in Attempts, Judge(a), UNCHANGED timeouts
  PROVE  ProviderEffect(a)
<1>1. Quiet \/ call[a].kind # "acceptable"
  BY Zenon DEF Judge, Quiet, ProtocolInv, TypeOK, ProviderTypeOK
<1>2. CASE call[a].kind = "acceptable"
  BY <1>1, <1>2, Advances, QuietItem, Zenon DEF Judge, AtStep, Quiet, ProtocolInv, BeforeCommit, AfterCommit, HeldSteps
<1>3. CASE call[a].kind # "acceptable"
  BY <1>3, AppendAndReject, Zenon DEF Judge, AtStep, BeforeCommit
<1> QED
  BY <1>2, <1>3, Zenon

\* The commit is confirmed: the targeted call is held, another one answers (#finish).
LEMMA ConfirmEffect ==
  ASSUME ProtocolInv, NEW a \in Attempts, ConfirmCommit(a), UNCHANGED timeouts
  PROVE  ProviderEffect(a)
<1> DEFINE s == IF call[a].plan = "targeted" THEN "poll" ELSE "respond"
<1>1. PICK o \in AppendOutcomes :
        /\ Record(a, "provider_commit_confirmed", AppendLanded(o))
        /\ IF o = "appended" THEN StepTo(a, s) /\ UNCHANGED transport ELSE EndWith(a, "FAULT")
  BY Zenon DEF ConfirmCommit, AppendThen
<1>2. Quiet
  BY <1>1, RecordType, Zenon DEF ConfirmCommit, Quiet, ProtocolInv, TypeOK, ProviderTypeOK, ProviderEventTypes
<1>3. call[a].step = "confirm" /\ CallInv(a) /\ TypeOK
  BY Zenon DEF ConfirmCommit, AtStep, ProtocolInv
<1>4. CASE o = "appended"
  <2>1. (s = "poll" /\ treatment.owner = a) \/ (s = "respond" /\ treatment.owner # a)
    <3>1. call[a].plan = "targeted" <=> treatment.owner = a
      BY <1>3, Zenon DEF CallInv
    <3> QED
      BY <3>1, Zenon
  <2>2. ItemStep
    BY <1>2, <1>3, QuietItem, Zenon
  <2> HIDE DEF s
  <2> QED
    BY <1>1, <1>2, <1>3, <1>4, <2>1, <2>2, Advances, Zenon DEF Quiet, BeforeCommit, AfterCommit, HeldSteps
<1>5. CASE o # "appended"
  BY <1>1, <1>2, <1>3, <1>5, Faults, Zenon
<1> QED
  BY <1>4, <1>5, Zenon
\* A transaction that is executed, at once or late: the call's attempt gets its
\* effect and, with a targeted plan, becomes the owner of the armed item.
LEMMA CommitAppliedItem ==
  ASSUME ProtocolInv, NEW a \in Attempts, NEW plan \in CommitKinds, a \notin effects,
         CommitCondition(plan), CommitApplied(a, plan), UNCHANGED <<scenario, timeouts>>
  PROVE  /\ ItemStep /\ effects' = effects \cup {a}
         /\ treatment'.owner = a <=> plan = "targeted"
<1>1. TypeOK /\ ItemInv /\ treatment \in TreatmentItems
  BY Zenon DEF ProtocolInv, TypeOK, TreatmentTypeOK
<1>2. effects' = effects \cup {a}
  BY Zenon DEF CommitApplied
<1>3. CASE plan = "targeted"
  <2>1. treatment.state = "ARMED" /\ treatment' = [MovedTo("COMMITTED_WAITING") EXCEPT !.owner = a]
    BY <1>3, Zenon DEF CommitCondition, CommitApplied
  <2>2. /\ treatment' \in TreatmentItems /\ treatment'.state = "COMMITTED_WAITING" /\ treatment'.owner = a
        /\ treatment'.version = treatment.version + 1
    BY <1>1, <2>1, CommitMoves, Zenon
  <2> QED
    BY <1>2, <1>3, <2>1, <2>2 DEF ItemStep, Moves
<1>4. CASE plan # "targeted"
  <2>1. treatment' = treatment
    BY <1>4, Zenon DEF CommitApplied
  <2>2. treatment.owner # a
    BY <1>1, TreatmentAssumption, Zenon DEF ItemInv
  <2> QED
    BY <1>1, <1>2, <1>4, <2>1, <2>2, Zenon DEF ItemStep
<1> QED
  BY <1>3, <1>4, Zenon

\* The commit transaction, in each of its four outcomes (attemptCommit).
LEMMA CommitEffect ==
  ASSUME ProtocolInv, NEW a \in Attempts, Commit(a), UNCHANGED timeouts
  PROVE  ProviderEffect(a)
<1>1. CallInv(a) /\ ProviderTypeOK /\ TypeOK /\ call[a].step = "commit" /\ call[a] \in Calls
  BY Zenon DEF ProtocolInv, TypeOK, Commit, AtStep, ProviderTypeOK
<1>2. a \notin effects /\ transport[a] = "SENT" /\ call[a].late = "none" /\ call[a].plan \in CommitKinds
  BY <1>1, Zenon DEF CallInv, BeforeCommit, Calls
<1>3. UNCHANGED <<deadline, providerEvents, scenario>>
  BY Zenon DEF Commit
<1>4. CASE /\ CommitCondition(call[a].plan) /\ CommitApplied(a, call[a].plan)
           /\ StepTo(a, "confirm") /\ UNCHANGED transport
  <2>1. ItemStep /\ effects' = effects \cup {a} /\ (treatment'.owner = a <=> call[a].plan = "targeted")
    BY <1>2, <1>3, <1>4, CommitAppliedItem, Zenon
  <2>2. /\ call' \in [Attempts -> Calls] /\ \A b \in Attempts \ {a} : call'[b] = call[b]
        /\ call'[a].step = "confirm" /\ call'[a].plan = call[a].plan /\ call'[a].late = call[a].late
    BY <1>1, <1>4, StepToFields, Zenon DEF ProviderTypeOK, CallSteps
  <2>3. CallInv(a)'
    BY <1>1, <1>2, <1>4, <2>1, <2>2, Zenon DEF CallInv, BeforeCommit, AfterCommit, HeldSteps
  <2>4. Contract!Commit(a)
    BY <1>2, <1>4, <2>1, Zenon DEF Contract!Commit
  <2> QED
    BY <1>1, <1>3, <1>4, <2>1, <2>2, <2>3, <2>4, Zenon
       DEF ProviderEffect, Apart, ProviderTypeOK, Contract!Next, Contract!ProviderStep
<1>5. CASE /\ call' = [call EXCEPT ![a].plan = "untargeted"]
           /\ UNCHANGED <<effects, treatment, transport>>
  <2> DEFINE c == [call[a] EXCEPT !.plan = "untargeted"]
  <2>1. c \in Calls /\ c.step = "commit" /\ c.late = call[a].late
    BY <1>1, Zenon DEF Calls, CommitKinds
  <2>2. call' = [call EXCEPT ![a] = c]
    BY <1>5, Zenon
  <2> HIDE DEF c
  <2>3. call' \in [Attempts -> Calls] /\ call'[a] = c /\ \A b \in Attempts \ {a} : call'[b] = call[b]
    BY <1>1, <2>1, <2>2, Zenon DEF ProviderTypeOK
  <2>4. CallInv(a)'
    BY <1>1, <1>2, <1>5, <2>1, <2>3, Zenon DEF CallInv, BeforeCommit, AfterCommit, HeldSteps
  <2>5. ItemStep
    BY <1>1, <1>3, <1>5, Zenon DEF ItemStep, TypeOK, TreatmentTypeOK
  <2> QED
    BY <1>1, <1>3, <1>5, <2>3, <2>4, <2>5, Zenon DEF ProviderEffect, Apart, ProviderTypeOK
<1>6. CASE StepTo(a, "commitFailed") /\ UNCHANGED <<effects, treatment, transport>>
  <2>1. Quiet
    BY <1>1, <1>3, <1>6, Zenon DEF Quiet, ProviderTypeOK
  <2> QED
    BY <1>1, <1>6, <2>1, Advances, QuietItem, Zenon DEF Quiet, BeforeCommit, AfterCommit, HeldSteps
<1>7. CASE /\ call' = [call EXCEPT ![a].step = "ended", ![a].late = call[a].plan]
           /\ transport' = [transport EXCEPT ![a] = "FAULT"]
           /\ UNCHANGED <<effects, treatment>>
  <2> DEFINE k == [call[a] EXCEPT !.step = "ended"]
             c == [k EXCEPT !.late = call[a].plan]
  <2>1. k \in Calls /\ k.step = "ended"
    BY <1>1, Zenon DEF Calls, CallSteps
  <2> HIDE DEF k
  <2>2. c \in Calls /\ c.step = "ended"
    BY <1>2, <2>1, Zenon DEF Calls
  <2>3. call' = [call EXCEPT ![a] = c]
    BY <1>1, <1>7, Zenon DEF k, ProviderTypeOK
  <2> HIDE DEF c
  <2>4. call' \in [Attempts -> Calls] /\ call'[a] = c /\ \A b \in Attempts \ {a} : call'[b] = call[b]
    BY <1>1, <2>2, <2>3, Zenon DEF ProviderTypeOK
  <2>5. /\ transport' \in [Attempts -> {"IDLE", "SENT", "SUCCEEDED", "REJECTED", "FAULT"}]
        /\ transport'[a] = "FAULT" /\ \A b \in Attempts \ {a} : transport'[b] = transport[b]
    BY <1>1, <1>7, Zenon DEF ProviderTypeOK
  <2>6. CallInv(a)'
    BY <1>1, <1>2, <1>7, <2>2, <2>4, <2>5, Zenon DEF CallInv, BeforeCommit, AfterCommit, HeldSteps
  <2>7. ItemStep
    BY <1>1, <1>3, <1>7, Zenon DEF ItemStep, TypeOK, TreatmentTypeOK
  <2>8. Contract!Answer(a, "FAULT")
    BY <1>2, <1>7, Zenon DEF Contract!Answer
  <2> QED
    BY <1>1, <1>3, <1>7, <2>4, <2>5, <2>6, <2>7, <2>8, Zenon
       DEF ProviderEffect, Apart, ProviderTypeOK, Contract!Next, Contract!ProviderStep
<1> QED
  BY <1>4, <1>5, <1>6, <1>7, Zenon DEF Commit

\* A request whose answer was lost is executed or refused by the store (attemptCommit).
LEMMA LateCommitEffect ==
  ASSUME ProtocolInv, NEW a \in Attempts, LateCommit(a), UNCHANGED timeouts
  PROVE  ProviderEffect(a)
<1>1. CallInv(a) /\ ProviderTypeOK /\ TypeOK /\ call[a] \in Calls
  BY Zenon DEF ProtocolInv, TypeOK, ProviderTypeOK
<1>2. a \notin effects /\ transport[a] = "FAULT" /\ call[a].late \in CommitKinds /\ call[a].step = "ended"
  BY <1>1, Zenon DEF CallInv, LateCommit, Calls, ProviderTypeOK
<1> DEFINE c == [call[a] EXCEPT !.late = "none"]
<1>3. c \in Calls /\ c.step = "ended" /\ c.late = "none"
  BY <1>1, <1>2, Zenon DEF Calls
<1>4. call' = [call EXCEPT ![a] = c]
  BY Zenon DEF LateCommit
<1> HIDE DEF c
<1>5. call' \in [Attempts -> Calls] /\ call'[a] = c /\ \A b \in Attempts \ {a} : call'[b] = call[b]
  BY <1>1, <1>3, <1>4, Zenon DEF ProviderTypeOK
<1>6. UNCHANGED <<transport, deadline, providerEvents, scenario>>
  BY Zenon DEF LateCommit
<1>7. CallInv(a)'
  BY <1>2, <1>3, <1>5, <1>6, Zenon DEF CallInv, BeforeCommit, AfterCommit, HeldSteps
<1>8. CASE CommitCondition(call[a].late)
  <2>1. ItemStep /\ effects' = effects \cup {a}
    BY <1>2, <1>6, <1>8, CommitAppliedItem, Zenon DEF LateCommit
  <2>2. Contract!Commit(a)
    BY <1>2, <1>6, <2>1, Zenon DEF Contract!Commit
  <2> QED
    BY <1>1, <1>5, <1>6, <1>7, <2>1, <2>2, Zenon
       DEF ProviderEffect, Apart, ProviderTypeOK, Contract!Next, Contract!ProviderStep
<1>9. CASE ~CommitCondition(call[a].late)
  <2>1. ItemStep /\ effects' = effects
    BY <1>1, <1>6, <1>9, Zenon DEF LateCommit, ItemStep, TypeOK, TreatmentTypeOK
  <2> QED
    BY <1>1, <1>5, <1>6, <1>7, <2>1, Zenon DEF ProviderEffect, Apart, ProviderTypeOK
<1> QED
  BY <1>8, <1>9, Zenon
-----------------------------------------------------------------------------
(* The barrier. *)

\* What a readable item of the held call may decide (decideBarrierStep).
LEMMA BarrierSteps ==
  ASSUME TypeOK, NEW a \in Attempts
  PROVE  /\ decideBarrierStep(a, treatment) \in {"observe", "release", "safetyRelease", "poll", "external", "ended"}
         /\ decideBarrierStep(a, treatment) = "external" => treatment.state = "SAFETY_RELEASED"
<1>1. treatment.state \in {"ARMED", "COMMITTED_WAITING", "TIMEOUT_SIGNALLED", "TIMEOUT_OBSERVED",
                           "RESPONSE_RELEASED", "SAFETY_RELEASED", "ABSENT"}
  BY Zenon DEF TypeOK, TreatmentTypeOK, TreatmentItems, TREATMENT_STATES, NONTERMINAL_TREATMENT_STATES, COMMITTED_WAIT_STATES
<1> QED
  BY <1>1, Zenon DEF decideBarrierStep

\* The held call performs what it decided: it stays held, or faults (Perform).
LEMMA PerformEffect ==
  ASSUME ProtocolInv, NEW a \in Attempts, call[a].step \in HeldSteps, treatment.owner = a, Quiet,
         NEW s \in {"observe", "release", "safetyRelease", "poll", "external", "ended"}, Perform(a, s),
         s = "external" => treatment.state = "SAFETY_RELEASED"
  PROVE  ProviderEffect(a)
<1>1. ItemStep
  BY QuietItem, Zenon DEF ProtocolInv
<1>2. CASE s = "ended"
  BY <1>2, Faults, Zenon DEF Perform, HeldSteps
<1>3. CASE s # "ended"
  BY <1>1, <1>3, Advances, Zenon DEF Perform, Quiet, BeforeCommit, AfterCommit, HeldSteps
<1> QED
  BY <1>2, <1>3, Zenon
\* One poll of the barrier (awaitRelease).
LEMMA PollEffect ==
  ASSUME ProtocolInv, NEW a \in Attempts, NEW readable \in BOOLEAN, Poll(a, readable), UNCHANGED timeouts
  PROVE  ProviderEffect(a)
<1>1. CallInv(a) /\ TypeOK /\ call[a].step = "poll" /\ treatment.owner = a
  BY Zenon DEF ProtocolInv, Poll, AtStep, CallInv, HeldSteps
<1>2. Quiet
  BY <1>1, Zenon DEF Poll, Quiet, TypeOK, ProviderTypeOK
<1> DEFINE s == IF readable THEN decideBarrierStep(a, treatment)
                ELSE IF a \in deadline THEN "safetyRelease" ELSE "poll"
<1>3. /\ s \in {"observe", "release", "safetyRelease", "poll", "external", "ended"}
      /\ s = "external" => treatment.state = "SAFETY_RELEASED"
  BY <1>1, BarrierSteps, Zenon
<1>4. Perform(a, s)
  BY Zenon DEF Poll
<1> HIDE DEF s
<1> QED
  BY <1>1, <1>2, <1>3, <1>4, PerformEffect, Zenon DEF HeldSteps

\* A conditional transition of the held call (#transition).
LEMMA TransitionEffect ==
  ASSUME ProtocolInv, NEW a \in Attempts, NEW o, Transition(a, o), UNCHANGED timeouts
  PROVE  ProviderEffect(a)
<1>1. PICK t \in BarrierTransitions :
    /\ AtStep(a, t.step)
    /\ o \in WriteOutcomes(treatment.state = t.from)
    /\ IF Landed(o) THEN TransitionApplied(a, t) ELSE UNCHANGED <<treatment, providerEvents>>
    /\ CASE o = "applied" /\ t.step = "observe" -> StepTo(a, "release") /\ UNCHANGED transport
         [] o = "applied" /\ t.step # "observe" -> EndWith(a, "SUCCEEDED")
         [] o = "condition_failed" -> Perform(a, decideBarrierStep(a, treatment))
         [] o = "rejected" -> StepTo(a, "poll") /\ UNCHANGED transport
         [] IsAmbiguous(o) -> EndWith(a, "FAULT")
    /\ UNCHANGED <<effects, deadline, scenario>>
  BY Zenon DEF Transition
<1>2. /\ t.step \in {"observe", "release", "safetyRelease"} /\ t.event \in ProviderEventTypes
      /\ t.to \in TREATMENT_STATES /\ t.to # "ABSENT"
      /\ \/ t.step = "observe" /\ t.from = "TIMEOUT_SIGNALLED" /\ t.to = "TIMEOUT_OBSERVED"
         \/ t.step = "release" /\ t.from = "TIMEOUT_OBSERVED" /\ t.to = "RESPONSE_RELEASED"
         \/ t.step = "safetyRelease" /\ t.from = "COMMITTED_WAITING" /\ t.to = "SAFETY_RELEASED"
  BY DEF BarrierTransitions, ProviderEventTypes, TREATMENT_STATES, NONTERMINAL_TREATMENT_STATES, COMMITTED_WAIT_STATES
<1>3. TypeOK /\ treatment \in TreatmentItems /\ call[a].step = t.step /\ treatment.owner = a
  BY <1>1, <1>2 DEF ProtocolInv, TypeOK, TreatmentTypeOK, AtStep, CallInv, HeldSteps
<1>4. o \in {"applied", "rejected", "ambiguous_landed", "ambiguous_lost", "condition_failed"}
      /\ (Landed(o) => treatment.state = t.from)
  BY <1>1, Zenon DEF WriteOutcomes, Landed
<1>5. ~Landed(o) => Quiet
  BY <1>1, <1>3, Zenon DEF Quiet, TypeOK, ProviderTypeOK
<1>6. Landed(o) => /\ ItemStep /\ treatment'.owner = a /\ treatment'.state = t.to
                   /\ providerEvents' \in [Attempts -> SUBSET ProviderEventTypes]
  <2> SUFFICES ASSUME Landed(o) PROVE /\ ItemStep /\ treatment'.owner = a /\ treatment'.state = t.to
                                      /\ providerEvents' \in [Attempts -> SUBSET ProviderEventTypes]
    BY Zenon
  <2>1. PICK c \in SafetyReleaseCauses \cup {"NONE"} : treatment' = [MovedTo(t.to) EXCEPT !.cause = c]
    <3>1. MovedTo(t.to).cause \in SafetyReleaseCauses \cup {"NONE"}
      BY <1>2, <1>3, MovedToType, Zenon DEF TreatmentItems
    <3> QED
      BY <1>1, <3>1, Zenon DEF TransitionApplied, SafetyReleaseCauses
  <2>2. /\ treatment' \in TreatmentItems /\ treatment'.state = t.to /\ treatment'.signal = treatment.signal
        /\ treatment'.owner = treatment.owner /\ treatment'.version = treatment.version + 1
    BY <1>2, <1>3, <2>1, CauseMoves, Zenon
  <2>3. providerEvents' \in [Attempts -> SUBSET ProviderEventTypes]
    BY <1>1, <1>2, <1>3, RecordType, Zenon DEF TransitionApplied, TypeOK, ProviderTypeOK
  <2> QED
    BY <1>1, <1>2, <1>3, <1>4, <2>2, <2>3, Zenon
       DEF ItemStep, Moves, NONTERMINAL_TREATMENT_STATES, COMMITTED_WAIT_STATES
<1>7. effects' = effects /\ deadline' \subseteq Attempts
  BY <1>1, <1>3, Zenon DEF TypeOK, ProviderTypeOK
<1>8. CASE o = "applied"
  <2>1. Landed(o)
    BY <1>8, Zenon DEF Landed
  <2>2. CASE t.step = "observe"
    <3>1. StepTo(a, "release") /\ UNCHANGED transport
      BY <1>1, <1>8, <2>2, Zenon DEF IsAmbiguous
    <3> QED
      BY <1>3, <1>6, <1>7, <2>1, <2>2, <3>1, Advances, Zenon DEF BeforeCommit, AfterCommit, HeldSteps
  <2>3. CASE t.step # "observe"
    <3>1. EndWith(a, "SUCCEEDED")
      BY <1>1, <1>8, <2>3, Zenon DEF IsAmbiguous
    <3>2. t.to \in ReleasedStates /\ call[a].step \in AfterCommit
      BY <1>2, <1>3, <2>3, Zenon DEF ReleasedStates, AfterCommit, HeldSteps
    <3> QED
      BY <1>6, <1>7, <2>1, <3>1, <3>2, Succeeds, Zenon
  <2> QED
    BY <2>2, <2>3, Zenon
<1>9. CASE o = "condition_failed"
  <2>1. Perform(a, decideBarrierStep(a, treatment)) /\ Quiet
    BY <1>1, <1>5, <1>9, Zenon DEF Landed, IsAmbiguous
  <2> DEFINE s == decideBarrierStep(a, treatment)
  <2>2. /\ s \in {"observe", "release", "safetyRelease", "poll", "external", "ended"}
        /\ s = "external" => treatment.state = "SAFETY_RELEASED"
    BY <1>3, BarrierSteps, Zenon
  <2> HIDE DEF s
  <2> QED
    BY <1>2, <1>3, <2>1, <2>2, PerformEffect, Zenon DEF s, HeldSteps
<1>10. CASE o = "rejected"
  <2>1. StepTo(a, "poll") /\ UNCHANGED transport /\ Quiet
    BY <1>1, <1>5, <1>10, Zenon DEF Landed, IsAmbiguous
  <2> QED
    BY <1>2, <1>3, <2>1, Advances, QuietItem, Zenon DEF Quiet, BeforeCommit, AfterCommit, HeldSteps
<1>11. CASE IsAmbiguous(o)
  <2>1. EndWith(a, "FAULT")
    BY <1>1, <1>11, Zenon DEF IsAmbiguous
  <2>2. ItemStep /\ providerEvents' \in [Attempts -> SUBSET ProviderEventTypes]
    BY <1>3, <1>5, <1>6, QuietItem, Zenon DEF Quiet
  <2> QED
    BY <1>2, <1>3, <1>7, <2>1, <2>2, FaultsAnyItem, Zenon
<1> QED
  BY <1>4, <1>8, <1>9, <1>10, <1>11, Zenon DEF IsAmbiguous

\* Every step of a provider call keeps the invariant and is a step of the contract
\* or none.
LEMMA ProviderStepEffect ==
  ASSUME ProtocolInv, NEW a \in Attempts, ProviderActs(a)
  PROVE  ProviderEffect(a)
<1>1. ProviderStep(a) /\ UNCHANGED timeouts
  BY Zenon DEF ProviderActs
<1>2. CASE FaultCall(a) \/ RecordCommitFailure(a)
  <2>1. call[a].step \notin {"none", "ended"} /\ EndWith(a, "FAULT") /\ Quiet
    BY <1>1, <1>2, Zenon DEF FaultCall, RecordCommitFailure, AtStep, Quiet, ProtocolInv, TypeOK, ProviderTypeOK
  <2> QED
    BY <2>1, Faults, Zenon
<1>3. CASE RejectUnattributed(a)
  BY <1>1, <1>3, AppendAndReject, Zenon DEF RejectUnattributed, AtStep, BeforeCommit
<1>4. CASE Respond(a) \/ RecordExternalRelease(a)
  BY <1>1, <1>4, AppendAndSucceed, Zenon DEF Respond, RecordExternalRelease, AtStep, ProviderEventTypes
<1>5. CASE DeadlinePasses(a)
  <2>1. UNCHANGED <<transport, effects, call, treatment, scenario, timeouts>> /\ ProviderTypeOK' /\ CallInv(a) /\ TypeOK
    BY <1>1, <1>5, Zenon DEF DeadlinePasses, ProtocolInv, TypeOK, ProviderTypeOK
  <2>2. ItemStep /\ CallInv(a)'
    BY <2>1, Zenon DEF ItemStep, TypeOK, TreatmentTypeOK, CallInv
  <2> QED
    BY <2>1, <2>2, Zenon DEF ProviderEffect, Apart
<1>6. CASE BarrierStep(a)
  BY <1>1, <1>4, <1>6, PollEffect, TransitionEffect, Zenon DEF BarrierStep
<1> QED
  BY <1>1, <1>2, <1>3, <1>4, <1>5, <1>6, InvokeEffect, OpenSessionEffect, JudgeEffect, CommitEffect,
     LateCommitEffect, ConfirmEffect, Zenon DEF ProviderStep
\* A provider step keeps the whole invariant.
LEMMA ProviderKeeps ==
  ASSUME ProtocolInv, NEW a \in Attempts, ProviderActs(a)
  PROVE  ProtocolInv'
<1>1. ProviderEffect(a)
  BY ProviderStepEffect, Zenon
<1>2. UNCHANGED <<stream, ctrl, controllerEvents, release, timeouts>>
  BY Zenon DEF ProviderActs, controllerVars
<1>3. TypeOK'
  BY <1>1, <1>2, Zenon DEF ProviderEffect, ItemStep, ProtocolInv, TypeOK, TreatmentTypeOK, ControllerTypeOK, BarrierReleaseTypeOK
<1>4. ItemInv' /\ ReleaseInv'
  BY <1>1, <1>2, ItemKept, ReleaseKept, Zenon DEF ProviderEffect, ProtocolInv, TypeOK
<1>5. ControllerInv'
  BY <1>2, Zenon DEF ProtocolInv, ControllerInv
<1>6. \A b \in Attempts : CallInv(b)'
  <2>1. ASSUME NEW b \in Attempts, b # a PROVE CallInv(b)'
    BY <1>1, <2>1, CallKept, Zenon DEF ProviderEffect, Apart, ProtocolInv, TypeOK
  <2> QED
    BY <1>1, <2>1, Zenon DEF ProviderEffect
<1> QED
  BY <1>3, <1>4, <1>5, <1>6, Zenon DEF ProtocolInv

-----------------------------------------------------------------------------
(* The callers, the controller and cleanup. *)

\* A step that leaves the calls alone keeps their invariants.
LEMMA CallsKept ==
  ASSUME ProtocolInv, ItemStep, UNCHANGED providerVars
  PROVE  ItemInv' /\ (\A b \in Attempts : CallInv(b)') /\ ProviderTypeOK' /\ TreatmentTypeOK'
<1>1. UNCHANGED <<transport, effects, call, deadline, providerEvents>>
  BY Zenon DEF providerVars
<1>2. ItemInv'
  BY ItemKept, Zenon DEF ProtocolInv, TypeOK
<1>3. \A b \in Attempts : CallInv(b)'
  BY <1>1, CallKept, Zenon DEF ProtocolInv, TypeOK
<1> QED
  BY <1>1, <1>2, <1>3, Zenon DEF ProtocolInv, TypeOK, ProviderTypeOK, TreatmentTypeOK, ItemStep

\* A timeout that reaches the stream is recorded (CallerTimesOut).
LEMMA TimeoutKeeps ==
  ASSUME ProtocolInv, NEW a \in Attempts, CallerTimesOut(a)
  PROVE  ProtocolInv'
<1>1. TypeOK /\ ControllerInv /\ stream \in Seq(Attempts)
  BY Zenon DEF ProtocolInv, TypeOK, ControllerTypeOK
<1>2. ItemStep
  BY <1>1, Zenon DEF CallerTimesOut, ItemStep, TypeOK, TreatmentTypeOK, providerVars
<1>3. ReleaseInv'
  BY <1>2, ReleaseKept, Zenon DEF ProtocolInv, CallerTimesOut
<1>4. stream' \in Seq(Attempts) /\ stream' # <<>> /\ \A i \in 1 .. Len(stream') : stream'[i] \in timeouts'
  BY <1>1 DEF CallerTimesOut, ControllerInv
<1>5. TypeOK'
  BY <1>1, <1>2, <1>4, CallsKept, Zenon DEF CallerTimesOut, TypeOK, ControllerTypeOK, BarrierReleaseTypeOK
<1> QED
  BY <1>1, <1>2, <1>3, <1>4, <1>5, CallsKept, Zenon DEF ProtocolInv, CallerTimesOut, ControllerInv

\* The first record's attempt has recorded its timeout.
LEMMA HeadIsTimeout ==
  ASSUME ProtocolInv, stream # <<>>
  PROVE  /\ Head(stream) \in Attempts /\ Head(stream) \in timeouts
         /\ Tail(stream) \in Seq(Attempts) /\ \A i \in 1 .. Len(Tail(stream)) : Tail(stream)[i] \in timeouts
BY DEF ProtocolInv, TypeOK, ControllerTypeOK, ControllerInv

\* decideSignal always decides, and asks for the signal of the waiting owner only.
LEMMA DecideSignal ==
  ASSUME TypeOK, ItemInv, NEW a \in Attempts
  PROVE  /\ decideSignal(a, treatment) \in Decisions
         /\ decideSignal(a, treatment) = "signal" => SignalCondition(a)
<1>1. treatment.state \in {"ARMED", "COMMITTED_WAITING", "TIMEOUT_SIGNALLED", "TIMEOUT_OBSERVED",
                           "RESPONSE_RELEASED", "SAFETY_RELEASED", "ABSENT"}
  BY Zenon DEF TypeOK, TreatmentTypeOK, TreatmentItems, TREATMENT_STATES, NONTERMINAL_TREATMENT_STATES, COMMITTED_WAIT_STATES
<1>2. scenario # "CONTROL" => treatment.state # "ABSENT"
  BY Zenon DEF ItemInv
<1> QED
  BY <1>1, <1>2, Zenon DEF decideSignal, Decisions, SignalCondition

\* What the controller may do to its stream: keep it, or drop the handled record.
ControllerEffect ==
  /\ ControllerTypeOK' /\ ItemStep /\ ControllerInv'

\* A handled record, or one that is retried (RecordHandled, RetryRecord).
LEMMA RetryEffect ==
  ASSUME ProtocolInv, stream # <<>>, RetryRecord \/ RecordHandled, UNCHANGED timeouts,
         controllerEvents' \subseteq [attempt : Attempts, decision : Decisions]
  PROVE  ControllerTypeOK' /\ ControllerInv'
<1>1. TypeOK /\ ControllerInv
  BY Zenon DEF ProtocolInv
<1>2. CASE RecordHandled
  <2>1. stream' \in Seq(Attempts) /\ \A i \in 1 .. Len(stream') : stream'[i] \in timeouts'
    BY <1>2, HeadIsTimeout, Zenon DEF RecordHandled
  <2>2. ctrl' = IdleController /\ 0 \in 0 .. MaxTries - 1
    BY <1>2, TriesAssumption DEF RecordHandled
  <2> QED
    BY <2>1, <2>2, Zenon DEF ControllerTypeOK, ControllerInv, IdleController, Decisions
<1>3. CASE RetryRecord /\ ~RecordHandled
  <2>1. ctrl.tries \in 0 .. MaxTries - 1 /\ ctrl.tries + 1 < MaxTries
    BY <1>1, <1>3, Zenon DEF RetryRecord, TypeOK, ControllerTypeOK
  <2>2. ctrl' = [IdleController EXCEPT !.tries = ctrl.tries + 1] /\ stream' = stream
    BY <1>3, <2>1, Zenon DEF RetryRecord
  <2>3. ctrl.tries + 1 \in 0 .. MaxTries - 1
    BY <2>1, TriesAssumption
  <2> QED
    BY <1>1, <2>2, <2>3, Zenon DEF ControllerTypeOK, ControllerInv, IdleController, Decisions, TypeOK
<1> QED
  BY <1>2, <1>3, Zenon
\* The controller's record after a decision.
LEMMA CtrlDecided ==
  ASSUME TypeOK, NEW d \in Decisions, NEW s \in {"signal", "append"},
         ctrl' = [ctrl EXCEPT !.decision = d, !.step = s]
  PROVE  /\ ctrl'.step = s
         /\ ctrl' \in [step : {"idle", "signal", "append", "redecidedToSignal"}, decision : Decisions,
                       tries : 0 .. MaxTries - 1]
BY Zenon DEF TypeOK, ControllerTypeOK

\* #plan: the controller goes on with the decision it made.
LEMMA PlanEffect ==
  ASSUME ProtocolInv, Plan, UNCHANGED <<providerVars, timeouts>>
  PROVE  ControllerEffect
<1>1. TypeOK /\ ItemInv /\ ControllerInv
  BY Zenon DEF ProtocolInv
<1>2. ItemStep
  BY <1>1, Zenon DEF Plan, ItemStep, TypeOK, TreatmentTypeOK, providerVars
<1> DEFINE d == decideSignal(Head(stream), treatment)
           s == IF d = "signal" THEN "signal" ELSE "append"
<1>3. d \in Decisions
  BY <1>1, HeadIsTimeout, DecideSignal, Zenon DEF Plan
<1>4. ctrl' = [ctrl EXCEPT !.decision = d, !.step = s]
  BY Zenon DEF Plan
<1> HIDE DEF d
<1>5. s \in {"signal", "append"}
  BY Zenon
<1> HIDE DEF s
<1>6. /\ ctrl'.step = s
      /\ ctrl' \in [step : {"idle", "signal", "append", "redecidedToSignal"}, decision : Decisions,
                    tries : 0 .. MaxTries - 1]
  BY <1>1, <1>3, <1>4, <1>5, CtrlDecided, Zenon
<1>7. stream' = stream /\ stream # <<>> /\ controllerEvents' = controllerEvents /\ timeouts' = timeouts
  BY Zenon DEF Plan
<1>8. ControllerTypeOK'
  BY <1>1, <1>6, <1>7, Zenon DEF TypeOK, ControllerTypeOK
<1>9. ControllerInv'
  BY <1>1, <1>5, <1>6, <1>7, Zenon DEF ControllerInv
<1> QED
  BY <1>2, <1>8, <1>9, Zenon DEF ControllerEffect

\* #signal: a signal that lands is the waiting owner's, and a failed one is never
\* decided to be a signal again.
LEMMA SignalEffect ==
  ASSUME ProtocolInv, Signal, UNCHANGED <<providerVars, timeouts>>
  PROVE  ControllerEffect
<1>1. TypeOK /\ ItemInv /\ ControllerInv /\ stream # <<>> /\ treatment \in TreatmentItems
  BY Zenon DEF ProtocolInv, Signal, ControllerInv, TypeOK, TreatmentTypeOK
<1> DEFINE a == Head(stream)
<1>2. a \in Attempts /\ a \in timeouts
  BY <1>1, HeadIsTimeout, Zenon
<1>3. PICK o \in WriteOutcomes(SignalCondition(a)) :
        /\ IF Landed(o)
           THEN /\ treatment' = [MovedTo("TIMEOUT_SIGNALLED") EXCEPT !.signal = a]
                /\ controllerEvents' = controllerEvents \cup {[attempt |-> a, decision |-> "signal"]}
           ELSE UNCHANGED <<treatment, controllerEvents>>
        /\ CASE o = "applied" -> RecordHandled
             [] o = "condition_failed" ->
                  LET again == decideSignal(a, treatment)
                  IN  /\ ctrl' = [ctrl EXCEPT !.decision = again,
                                              !.step = IF again = "signal" THEN "redecidedToSignal"
                                                       ELSE "append"]
                      /\ UNCHANGED stream
             [] o = "rejected" \/ IsAmbiguous(o) -> RetryRecord
  BY Zenon DEF Signal
<1> HIDE DEF a
<1>4. /\ o \in {"applied", "rejected", "ambiguous_landed", "ambiguous_lost", "condition_failed"}
      /\ Landed(o) => SignalCondition(a)
      /\ o = "condition_failed" => ~SignalCondition(a)
  BY <1>3, Zenon DEF WriteOutcomes, Landed
<1>5. scenario' = scenario /\ UNCHANGED <<effects, timeouts>>
  BY Zenon DEF Signal, providerVars
<1>6. ItemStep
  <2>1. CASE Landed(o)
    <3>1. treatment' = [MovedTo("TIMEOUT_SIGNALLED") EXCEPT !.signal = a]
      BY <1>3, <2>1, Zenon
    <3>2. /\ treatment' \in TreatmentItems /\ treatment'.state = "TIMEOUT_SIGNALLED" /\ treatment'.signal = a
          /\ treatment'.owner = treatment.owner /\ treatment'.version = treatment.version + 1
      BY <1>1, <1>2, <3>1, SignalMoves, Zenon
    <3>3. treatment.state = "COMMITTED_WAITING" /\ treatment.owner = a
      BY <1>4, <2>1, Zenon DEF SignalCondition
    <3> QED
      BY <1>2, <1>5, <3>2, <3>3, Zenon DEF ItemStep, Moves
  <2>2. CASE ~Landed(o)
    BY <1>1, <1>3, <1>5, <2>2, Zenon DEF ItemStep
  <2> QED
    BY <2>1, <2>2, Zenon
<1>7. controllerEvents' \subseteq [attempt : Attempts, decision : Decisions]
  BY <1>1, <1>2, <1>3 DEF TypeOK, ControllerTypeOK, Decisions
<1>8. CASE o # "condition_failed"
  <2>1. RecordHandled \/ RetryRecord
    BY <1>3, <1>4, <1>8, Zenon DEF IsAmbiguous
  <2> QED
    BY <1>1, <1>6, <1>7, <2>1, RetryEffect, Zenon DEF ControllerEffect
<1>9. CASE o = "condition_failed"
  <2> DEFINE d == decideSignal(a, treatment)
  <2>1. d \in Decisions /\ d # "signal"
    BY <1>1, <1>2, <1>4, <1>9, DecideSignal, Zenon
  <2>2. /\ ctrl' = [ctrl EXCEPT !.decision = d, !.step = IF d = "signal" THEN "redecidedToSignal" ELSE "append"]
        /\ stream' = stream
    BY <1>3, <1>9, Zenon DEF IsAmbiguous
  <2> HIDE DEF d
  <2>3. ctrl' = [ctrl EXCEPT !.decision = d, !.step = "append"]
    BY <2>1, <2>2, Zenon
  <2>4. /\ ctrl'.step = "append"
        /\ ctrl' \in [step : {"idle", "signal", "append", "redecidedToSignal"}, decision : Decisions,
                      tries : 0 .. MaxTries - 1]
    BY <1>1, <2>1, <2>3, CtrlDecided, Zenon
  <2>5. ControllerTypeOK' /\ ControllerInv'
    BY <1>1, <1>5, <1>7, <2>2, <2>4, Zenon DEF TypeOK, ControllerTypeOK, ControllerInv
  <2> QED
    BY <1>6, <2>5, Zenon DEF ControllerEffect
<1> QED
  BY <1>8, <1>9, Zenon

\* Every step of the controller: the append of a decision and a fault retry or
\* drop the record.
LEMMA ControllerStepEffect ==
  ASSUME ProtocolInv, ControllerActs
  PROVE  ControllerEffect
<1>1. TypeOK /\ ControllerInv /\ UNCHANGED <<providerVars, release, timeouts>>
  BY Zenon DEF ProtocolInv, ControllerActs
<1>2. CASE AppendDecision
  <2>1. stream # <<>>
    BY <1>1, <1>2, Zenon DEF AppendDecision, ControllerInv
  <2>2. ctrl.decision \in Decisions
    BY <1>1, Zenon DEF TypeOK, ControllerTypeOK
  <2>3. controllerEvents' \subseteq [attempt : Attempts, decision : Decisions]
    BY <1>1, <1>2, <2>1, <2>2, HeadIsTimeout DEF AppendDecision, TypeOK, ControllerTypeOK
  <2>4. ControllerTypeOK' /\ ControllerInv'
    BY <1>1, <1>2, <2>1, <2>3, RetryEffect, Zenon DEF AppendDecision
  <2> QED
    BY <1>1, <1>2, <2>4, Zenon DEF AppendDecision, ControllerEffect, ItemStep, TypeOK, TreatmentTypeOK, providerVars
<1>3. CASE FaultController
  <2>1. ControllerTypeOK' /\ ControllerInv'
    BY <1>1, <1>3, RetryEffect, Zenon DEF FaultController, TypeOK, ControllerTypeOK
  <2> QED
    BY <1>1, <1>3, <2>1, Zenon DEF FaultController, ControllerEffect, ItemStep, TypeOK, TreatmentTypeOK, providerVars
<1> QED
  BY <1>1, <1>2, <1>3, PlanEffect, SignalEffect, Zenon DEF ControllerActs, ControllerStep

\* A step of the controller keeps the whole invariant.
LEMMA ControllerKeeps ==
  ASSUME ProtocolInv, ControllerActs
  PROVE  ProtocolInv' /\ ItemStep
<1>1. ControllerEffect /\ UNCHANGED <<providerVars, release, timeouts>>
  BY ControllerStepEffect, Zenon DEF ControllerActs
<1>2. ReleaseInv'
  BY <1>1, ReleaseKept, Zenon DEF ProtocolInv, ControllerEffect
<1>3. TypeOK'
  BY <1>1, CallsKept, Zenon DEF ProtocolInv, ControllerEffect, TypeOK, BarrierReleaseTypeOK
<1> QED
  BY <1>1, <1>2, <1>3, CallsKept, Zenon DEF ProtocolInv, ControllerEffect
\* Cleanup's release from the state and version it read: what it writes, and what
\* it reports (requestSafetyRelease, #decide, releaseOutcome).
LEMMA CleanupKeeps ==
  ASSUME ProtocolInv, CleanupActs
  PROVE  ProtocolInv' /\ ItemStep
<1>1. /\ TypeOK /\ ReleaseInv /\ ControllerInv /\ treatment \in TreatmentItems
      /\ release \in [step : {"idle", "decide", "write", "released", "not_held", "failed"},
                      attempt : 0 .. MAX_RELEASE_ATTEMPTS,
                      from : NONTERMINAL_TREATMENT_STATES \cup {"NONE"}, version : Nat]
  BY Zenon DEF ProtocolInv, TypeOK, TreatmentTypeOK, BarrierReleaseTypeOK
<1>2. UNCHANGED <<transport, effects, call, deadline, providerEvents, stream, ctrl, controllerEvents, timeouts>>
  BY Zenon DEF CleanupActs, providerVars, controllerVars
<1>3. treatment.version \in Nat
  BY <1>1, Zenon DEF TreatmentItems
<1>4. ASSUME requestSafetyRelease PROVE ItemStep /\ BarrierReleaseTypeOK' /\ ReleaseInv'
  <2>1. ItemStep
    BY <1>1, <1>2, <1>4, Zenon DEF requestSafetyRelease, ItemStep
  <2>2. BarrierReleaseTypeOK' /\ ReleaseInv'
    BY <1>4, ReleaseAssumption DEF requestSafetyRelease, BarrierReleaseTypeOK, ReleaseInv
  <2> QED
    BY <2>1, <2>2, Zenon
<1>5. ASSUME DecideRelease PROVE ItemStep /\ BarrierReleaseTypeOK' /\ ReleaseInv'
  <2>1. ItemStep /\ treatment' = treatment
    BY <1>1, <1>2, <1>5, Zenon DEF DecideRelease, ItemStep
  <2>2. CASE /\ treatment.state \in NONTERMINAL_TREATMENT_STATES
             /\ release' = [release EXCEPT !.step = "write", !.from = treatment.state, !.version = treatment.version]
    BY <1>1, <1>3, <2>1, <2>2, Zenon DEF BarrierReleaseTypeOK, ReleaseInv
  <2>3. CASE treatment.state \notin NONTERMINAL_TREATMENT_STATES /\ release' = [release EXCEPT !.step = "not_held"]
    BY <1>1, <2>1, <2>3, Zenon DEF BarrierReleaseTypeOK, ReleaseInv
  <2>4. CASE release' = [release EXCEPT !.step = "failed"]
    BY <1>1, <2>1, <2>4, Zenon DEF BarrierReleaseTypeOK, ReleaseInv
  <2> QED
    BY <2>1, <2>2, <2>3, <2>4, <1>5, Zenon DEF DecideRelease
<1>6. ASSUME WriteRelease PROVE ItemStep /\ BarrierReleaseTypeOK' /\ ReleaseInv'
  <2>1. PICK o \in WriteOutcomes(ReleaseCondition) :
          /\ treatment' = IF Landed(o) THEN [MovedTo("SAFETY_RELEASED") EXCEPT !.cause = "CLEANUP_REQUEST"]
                          ELSE treatment
          /\ release' = CASE o = "applied" -> [release EXCEPT !.step = "released"]
                          [] o = "condition_failed" /\ release.attempt < MAX_RELEASE_ATTEMPTS ->
                               [release EXCEPT !.step = "decide", !.attempt = @ + 1]
                          [] OTHER -> [release EXCEPT !.step = "failed"]
    BY <1>6, Zenon DEF WriteRelease
  <2>2. Landed(o) => ReleaseCondition
    BY <2>1, Zenon DEF WriteOutcomes, Landed
  <2>3. ItemStep /\ (Landed(o) => treatment'.state = "SAFETY_RELEASED")
    <3>1. CASE Landed(o)
      <4>1. treatment.state \in NONTERMINAL_TREATMENT_STATES
        BY <1>1, <2>2, <3>1, Zenon DEF ReleaseCondition, TreatmentItems, TREATMENT_STATES, NONTERMINAL_TREATMENT_STATES,
           COMMITTED_WAIT_STATES
      <4>2. /\ treatment' \in TreatmentItems /\ treatment'.state = "SAFETY_RELEASED"
            /\ treatment'.signal = treatment.signal
            /\ treatment'.owner = treatment.owner /\ treatment'.version = treatment.version + 1
        <5>1. treatment' = [MovedTo("SAFETY_RELEASED") EXCEPT !.cause = "CLEANUP_REQUEST"]
          BY <2>1, <3>1, Zenon
        <5> QED
          BY <1>1, <5>1, CauseMoves, Zenon DEF TREATMENT_STATES, SafetyReleaseCauses
      <4> QED
        BY <1>2, <1>6, <4>1, <4>2, Zenon DEF ItemStep, Moves, WriteRelease
    <3>2. CASE ~Landed(o)
      BY <1>1, <1>2, <1>6, <2>1, <3>2, Zenon DEF ItemStep, WriteRelease
    <3> QED
      BY <3>1, <3>2, Zenon
  <2>4. BarrierReleaseTypeOK' /\ ReleaseInv'
    <3>1. CASE o = "applied"
      <4>1. release' = [release EXCEPT !.step = "released"] /\ treatment'.state = "SAFETY_RELEASED"
        BY <2>1, <2>3, <3>1, Zenon DEF Landed
      <4> QED
        BY <1>1, <4>1, Zenon DEF BarrierReleaseTypeOK, ReleaseInv, NONTERMINAL_TREATMENT_STATES, COMMITTED_WAIT_STATES
    <3>2. CASE o = "condition_failed" /\ release.attempt < MAX_RELEASE_ATTEMPTS
      <4>1. release' = [release EXCEPT !.step = "decide", !.attempt = release.attempt + 1]
        BY <2>1, <3>2, Zenon
      <4>2. release.attempt + 1 \in 0 .. MAX_RELEASE_ATTEMPTS
        BY <1>1, <3>2, ReleaseAssumption
      <4> QED
        BY <1>1, <4>1, <4>2, Zenon DEF BarrierReleaseTypeOK, ReleaseInv
    <3>3. CASE ~(o = "applied") /\ ~(o = "condition_failed" /\ release.attempt < MAX_RELEASE_ATTEMPTS)
      <4>1. release' = [release EXCEPT !.step = "failed"]
        BY <2>1, <3>3, Zenon
      <4> QED
        BY <1>1, <4>1, Zenon DEF BarrierReleaseTypeOK, ReleaseInv
    <3> QED
      BY <3>1, <3>2, <3>3, Zenon
  <2> QED
    BY <2>3, <2>4, Zenon
<1>7. ItemStep /\ BarrierReleaseTypeOK' /\ ReleaseInv'
  BY <1>4, <1>5, <1>6, Zenon DEF CleanupActs, ReleaseStep
<1>8. ControllerTypeOK' /\ ControllerInv'
  BY <1>1, <1>2, Zenon DEF TypeOK, ControllerTypeOK, ControllerInv
<1>9. ItemInv' /\ (\A b \in Attempts : CallInv(b)') /\ ProviderTypeOK' /\ TreatmentTypeOK'
  BY <1>2, <1>7, CallsKept, Zenon DEF providerVars
<1>10. TypeOK'
  BY <1>1, <1>2, <1>7, <1>8, <1>9, Zenon DEF TypeOK
<1> QED
  BY <1>7, <1>8, <1>9, <1>10, Zenon DEF ProtocolInv

-----------------------------------------------------------------------------
\* Before the first call nothing is owned, sent or committed.
LEMMA ProtocolInit ==
  ASSUME Init
  PROVE  ProtocolInv
<1>1. TreatmentTypeOK /\ ItemInv
  BY Zenon DEF Init, TreatmentInit, TreatmentTypeOK, TreatmentItems, Scenarios, TREATMENT_STATES, NONTERMINAL_TREATMENT_STATES,
     COMMITTED_WAIT_STATES, ItemInv, SignalledStates
<1>2. ProviderTypeOK
  BY Zenon DEF Init, ProviderInit, ProviderTypeOK, NoCall, Calls, CallSteps, CallKinds, CommitKinds
<1>3. \A a \in Attempts : CallInv(a)
  BY Zenon DEF Init, ProviderInit, NoCall, CallInv, BeforeCommit, AfterCommit, HeldSteps
<1>4. ControllerTypeOK /\ ControllerInv
  <2>1. stream = <<>> /\ ctrl = IdleController /\ controllerEvents = {} /\ 0 \in 0 .. MaxTries - 1
    BY TriesAssumption DEF Init, ControllerInit
  <2>2. stream \in Seq(Attempts) /\ \A i \in 1 .. Len(stream) : stream[i] \in timeouts
    BY <2>1
  <2> QED
    BY <2>1, <2>2, Zenon DEF ControllerTypeOK, ControllerInv, IdleController, Decisions
<1>5. BarrierReleaseTypeOK /\ ReleaseInv
  BY ReleaseAssumption DEF Init, BarrierReleaseInit, BarrierReleaseTypeOK, ReleaseInv
<1> QED
  BY <1>1, <1>2, <1>3, <1>4, <1>5, Zenon DEF ProtocolInv, TypeOK, Init

\* Every step keeps the invariant, moves the item along its state machine and is a
\* step of the provider's contract or none.
LEMMA ProtocolNext ==
  ASSUME ProtocolInv, [Next]_vars
  PROVE  /\ ProtocolInv' /\ ItemStep
         /\ Contract!Next \/ UNCHANGED <<transport, effects>>
<1>1. CASE UNCHANGED vars
  <2>1. UNCHANGED <<scenario, treatment, transport, effects, call, deadline, providerEvents, stream, ctrl,
                    controllerEvents, release, timeouts>>
    BY <1>1, Zenon DEF vars, providerVars, controllerVars
  <2>2. ItemStep
    BY <2>1, Zenon DEF ProtocolInv, TypeOK, TreatmentTypeOK, ItemStep
  <2>3. TypeOK' /\ ControllerInv' /\ ReleaseInv'
    BY <2>1, Zenon DEF ProtocolInv, TypeOK, TreatmentTypeOK, ProviderTypeOK, ControllerTypeOK, BarrierReleaseTypeOK,
       ControllerInv, ReleaseInv
  <2>4. ItemInv' /\ \A b \in Attempts : CallInv(b)'
    BY <2>1, <2>2, CallsKept, Zenon DEF providerVars
  <2> QED
    BY <2>1, <2>2, <2>3, <2>4, Zenon DEF ProtocolInv
<1>2. ASSUME NEW a \in Attempts, ProviderActs(a)
      PROVE  /\ ProtocolInv' /\ ItemStep
             /\ Contract!Next \/ UNCHANGED <<transport, effects>>
  BY <1>2, ProviderKeeps, ProviderStepEffect, Zenon DEF ProviderEffect
<1>3. ASSUME NEW a \in Attempts, CallerTimesOut(a)
      PROVE  ProtocolInv' /\ ItemStep /\ UNCHANGED <<transport, effects>>
  <2>1. ItemStep
    BY <1>3, Zenon DEF CallerTimesOut, ItemStep, ProtocolInv, TypeOK, TreatmentTypeOK, providerVars
  <2> QED
    BY <1>3, <2>1, TimeoutKeeps, Zenon DEF CallerTimesOut, providerVars
<1>4. CASE ControllerActs
  BY <1>4, ControllerKeeps, Zenon DEF ControllerActs, providerVars
<1>5. CASE CleanupActs
  BY <1>5, CleanupKeeps, Zenon DEF CleanupActs, providerVars
<1> QED
  BY <1>1, <1>2, <1>3, <1>4, <1>5, Zenon DEF Next

\* The invariant holds in every reachable state, for any number of attempts, tries
\* per stream record and release attempts.
THEOREM ProtocolInvariant == Spec => []ProtocolInv
<1>1. Init => ProtocolInv
  BY ProtocolInit, Zenon
<1>2. ProtocolInv /\ [Next]_vars => ProtocolInv'
  BY ProtocolNext, Zenon
<1> QED
  BY <1>1, <1>2, PTL DEF Spec

\* Every variable keeps its type, the controller's tries and the release attempts
\* within their budgets included.
THEOREM ProtocolTypeCorrect == Spec => []TypeOK
<1>1. ProtocolInv => TypeOK
  BY Zenon DEF ProtocolInv
<1> QED
  BY <1>1, ProtocolInvariant, PTL

\* Only the owner is ever held at the barrier (attemptCommit's re-plan, planCommit).
THEOREM ProtocolOnlyOwnerIsHeld == Spec => []OnlyOwnerIsHeld
<1>1. ProtocolInv => OnlyOwnerIsHeld
  BY Zenon DEF ProtocolInv, CallInv, OnlyOwnerIsHeld, HeldSteps
<1> QED
  BY <1>1, ProtocolInvariant, PTL

\* The targeted call answers only when the item is released, whatever the other
\* calls, the controller and cleanup do, and no other call is held for it
\* (awaitRelease, the re-plan of attemptCommit).
THEOREM ProtocolTargetedResponseIsHeld == Spec => []TargetedResponseIsHeld
<1>1. ProtocolInv => TargetedResponseIsHeld
  BY Zenon DEF ProtocolInv, CallInv, TargetedResponseIsHeld, ReleasedStates, OnlyOwnerIsHeld, HeldSteps
<1> QED
  BY <1>1, ProtocolInvariant, PTL

\* A signalled item was signalled by the timeout of the attempt whose commit it
\* holds, and that commit is in the ledger (decideSignal, signal).
THEOREM ProtocolSignalIsCausal == Spec => []SignalIsCausal
<1>1. ProtocolInv => SignalIsCausal
  BY Zenon DEF ProtocolInv, ItemInv, SignalIsCausal, SignalledStates
<1> QED
  BY <1>1, ProtocolInvariant, PTL

\* The controller's fault SIGNAL_REDECIDED_TO_SIGNAL is unreachable (redecide).
THEOREM ProtocolRedecisionNeverSignals == Spec => []RedecisionNeverSignals
<1>1. ProtocolInv => RedecisionNeverSignals
  BY Zenon DEF ProtocolInv, ControllerInv, RedecisionNeverSignals
<1> QED
  BY <1>1, ProtocolInvariant, PTL

\* A release that cleanup reported as done stays done, late commits and in-flight
\* calls included (requestSafetyRelease).
THEOREM ProtocolReleaseIsFinal == Spec => []ReleaseIsFinal
<1>1. ProtocolInv => ReleaseIsFinal
  BY Zenon DEF ProtocolInv, ReleaseInv, ReleaseIsFinal
<1> QED
  BY <1>1, ProtocolInvariant, PTL

\* The item moves along BR-RUA-025's state machine, one version at a time, and
\* never changes its owner once it has one, with three programs writing it.
THEOREM ProtocolTreatmentMovesForward == Spec => TreatmentMovesForward
<1>1. ProtocolInv /\ [Next]_vars =>
        [treatment' # treatment =>
           /\ <<treatment.state, treatment'.state>> \in PermittedMoves
           /\ treatment'.version = treatment.version + 1
           /\ treatment.owner # NoAttempt => treatment'.owner = treatment.owner]_vars
  <2> SUFFICES ASSUME ProtocolInv, [Next]_vars, treatment' # treatment
               PROVE  /\ <<treatment.state, treatment'.state>> \in PermittedMoves
                      /\ treatment'.version = treatment.version + 1
                      /\ treatment.owner # NoAttempt => treatment'.owner = treatment.owner
    BY Zenon DEF vars
  <2>1. Moves /\ ItemInv
    BY ProtocolNext, Zenon DEF ItemStep, ProtocolInv
  <2> QED
    BY <2>1, Zenon DEF Moves, ItemInv, PermittedMoves, NONTERMINAL_TREATMENT_STATES, COMMITTED_WAIT_STATES
<1> QED
  BY <1>1, ProtocolInvariant, PTL DEF Spec, TreatmentMovesForward

\* The provider with its barrier, the controller and cleanup implements the
\* contract that the callers' proofs take as the provider: one transaction per
\* attempt, SUCCEEDED after it, REJECTED never followed by one.
THEOREM ProtocolImplementsContract == Spec => ImplementsContract
<1>1. Init => Contract!Init
  BY Zenon DEF Init, ProviderInit, Contract!Init
<1>2. ProtocolInv /\ [Next]_vars => [Contract!Next]_<<transport, effects>>
  BY ProtocolNext, Zenon
<1> QED
  BY <1>1, <1>2, ProtocolInvariant, PTL DEF Spec, ImplementsContract, Contract!Spec
=============================================================================
