--------------------------- MODULE TreatmentItem ----------------------------
(***************************************************************************)
(* The treatment item of one trial partition of the control table.  Three  *)
(* programs write it, each by conditional updates only: the provider, the  *)
(* treatment controller and cleanup's safety release.                      *)
(***************************************************************************)
EXTENDS AttemptLifecycle, FiniteSets

CONSTANTS
  Attempts,     \* identities of the physical attempts that may call the provider
  NoAttempt     \* an identity attribute the item does not have

ASSUME TreatmentAssumption == NoAttempt \notin Attempts

VARIABLES
  scenario,     \* the frozen scenario of the trial
  treatment     \* the treatment item

Scenarios == {"CONTROL", "COMMIT_THEN_TIMEOUT"}

COMMITTED_WAIT_STATES == {"COMMITTED_WAITING", "TIMEOUT_SIGNALLED", "TIMEOUT_OBSERVED"}

NONTERMINAL_TREATMENT_STATES == {"ARMED"} \cup COMMITTED_WAIT_STATES

TREATMENT_STATES == NONTERMINAL_TREATMENT_STATES \cup {"RESPONSE_RELEASED", "SAFETY_RELEASED"}

SafetyReleaseCauses == {"SAFETY_DEADLINE", "CLEANUP_REQUEST"}

\* `owner' stands for the identities of the targeted commit (one commit per
\* attempt), `signal' for those of the signalling caller event.
TreatmentItems ==
  [state : TREATMENT_STATES \cup {"ABSENT"}, version : Nat, owner : Attempts \cup {NoAttempt},
   signal : Attempts \cup {NoAttempt}, cause : SafetyReleaseCauses \cup {"NONE"}]

TreatmentTypeOK ==
  /\ scenario \in Scenarios
  /\ treatment \in TreatmentItems

\* Trial set-up arms a treatment before publication, in the treated scenario only.
TreatmentInit ==
  /\ scenario \in Scenarios
  /\ treatment = [state |-> IF scenario = "CONTROL" THEN "ABSENT" ELSE "ARMED",
                  version |-> IF scenario = "CONTROL" THEN 0 ELSE 1,
                  owner |-> NoAttempt, signal |-> NoAttempt, cause |-> "NONE"]

\* The state attribute of an update that also increments the version.
MovedTo(state) == [treatment EXCEPT !.state = state, !.version = @ + 1]
=============================================================================
