SPECIFICATION Spec
CONSTANTS
  a1 = a1
  a2 = a2
  Attempts = {a1, a2}
  NoAttempt = NoAttempt
  MaxTries = 2
  MAX_RELEASE_ATTEMPTS = 1
SYMMETRY AttemptSymmetry
INVARIANTS TargetedResponseIsHeld SignalIsCausal
PROPERTIES ImplementsContract
CHECK_DEADLOCK FALSE
