SPECIFICATION ProgressSpec
CONSTANTS
  Admitted <- OneTrial
  ActiveMax = 2
  TotalMax = 2
  Window = 1
  MaxTime = 3
  a1 = a1
  a2 = a2
  Attempts = {a1}
  CallerAttempts = {a1, a2}
  MaxReceiveCount = 2
  NoAttempt = NoAttempt
  MaxTries = 2
  MAX_RELEASE_ATTEMPTS = 2
PROPERTIES EveryExecutionEnds HeldCallEnds MessageLeavesSource
CHECK_DEADLOCK FALSE
