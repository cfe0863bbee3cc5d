SPECIFICATION Spec
CONSTANTS
  PollInterval = 2
  Stabilization = 4
  ObservationDeadline = 8
  RedriveDelay = 3
  MaxClock = 9
  MaxEvents = 1
INVARIANTS EstablishedIsCollected EstablishedWasQuiet
CHECK_DEADLOCK FALSE
