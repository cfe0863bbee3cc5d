SPECIFICATION EvaluationSpec
CONSTANTS
  Absent = Absent
  PollInterval = 1
  Stabilization = 2
  ObservationDeadline = 60
  MaxFaults = 1
  PageSize = 1
  DLQ_RECEIVE_ROUND_LIMIT = 2
  MaxItems = 2
  Worlds <- MCWorlds
INVARIANTS VerdictIsTrue CleanEvidenceDecides FidelityIsTrue LateStatusIsTrue FrozenIsReproduced NothingIsLost AttributedOnce
CHECK_DEADLOCK FALSE
