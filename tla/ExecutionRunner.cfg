SPECIFICATION Spec
CONSTANTS
  Admitted <- AllKinds
  ActiveMax = 2
  TotalMax = 2
  Window = 1
  MaxTime = 3
INVARIANTS CompletedIsTrue ReleasedIsProvable ExitAgreesWithSummary
