SPECIFICATION Spec
CONSTANTS
  o1 = o1
  o2 = o2
  Owners = {o1, o2}
  NoOwner = NoOwner
  TicksPerMs = 2
  HeartbeatIntervalMs = 1
  StaleBoundaryMs = 2
  MaxClock = 4
  MaxLate = 1
SYMMETRY OwnerSymmetry
INVARIANTS PublisherHoldsLease BoundaryNeverLaterThanStore
CHECK_DEADLOCK FALSE
