SPECIFICATION FileSpec
CONSTANTS
  r1 = r1
  r2 = r2
  Records = {r1, r2}
  NoRecord = NoRecord
INVARIANTS AppendedIsDurable
CHECK_DEADLOCK FALSE
