SPECIFICATION Spec
CONSTANTS
  r1 = r1
  r2 = r2
  e = e
  m1 = m1
  m2 = m2
  Resources = {r1, r2}
  Stack = stack
  Barriers = {}
  Executions = {e}
  Messages = {m1, m2}
  Settings <- MCSettings
  MaxRecoveries = 1
INVARIANTS OnlyOwnIsRemoved SucceededAccountsForAll CleanIsAbsent CapturedBeforeDeleted FailuresAreSuperseded
CHECK_DEADLOCK FALSE
