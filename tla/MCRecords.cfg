SPECIFICATION RecordsSpec
CONSTANTS
  e1 = e1
  e2 = e2
  e3 = e3
  e4 = e4
  Events = {e1, e2, e3, e4}
  NoEvent = NoEvent
  MaxDefinitiveRetries = 2
  MaxPending = 2
  r1 = r1
  r2 = r2
  r3 = r3
  Records = {r1, r2, r3}
  NoRecord = NoRecord
  Absent = Absent
  w1 = w1
  w2 = w2
  Writers = {w1, w2}
  MaxLines = 2
  Worlds <- AllWorlds
SYMMETRY Symmetry
INVARIANTS AppendedSurvives NeverMerged EligibleExactlyWhenWhole UsableIsEarned ProvenGoneIsTrue
PROPERTIES ImplementsJournal
CHECK_DEADLOCK FALSE
