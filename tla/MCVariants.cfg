SPECIFICATION VariantsSpec
CONSTANTS
  a1 = a1
  a2 = a2
  a3 = a3
  Attempts = {a1, a2, a3}
  NoAttempt = NoAttempt
  MaxReceiveCount = 2
  StepAttempts = 2
  MaxReruns = 1
SYMMETRY AttemptSymmetry
INVARIANTS KnowledgeSound DeletedAccountsForAll TimedOutIsDurable
