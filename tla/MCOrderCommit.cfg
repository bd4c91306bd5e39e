SPECIFICATION FairSpec
CONSTANTS
  Attempts = {a1, a2, a3}
  NoAttempt = NoAttempt
  Plan <- MCPlan
  MaxWritesPerTxn = 12
  Stores = {"lenient", "strict"}
INVARIANTS
  TypeOK
  LedgerMeansComplete
  IssuedOnce
PROPERTIES
  CommitsOnce
  PaidIsCommittedLenient
CHECK_DEADLOCK FALSE
