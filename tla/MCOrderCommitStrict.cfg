SPECIFICATION FairSpec
CONSTANTS
  Attempts = {a1, a2, a3}
  NoAttempt = NoAttempt
  Plan <- MCPlan
  MaxWritesPerTxn = 12
  Stores = {"strict"}
PROPERTY PaidIsCommitted
CHECK_DEADLOCK FALSE
