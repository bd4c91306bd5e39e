SPECIFICATION MCSpec
CONSTANTS
  Requests = {r1, r2}
  Types = {t1}
  MaxWrites = 3
  NoOne = NoOne
  Levels = 1
  Faults = 1
  MaxLog = 9
  Messages <- MCMessages
INVARIANTS
  NoneForgotten
  CopiesFollow
PROPERTIES AllEnd
CONSTRAINT Bound
CHECK_DEADLOCK FALSE
