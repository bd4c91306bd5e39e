SPECIFICATION FairSpec
CONSTANTS
  Reservations = {r1}
  Users = {u1}
  UserOf <- MCUserOf
  Lines = {l1, l2}
  Capacity = 1
  Handlers = {h1}
  Reapers = {p1}
  Clients = {"ioredis", "typed"}
  MaxFaults = 1
  None = None
INVARIANTS
  Balanced
  HoldIndexed
PROPERTIES
  IndexDrains
  PromisesKept
CHECK_DEADLOCK FALSE
