SPECIFICATION Spec
CONSTANTS
  Reservations = {r1, r2}
  Users = {u1}
  UserOf <- MCUserOf
  Lines = {l1}
  Capacity = 2
  Handlers = {h1}
  Reapers = {}
  Clients = {"ioredis", "typed"}
  MaxFaults = 1
  None = None
SYMMETRY Symmetry
CONSTRAINT BoundHolds
INVARIANTS
  OneLiveHold
  SoldWithinStock
CHECK_DEADLOCK FALSE
