SPECIFICATION Spec
CONSTANTS
  Reservations = {r1}
  Users = {u1}
  UserOf <- MCUserOf
  Lines = {l1, l2}
  Capacity = 1
  Handlers = {h1}
  Reapers = {p1}
  Clients = {"ioredis"}
  MaxFaults = 0
  None = None
INVARIANT LiveHoldIsConfirmed
CHECK_DEADLOCK FALSE
