SPECIFICATION Spec
CONSTANTS
  Requests = {r1, r2, r3}
  Quantities = {1, 2, 3}
  Capacity = 10
  ShardCount = 4
  ExtraProbes = 1
  MaxReleases = 1
INVARIANT SeededInFull
CHECK_DEADLOCK FALSE
