SPECIFICATION Spec
CONSTANTS
  Requests = {r1, r2, r3}
  Quantities = {1, 2, 3}
  Capacity = 10
  ShardCount = 4
  ExtraProbes = 1
  MaxReleases = 2
INVARIANTS
  TypeOK
  StockAccounted
  NoOversell
  DistinctVersions
PROPERTY
  StockSpec
SYMMETRY Symmetry
CHECK_DEADLOCK FALSE
