SPECIFICATION OrderingSpec
CONSTANTS
  Builds = 1
  MaxContracts = 6
  MaxBases = 2
  MaxMocks = 0
INVARIANTS
  ConsistentMeansOrdered
CHECK_DEADLOCK FALSE
