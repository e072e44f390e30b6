SPECIFICATION RunFairSpec
CONSTANTS
  Pids = {p1, p2}
  NoPid = NoPid
  Windows = TRUE
  MaxBirth = 3
PROPERTIES
  RunEnds
INVARIANTS
  PassMeansKnownDead
