SPECIFICATION RunSpec
CONSTANTS
  Pids = {p1, p2}
  NoPid = NoPid
  Windows = TRUE
  MaxBirth = 3
SYMMETRY PidSymmetry
INVARIANTS
  PassMeansNoServer
