SPECIFICATION RunSpec
CONSTANTS
  Pids = {p1, p2, p3}
  NoPid = NoPid
  Windows = FALSE
  MaxBirth = 3
SYMMETRY PidSymmetry
INVARIANTS
  RunTypeOK
  PassMeansNoServer
  NoWrapperLeft
  ForcedIsReported
PROPERTIES
  VerdictIsFinal
  AdoptsOnlyOwn
  SparesOtherPrograms
