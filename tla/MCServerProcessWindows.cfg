SPECIFICATION Spec
CONSTANTS
  Pids = {p1, p2}
  NoPid = NoPid
  Windows = TRUE
  MaxBirth = 3
INVARIANTS
  CleanupOutcomeSound
  GracefulSound
