SPECIFICATION Spec
CONSTANTS
  r1 = r1
  r2 = r2
  r3 = r3
  Run <- MCRun
  NoEvidence = NoEvidence
  BlockSize = 2
  Looks = 2
  Evidence <- MCEvidence
  Critical2 <- MCCritical2
  Limit = 5
SYMMETRY MCSymmetry
INVARIANTS
  TypeOK
  ClaimIsSupported
  NoBlockDecides
CHECK_DEADLOCK FALSE
