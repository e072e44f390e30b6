SPECIFICATION Spec
CONSTANTS
  BlockSize = 3
  MaxDrifts = 2
INVARIANTS
  TypeOK
  UploadedIsClean
  LeftoverIsReported
  BaselinesAreOriginal
  PassIsRestored
CHECK_DEADLOCK FALSE
