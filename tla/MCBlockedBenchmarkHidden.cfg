SPECIFICATION Spec
CONSTANTS
  BlockSize = 2
  MaxDrifts = 0
PROPERTIES
  FailureIsKept
CHECK_DEADLOCK FALSE
