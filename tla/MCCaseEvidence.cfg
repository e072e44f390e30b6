SPECIFICATION FairSpec
CONSTANTS
  Second = 1
  Warmup = 2
  Measure = 4
  Short <- MCShort
  Slow <- MCSlow
  MaxEvents = 1
INVARIANTS
  TypeOK
  MeasurementNeverShort
  AcceptedIsMeasured
  PassedIsAccepted
PROPERTY
  CaseEnds
CHECK_DEADLOCK FALSE
