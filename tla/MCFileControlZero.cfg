SPECIFICATION Spec
CONSTANTS
  NoFile = NoFile
  Empty = Empty
  MaxToken = 1
  MaxStarts = 1
INVARIANTS
  TrueMeansZeroExit
