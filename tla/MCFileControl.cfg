SPECIFICATION FairSpec
CONSTANTS
  NoFile = NoFile
  Empty = Empty
  MaxToken = 3
  MaxStarts = 2
INVARIANTS
  TypeOK
  ExecutedInOrder
  AcknowledgementSound
  GracefulAcknowledged
PROPERTIES
  NeverOverwritten
  RequestsConsumed
