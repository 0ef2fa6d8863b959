SPECIFICATION Spec
CONSTANTS
  ChunkSize = 1
  MaxTotal = 2
  MaxRead = 1
  AckInterval = 2
  MaxConns = 3
  MaxCuts = 1
  Capacity = 1
  MaxReruns = 0
INVARIANTS TypeOK NoGap CurrentAttachIsActive ExitIsLast
PROPERTIES ImplementsDelivery
CHECK_DEADLOCK FALSE
