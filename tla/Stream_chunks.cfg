SPECIFICATION Spec
CONSTANTS
  ChunkSize = 2
  MaxTotal = 4
  MaxRead = 2
  AckInterval = 2
  MaxConns = 2
  MaxCuts = 1
  Capacity = 1
  MaxReruns = 1
INVARIANTS NoGap
PROPERTIES ImplementsDelivery
CHECK_DEADLOCK FALSE
