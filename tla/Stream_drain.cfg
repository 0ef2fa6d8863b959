SPECIFICATION Spec
CONSTANTS
  ChunkSize = 1
  MaxTotal = 2
  MaxRead = 1
  AckInterval = 2
  MaxConns = 2
  MaxCuts = 1
  Capacity = 2
  MaxReruns = 0
INVARIANTS DrainedBeforeExit
CHECK_DEADLOCK FALSE
