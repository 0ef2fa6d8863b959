SPECIFICATION Spec
CONSTANTS
  ChunkSize = 1
  MaxTotal = 2
  MaxRead = 1
  AckInterval = 1
  MaxConns = 3
  MaxCuts = 2
  Capacity = 1
  MaxReruns = 1
INVARIANTS ReattachShows
CHECK_DEADLOCK FALSE
