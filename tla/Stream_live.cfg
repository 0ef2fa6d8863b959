SPECIFICATION FairSpec
CONSTANTS
  ChunkSize = 1
  MaxTotal = 1
  MaxRead = 1
  AckInterval = 2
  MaxConns = 3
  MaxCuts = 1
  Capacity = 1
  MaxReruns = 0
PROPERTIES ShownOrTold SupersededEnds
CHECK_DEADLOCK FALSE
