SPECIFICATION FairSpec
CONSTANTS
  RamTail = 1
  DiskMayFail = TRUE
  MaxTotal = 2
  MaxReplays = 3
  MaxCuts = 1
  MaxKills = 1
INVARIANTS TypeOK CleanIsComplete ExitTellsAll KeptUntilShown
PROPERTIES GoneIsTold StopEnds
CHECK_DEADLOCK FALSE
