SPECIFICATION FairSpec
CONSTANTS
  RamTail = 1
  DiskMayFail = FALSE
  MaxTotal = 2
  MaxReplays = 2
  MaxCuts = 1
  MaxKills = 0
PROPERTIES OnlyServedIsRemoved
CHECK_DEADLOCK FALSE
