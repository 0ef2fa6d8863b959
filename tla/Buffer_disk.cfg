SPECIFICATION FairSpec
CONSTANTS
  Disk = TRUE
  DiskMayFail = TRUE
  RamTail = 1
  ChunkSize = 2
  SegmentSize = 2
  MaxTotal = 5
  MaxAppend = 3
  MaxRead = 3
INVARIANTS TypeOK SegmentsTileHeldRange ManifestAligned TrimWasteBounded PersistedComplete
PROPERTIES ImplementsWindow WaiterReturns
CHECK_DEADLOCK FALSE
