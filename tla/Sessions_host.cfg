SPECIFICATION FairSpec
CONSTANTS
  Ids = {a, b}
  Raw = 4
  Reserve = 1
  MaxSize = 3
INVARIANTS TypeOK
PROPERTIES DirKeptWhileUp SmallIsSpared DetachedOverrunEnds
CHECK_DEADLOCK FALSE
