SPECIFICATION FairSpec
CONSTANTS
  Conns = {c1}
  MaxFails = 1
INVARIANTS TypeOK OneMarkerAtATime GhostHasCause
PROPERTIES StalledIsShown
CHECK_DEADLOCK FALSE
