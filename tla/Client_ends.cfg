SPECIFICATION FairSpec
CONSTANTS
  Slots = {s1, s2}
  StdinCap = 1
  InputCap = 1
  MaxEvents = 2
INVARIANTS TypeOK RunDecidesRightly PongIsFresh KeysOnceInOrder
PROPERTIES EscapeHeard AbortEnds ShutdownHeard
CHECK_DEADLOCK FALSE
