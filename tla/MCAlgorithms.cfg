SPECIFICATION AllSpec
CONSTANTS
  ChunkSize = 2
  Bytes = {0, 1}
  MaxLen = 6
  ParmMax = 4
  Writes <- Pieces
  MaxWrites = 6
  Keys = {"~", ".", "cr", "lf", "x"}
  Shows = {"cr", "lf", "x"}
  MaxKeys = 6
INVARIANTS ResendsFromLargestAdequate AltScreenTracked TextFiltered
CHECK_DEADLOCK FALSE
