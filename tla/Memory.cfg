SPECIFICATION MemorySpec
CONSTANTS
  BlockSize = 5
  WordSize = 16
  MaxBlocks = 2
  Requests = {0, 3, 5}
  Markers = {m1, m2}
  Sz = 1
  Count = 5
  PtrSize = 2
  BMarkers = {b1, b2}
  Careful = TRUE
SYMMETRY MarkerSymmetry
INVARIANTS LiveInside LiveDisjoint CellsInside CellsDisjoint NothingLost
