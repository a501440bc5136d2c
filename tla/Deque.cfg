SPECIFICATION WalkSpec
CONSTANTS
  Objects = {o1, o2, o3, o4}
  MaxItems = 3
  Null = Null
SYMMETRY ObjectSymmetry
INVARIANTS NoneDangling WalksUnwrapped
PROPERTY IsDeque
