SPECIFICATION Spec
CONSTANTS
  UIntMax = 15
  Objects <- MCObjects
  value <- MCValue
  Sizes = {1, 2}
  Deltas = {0, 1, 2}
  MaxSize = 5
INVARIANTS SearchRight Packed NoneDangling
PROPERTIES AddsKeep SearchEnds
