SPECIFICATION Spec
CONSTANTS
  Lists = {0}
  list = 0
  MaxElements = 3
  MaxCount = 4
  Objects <- MCObjects
  Equal <- MCEqual
VIEW View
INVARIANTS ListWhole WalkIsWhole
PROPERTY AreEnds
