SPECIFICATION Spec
CONSTANTS
  Keys = {1, 2, 3, 4, 5, 6, 7, 8, 9, 10}
  CopyNodes = 5
  MultiKeys = {1, 2, 3}
  Equals = 3
  MaxElements = 5
INVARIANTS Sorted IsSane Walks Copies RingsWhole
PROPERTIES OperationsEnd IsOrdered
