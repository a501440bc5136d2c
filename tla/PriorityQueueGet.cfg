SPECIFICATION Spec
CONSTANTS
  Order = 3
  Priorities = 2
  MaxObjects = 12
VIEW ByPriorityGiven
INVARIANT GetDetachesWhatItReturns
