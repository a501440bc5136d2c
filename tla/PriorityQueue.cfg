SPECIFICATION Spec
CONSTANTS
  Order = 3
  Priorities = 2
  MaxObjects = 26
VIEW ByPriority
INVARIANTS WellFormed InOrderOfPriority PrioritiesKept AddedAtItsIndex
