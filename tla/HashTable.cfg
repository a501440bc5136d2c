SPECIFICATION Spec
CONSTANTS
  Lists = {0, 1, 2}
  Buckets = 3
  MaxElements = 3
  Objects = {1, 2, 3}
  Clients <- MCClients
INVARIANTS NothingLost WalksTheTable
PROPERTY WalkEnds
