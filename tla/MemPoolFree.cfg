SPECIFICATION CarefulSpec
CONSTANTS
  Requests <- MCRequests
  RefillNumber = 2
  Bases <- MCBases
  MaxLive = 2
CHECK_DEADLOCK FALSE
INVARIANT NeighboursAreMarked
