SPECIFICATION CarefulSpec
CONSTANTS
  Requests <- MCRequests
  RefillNumber = 2
  Bases <- MCBases
  MaxLive = 2
CHECK_DEADLOCK FALSE
INVARIANTS
  TypeOK
  FreeListsSound
  BlocksApart
  MarksSound
  LeftoversFit
PROPERTIES
  FreeLosesNothing
  ImplementsHeap
