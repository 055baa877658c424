SPECIFICATION Spec
CONSTANTS
  ArenaCount = 1
  PageObjectSize <- OneClass
  ArenaPages = 2
  ThresholdDivisor = 2
  MarkStackInit = 2
  MaxBurst = 1
  MaxLive = 64
  MaxRoots = 5
  MaxEdges = 0
INVARIANTS TypeOK FreeListSound SlotAccounting NoFault
CHECK_DEADLOCK FALSE
