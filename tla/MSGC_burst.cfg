SPECIFICATION Spec
CONSTANTS
  ArenaCount = 1
  PageObjectSize <- OneClass
  ArenaPages = 2
  ThresholdDivisor = 2
  MarkStackInit = 2
  MaxBurst = 5
  MaxLive = 64
  MaxRoots = 5
  MaxEdges = 0
INVARIANTS NoFault
CHECK_DEADLOCK FALSE
