SPECIFICATION Spec
CONSTANTS
  ArenaCount = 2
  PageObjectSize <- TwoClasses
  ArenaPages = 2
  ThresholdDivisor = 2
  MarkStackInit = 2
  MaxBurst = 3
  MaxLive = 3
  MaxRoots = 2
  MaxEdges = 3
INVARIANTS ReachableLive IInv MarkStackFits
PROPERTIES CollectExact GCTerminates HeapSpec
CHECK_DEADLOCK FALSE
