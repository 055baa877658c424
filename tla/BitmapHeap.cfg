SPECIFICATION Spec
CONSTANTS
  Builds = {TRUE, FALSE}
  Klasses = 2
  Blocks <- TwoKlasses
  WordBits = 2
  Margin <- TwoMargins
  PoolSegments = 1
  MinorCount = 2
  MaxSegments = 5
  MaxLive = 3
  MaxRoots = 2
  MaxEdges = 2
INVARIANTS TypeOK ReachableMarked YoungRemembered BitmapSound SegmentsPlaced CollectSettles
PROPERTIES MajorExact HeapSpec
CHECK_DEADLOCK FALSE
