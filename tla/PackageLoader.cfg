SPECIFICATION Spec
CONSTANTS
  root = root
  main = main
  p = p
  q = q
  lost = lost
  plus = plus
  pi = pi
  Root = root
  Main = main
  Package <- Packages
  Missing = {lost}
  NameSpaces <- Names
  Lineage <- RootParent
  Keyword = {plus}
  ConstName = {pi}
  MaxCalls = 3
  MaxEntries = 4
SYMMETRY Alike
INVARIANTS TypeOK JumpBufferInnermost ImportsLoaded ListsInOrder ConstsKept
