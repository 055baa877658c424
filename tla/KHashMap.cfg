SPECIFICATION Spec
CONSTANTS
  k1 = k1
  k2 = k2
  k3 = k3
  k4 = k4
  NULL = NULL
  Absent = Absent
  Name <- FewNames
  Hash <- FewHashes
  Value = {1}
  InitArena = 1
  InitMax = 1
  MaxArena = 4
SYMMETRY Alike
INVARIANTS IInv SymbolsAndNames
PROPERTIES MapSpec
