SPECIFICATION Spec
CONSTANTS
  root = root
  main = main
  s = s
  t = t
  NameSpaces <- Names
  Lineage <- Lines
  Class = {1, 2}
  Ancestry <- Derived
  NameCount = 1
  Signature = {s, t}
  Declared = {"plain", "final"}
  TailMax = 0
  MaxMethods = 3
  MaxCalls = 1
SYMMETRY Alike
INVARIANTS IInv SearchExact CachesFresh
PROPERTIES MeaningKept
CHECK_DEADLOCK FALSE
