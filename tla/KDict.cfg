SPECIFICATION Spec
CONSTANTS
  v1 = v1
  Key <- FewKeys
  Half = 8
  Value = {v1}
  Absent = Absent
  Removed = Removed
  TailMax = 1
  Batch <- FewBatches
INVARIANTS IInv
PROPERTIES MapSpec
