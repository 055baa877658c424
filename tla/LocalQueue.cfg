SPECIFICATION Spec
CONSTANTS
  QueueSize = 4
  Event = {e1, e2, e3}
  NULL = NULL
INVARIANTS IInv
PROPERTIES FifoSpec
