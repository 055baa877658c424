SPECIFICATION Spec
CONSTANTS
  QueueSize = 2
  MaxRaises = 0
  MaxEvents = 2
  MaxMalformed = 0
PROPERTIES LockGivenBack
CHECK_DEADLOCK FALSE
