SPECIFICATION Spec
CONSTANTS
  QueueSize = 2
  MaxRaises = 1
  MaxEvents = 2
  MaxMalformed = 1
PROPERTIES EveryEventHandled
CHECK_DEADLOCK FALSE
