SPECIFICATION Spec
CONSTANTS
  QueueSize = 2
  MaxRaises = 1
  MaxEvents = 3
  MaxMalformed = 1
INVARIANTS TypeOK NoEventTwice NoEventLost NothingLeftBehind
PROPERTIES QueueSpecs
CHECK_DEADLOCK FALSE
