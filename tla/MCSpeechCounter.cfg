SPECIFICATION Spec
CONSTANTS
  Messages <- Parts
  MaxResponses = 3
  MaxSpeeches = 6
INVARIANT
  CounterIsExact
CHECK_DEADLOCK FALSE
