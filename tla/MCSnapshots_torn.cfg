SPECIFICATION Spec
CONSTANTS
  Slots = {s1, s2}
  MaxRequests = 3
  MaxFaults = 1
INVARIANT ReadyIsComplete
CHECK_DEADLOCK FALSE
