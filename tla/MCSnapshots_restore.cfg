SPECIFICATION Spec
CONSTANTS
  Slots = {s1, s2}
  MaxRequests = 3
  MaxFaults = 0
INVARIANT RestoreHoldsSnapshot
CHECK_DEADLOCK FALSE
