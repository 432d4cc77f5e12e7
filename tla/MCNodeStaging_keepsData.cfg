SPECIFICATION Spec
CONSTANTS
  p1 = p1
  p2 = p2
  p3 = p3
  Pods = {p1, p2, p3}
  Readers = {p3}
  Host = Host
  MaxMoves = 1
  Starts <- TwoPods
  MaxCalls = 2
INVARIANT StagingKeepsData
CHECK_DEADLOCK FALSE
