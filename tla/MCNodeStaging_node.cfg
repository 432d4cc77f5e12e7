SPECIFICATION FairSpec
CONSTANTS
  p1 = p1
  p2 = p2
  p3 = p3
  Pods = {p1, p2, p3}
  Readers = {p3}
  Host = Host
  MaxMoves = 1
  Starts <- PodsAndFaults
  MaxCalls = 2
INVARIANT TypeOK
PROPERTIES LossNeedsACause  PodStarts
CHECK_DEADLOCK FALSE
