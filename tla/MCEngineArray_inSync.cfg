SPECIFICATION Spec
CONSTANTS
  here = here
  far1 = far1
  far2 = far2
  Replicas = {here, far1, far2}
  LocalReplica = here
  NoReplica = NoReplica
  StartLists <- OneOrTwo
  MaxLen = 3
  MaxMoves = 1
  MaxChanges = 0
  MaxFaults = 2
  MaxPosts = 2
INVARIANT LegsHoldTheData
CHECK_DEADLOCK FALSE
