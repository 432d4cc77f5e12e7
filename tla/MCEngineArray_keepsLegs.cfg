SPECIFICATION Spec
CONSTANTS
  here = here
  far1 = far1
  far2 = far2
  Replicas = {here, far1, far2}
  LocalReplica = here
  NoReplica = NoReplica
  StartLists <- OneOrTwo
  MaxLen = 3
  MaxMoves = 1
  MaxChanges = 1
  MaxFaults = 1
  MaxPosts = 2
PROPERTY ReconfigureKeepsLegs
CHECK_DEADLOCK FALSE
