SPECIFICATION FairSpec
CONSTANTS
  here = here
  far1 = far1
  far2 = far2
  Replicas = {here, far1, far2}
  LocalReplica = here
  NoReplica = NoReplica
  StartLists <- OneOrTwo
  MaxLen = 3
  MaxMoves = 1
  MaxChanges = 1
  MaxFaults = 2
  MaxPosts = 2
INVARIANTS TypeOK AnswersWhileServing ArrayNameIsFree OneLegPerReplica
PROPERTIES IsMirror StaysInSync EngineRecovers
CHECK_DEADLOCK FALSE
