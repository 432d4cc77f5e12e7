SPECIFICATION Spec
CONSTANTS
  NumWorkers = 2
  MaxReplicas = 2
  MaxAttempts = 1
  MaxUserOps = 0
  MaxFaults = 0
  Requests = {}
  Starts <- LeftAlone
PROPERTY HealsOnlyUnhealthy
