SPECIFICATION Spec
CONSTANTS
  NumWorkers = 3
  MaxReplicas = 3
  MaxAttempts = 1
  MaxUserOps = 1
  MaxFaults = 1
  Requests = {"scale"}
  Starts <- ScaledAndFails
INVARIANT ReplicasOnUnusedNodes
