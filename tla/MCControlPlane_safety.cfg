SPECIFICATION Spec
CONSTANTS
  NumWorkers = 1
  MaxReplicas = 2
  MaxAttempts = 1
  MaxUserOps = 1
  MaxFaults = 1
  Requests = {"scale", "delete", "restore"}
  Starts <- Disturbed
INVARIANTS TypeOK DistinctAttachments ReadyHasEngineRef PodsAreOwned
PROPERTIES NoLostDetach IsRoster
