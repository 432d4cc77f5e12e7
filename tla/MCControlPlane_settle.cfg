SPECIFICATION FairSpec
CONSTANTS
  NumWorkers = 2
  MaxReplicas = 2
  MaxAttempts = 1
  MaxUserOps = 1
  MaxFaults = 1
  Requests = {"scale", "delete"}
  Starts <- RequestOrFault
PROPERTIES VolumeSettles CountRecovers
