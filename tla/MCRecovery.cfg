SPECIFICATION FairRecoverySpec
CONSTANTS
  Builds = {b1}
  Requests = {r1}
  Keys = {}
  Workers = {w1}
  Artifacts = {manifest}
  Manifest = manifest
  MaxAttempts = 2
  LeaseTicks = 1
  RetryTicks = 0
  MaxEntries = 4
  StaleTicks = 1
  DeadLimit = 2
  MaxFaults = 2
  NoBuild = NoBuild
  NoKey = NoKey
  NoWorker = NoWorker
  NoRequest = NoRequest
INVARIANTS
  ReconstructionSuffices
PROPERTIES
  EveryBuildEnds
  EverythingDrains
CHECK_DEADLOCK FALSE
