SPECIFICATION Spec
CONSTANTS
  Builds = {b1}
  Requests = {r1}
  Keys = {}
  Workers = {w1, w2}
  Artifacts = {file, manifest}
  Manifest = manifest
  MaxAttempts = 2
  LeaseTicks = 1
  RetryTicks = 1
  MaxEntries = 3
  StaleTicks = 1
  DeadLimit = 2
  MaxFaults = 1
  NoBuild = NoBuild
  NoKey = NoKey
  NoWorker = NoWorker
  NoRequest = NoRequest
INVARIANTS
  NoLostWakeup
  DeadLettersEnded
  OwnAttempt
  PublishedIsStored
SYMMETRY Symmetry
CHECK_DEADLOCK FALSE
