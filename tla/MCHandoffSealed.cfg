SPECIFICATION Spec
CONSTANTS
  Builds = {b1}
  MaxBundles = 1
  MaxTargets = 1
  MaxFaults = 2
INVARIANTS
  SealedHasMarker
CHECK_DEADLOCK FALSE
