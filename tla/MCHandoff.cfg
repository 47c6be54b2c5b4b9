SPECIFICATION Spec
CONSTANTS
  Builds = {b1, b2}
  MaxBundles = 2
  MaxTargets = 3
  MaxFaults = 3
INVARIANTS
  NoReturnToSource
  BundleIsWhole
  RowsAreServed
SYMMETRY Symmetry
CHECK_DEADLOCK FALSE
