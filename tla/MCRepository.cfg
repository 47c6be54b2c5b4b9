SPECIFICATION Spec
CONSTANTS
  Builds = {b1, b2}
  Requests = {r1}
  Keys = {k1}
  Tokens = {t1}
  Artifacts = {manifest}
  MaxAttempts = 2
  LeaseTicks = 2
  RetryTicks = 1
  NoBuild = NoBuild
  NoKey = NoKey
  NoToken = NoToken
  NoRequest = NoRequest
INVARIANTS
  RunningUnderOneLease
  CancelWins
  QueuedHasAttemptLeft
  PublishedWhole
  QueuedHasRow
PROPERTIES
  VersionGuardsRow
  ImplementsLifecycle
  ImplementsReference
SYMMETRY Symmetry
CHECK_DEADLOCK FALSE
