SPECIFICATION Spec
CONSTANTS
  Builds = {b1, b2}
  Objects = {o1}
  Deleters = {d1, d2}
  Scanners = {s1}
  KeepTicks = 1
  GraceTicks = 2
  UrlTicks = 1
  StallTicks = 1
  LeaseTicks = 1
  BatchLimit = 2
  MaxFaults = 1
  NoDeleter = NoDeleter
INVARIANTS
  ReferencedIsStored
  QueuedIsReleased
  UrlServes
  DeletedIsGone
PROPERTIES
  DeletedIsFinal
  ImplementsObjectLifecycle
SYMMETRY Symmetry
CHECK_DEADLOCK FALSE
