SPECIFICATION FairSpec
CONSTANTS
  Builds = {b1}
  Objects = {o1, o2}
  Deleters = {d1}
  Scanners = {s1}
  KeepTicks = 1
  GraceTicks = 2
  UrlTicks = 1
  StallTicks = 1
  LeaseTicks = 1
  BatchLimit = 1
  MaxFaults = 1
  NoDeleter = NoDeleter
PROPERTIES
  NothingLingers
  QueueDrains
CHECK_DEADLOCK FALSE
