SPECIFICATION Spec
CONSTANTS
  m1 = m1
  m2 = m2
  Inspections = {i1, i2}
  Previews = {m1, m2}
  Estimate <- Prices
  Budget = 2
  MaxCalls = 2
  MaxCrashes = 1
  None = None
INVARIANTS
  OneRunAtATime
  EndedIsOver
  CleanupUndisturbed
  SpendingIsBounded
PROPERTIES
  CloseEnds
