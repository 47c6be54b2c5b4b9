SPECIFICATION Spec
CONSTANTS
  Launched = {p1, p3}
  Bare = {p2}
  Revisions = {r1, r2}
  Handoffs = {h1}
  Rules = {q1, q2}
  MaxPowerLoss = 2
  None = None
INVARIANTS
  HistoryStands
  AcceptancesAnchored
  LeaksAreMarked
SYMMETRY Symmetry
CHECK_DEADLOCK FALSE
