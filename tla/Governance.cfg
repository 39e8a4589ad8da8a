\* Promotion checks and a dry run of two policies, with failing statements, while things change.
CONSTANTS
  g1 = g1  g2 = g2  e1 = e1  v1 = v1  p1 = p1  p2 = p2
  Requests = {g1, g2, e1}
  Gates = {g1, g2}
  DryRuns = {e1}
  Policies = {p1, p2}
  Versions = {v1}
  Absent = Absent
  None = None
  Errors = TRUE
  MaxChanges = 2
CHECK_DEADLOCK FALSE
SPECIFICATION SliceSpec
SYMMETRY GateSymmetry
INVARIANTS
  GateStopsViolations
  RowsSettle
  ProductionIsReviewed
PROPERTIES
  ViolationsStick
