SPECIFICATION Spec
CONSTANTS
  r1 = r1
  r2 = r2
  q1 = q1
  q2 = q2
  Runs <- TwoRuns
  Requests <- TwoRequests
  Fields = {"title", "tags"}
  Values = {"done"}
  Marked = "done"
  Made = "open"
  None = None
SYMMETRY Interchangeable
INVARIANTS
  OneAnalysis
  LinksHold
  ForwardAnswer
  CalmTabIsStored
PROPERTIES
  OnlySentFieldsChange
CHECK_DEADLOCK FALSE
