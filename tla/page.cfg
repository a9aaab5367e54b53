SPECIFICATION PageSpec
CONSTANTS
  Loads = {1, 2}
  MaxRuns = 2
  MaxLost = 2
INVARIANTS
  OneInterval
PROPERTIES
  ProcessingEnds
  FirstRunShown
CHECK_DEADLOCK FALSE
