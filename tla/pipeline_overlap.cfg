SPECIFICATION Spec
CONSTANTS
  m1 = m1
  w1 = w1
  w2 = w2
  NoMeeting = NoMeeting
  Meetings <- OneMeeting
  Workers <- TwoWorkers
  MaxRetries = 1
  MaxRequests = 1
  Faults = {}
  MaxFaults = 0
SYMMETRY WorkerSymmetry
INVARIANTS
  TypeOK
  CompletedHasResults
  FirstTaskAlone
CHECK_DEADLOCK FALSE
