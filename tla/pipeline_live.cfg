SPECIFICATION FairSpec
CONSTANTS
  m1 = m1
  w1 = w1
  w2 = w2
  NoMeeting = NoMeeting
  Meetings <- OneMeeting
  Workers <- SingleWorker
  MaxRetries = 1
  MaxRequests = 1
  Faults = {"lost", "restore"}
  MaxFaults = 2
INVARIANTS
  NoLostMeeting
PROPERTIES
  EventuallySettled
CHECK_DEADLOCK FALSE
