SPECIFICATION Spec
CONSTANTS
  m1 = m1
  w1 = w1
  w2 = w2
  NoMeeting = NoMeeting
  Meetings <- OneMeeting
  Workers <- SingleWorker
  MaxRetries = 1
  MaxRequests = 1
  Faults = {"enqueue", "build", "mark", "limit", "lost", "restore"}
  MaxFaults = 2
INVARIANTS
  FreshWhenCompleted
  ReasonIffFailed
  NoAudioCollision
PROPERTIES
  ImplementsLifecycle
CHECK_DEADLOCK FALSE
