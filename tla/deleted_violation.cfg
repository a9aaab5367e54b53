SPECIFICATION Spec
CONSTANTS
  m1 = m1
  w1 = w1
  w2 = w2
  NoMeeting = NoMeeting
  Meetings <- OneMeeting
  Workers <- TwoWorkers
  UploadFaults = {}
  MaxChunks = 2
  MaxTranscripts = 1
  MaxCommits = 1
SYMMETRY Symmetry
INVARIANTS
  DeletedNotFound
CHECK_DEADLOCK FALSE
