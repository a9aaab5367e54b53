SPECIFICATION Spec
CONSTANTS
  m1 = m1
  w1 = w1
  w2 = w2
  NoMeeting = NoMeeting
  Meetings <- OneMeeting
  Workers <- TwoWorkers
  UploadFaults = {"crash", "undo"}
  MaxChunks = 2
  MaxTranscripts = 3
  MaxCommits = 3
SYMMETRY Symmetry
INVARIANTS
  RowHasObject
  AgreeAtRest
  OneTwinSet
  OneTextFound
  StoresAgree
CHECK_DEADLOCK FALSE
