SPECIFICATION BatchSpec
CONSTANTS
  Subjects = {s1}
  NoDraft = NoDraft
  TTL = 1
  MaxMarks = 2
  Gone = Gone
  Messages = {m1, m2}
  Drafts = {}
  MarkerIds = {i1, i2}
  MaxTime = 0
  MaxReads = 0
PROPERTIES
  EveryJobEnds
CHECK_DEADLOCK FALSE
