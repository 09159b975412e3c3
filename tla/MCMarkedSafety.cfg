SPECIFICATION SafetySpec
CONSTANTS
  Subjects = {s1}
  Drafts = {d1}
  NoDraft = NoDraft
  Gone = Gone
  TTL = 1
  MaxMarks = 2
  MaxReads = 1
  Messages = {r1, r2, r3}
  MarkerIds = {i1, i2}
  MaxTime = 1
SYMMETRY Symmetry
INVARIANTS
  EffectOnMarkedRevision
  AnswersTruthful
  NoOverlappingWrites
  OneEffectPerMarker
CHECK_DEADLOCK FALSE
