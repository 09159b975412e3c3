SPECIFICATION Spec
CONSTANTS
  Subjects = {s1, s2}
  Messages = {m1, m2}
  Drafts = {d1}
  NoDraft = NoDraft
  MarkerIds = {i1, i2, i3}
  TTL = 1
  MaxMarks = 2
  MaxTime = 2
SYMMETRY Symmetry
INVARIANTS
  TypeOK
  DraftSlotExclusive
  HeldIsExecuting
  LatestMarkWins
  WithinLimit
  PathsAgree
PROPERTIES
  OneUseInTime
  ImplementsAuthority
CHECK_DEADLOCK FALSE
