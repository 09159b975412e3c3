SPECIFICATION FairSpec
CONSTANTS
  Batches = {b1, b2}
  Items = 3
  MaxWorkers = 2
  Limit = 2
INVARIANTS
  GateCountsRequests
  NoLostWakeup
  InputsRunOnce
  SkippedForACause
PROPERTIES
  EveryBatchEnds
CHECK_DEADLOCK FALSE
