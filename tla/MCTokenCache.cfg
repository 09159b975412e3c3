SPECIFICATION FairSpec
CONSTANTS
  Ops = {o1, o2, o3}
  NoOp = NoOp
  MaxTokens = 4
INVARIANTS
  SteadyNeverUnauthorized
  RefreshOnlyWhenNeeded
  CacheHoldsNewest
PROPERTIES
  EveryOperationEnds
CHECK_DEADLOCK FALSE
