SPECIFICATION Spec
CONSTANTS
  N = 3
  MaxChanges = 1
  Labels = {l1, l2, inbox}
  System = {inbox}
  MaxLabelChanges = 1
  MaxPageChanges = 2
  Window = 2
  Bodies <- BodySizes
  Budget = 8
INVARIANTS
  OutcomesTruthful
  WrittenOnce
  ReadsTruthful
PROPERTIES
  EveryRequestEnds
  KeepsPromise
CHECK_DEADLOCK FALSE
