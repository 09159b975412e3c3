SPECIFICATION Spec
CONSTANTS
  Tuis = {t1}
  Refreshes = {b1, b2}
  MaxGrants = 3
SYMMETRY Symmetry
INVARIANTS
  CleanupCanBeRetried
CHECK_DEADLOCK FALSE
