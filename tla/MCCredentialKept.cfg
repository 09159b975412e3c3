SPECIFICATION Spec
CONSTANTS
  Tuis = {t1, t2}
  Refreshes = {b1}
  MaxGrants = 3
SYMMETRY Symmetry
INVARIANTS
  NoClaimAfterRevocation
  OnlyOverwritingBreaks
  DisconnectedIsClean
CHECK_DEADLOCK FALSE
