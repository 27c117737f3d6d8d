SPECIFICATION MC_Spec
CONSTANTS
  Dims = 3
  BinCount = 4
  Labels <- MC_Labels
  Low <- MC_Low
  High <- MC_High
  IndexMod = 16
  Points <- MC_Points3
  MaxPoints = 2
  Boxes <- MC_Boxes3
INVARIANTS SafeByLabel UnboundedExact PastTableOnlyBelow BatchCorrect
CHECK_DEADLOCK FALSE
