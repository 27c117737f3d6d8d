SPECIFICATION Spec
CONSTANTS
  Dims = 2
  BinCount = 4
  Labels <- MC_Labels
  Low <- MC_Low
  High <- MC_High
  IndexMod = 16
  Points <- MC_Points
  MaxPoints = 2
  Boxes <- MC_Boxes
INVARIANT SafeIsLowerBound
CHECK_DEADLOCK FALSE
