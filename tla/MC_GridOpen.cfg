SPECIFICATION Spec
CONSTANTS
  Dims = 2
  BinCount = 16
  Labels <- MC_Labels
  Low <- MC_Low
  High <- MC_High
  NaN = 100
  CodeOf <- MC_CodeOf
  SizeBits = 1
  LevelBits <- MC_LevelBits
  Points <- MC_Points
  MaxPoints = 2
  Threads = {1}
  Asks <- MC_Asks
INVARIANT InsideCounted
