CONSTANTS
  Bins <- MC_Bins
  Depth <- MC_Depth
  CountMod = 64
  EOF = EOF
  Dims = 3
  Kinds = 2
  Specials = {0}
  Values <- MC_Values
  SizeBits = 1
  LevelBits <- MC_Widths
  MaxLen = 2
  LengthChecks = {"all"}
  Threshold = 100
SPECIFICATION Spec
INVARIANT
  WithinArrays
