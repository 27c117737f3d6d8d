CONSTANTS
  Bins <- MC_Bins
  Depth <- MC_Depth
  CountMod = 64
  EOF = EOF
  Position <- MC_Position
  Digit = 4
  Labels <- MC_Labels
  NegInf <- MC_NegInf
  PosInf <- MC_PosInf
  Data <- MC_Data
  MaxValues = 3
  Parts = 4
  Asked <- MC_Asked
  Scale = 24
  Piece = Piece
  Tries <- MC_Tries
  MaxStray = 1
SPECIFICATION BoundsSpec
INVARIANT
  SpecialBounds
CHECK_DEADLOCK FALSE
