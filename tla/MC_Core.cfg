CONSTANTS
  Bins <- MC_Bins2
  Depth <- MC_Depth2
  CountMod = 64
  EOF = EOF
  Dims = 2
  Kinds = 3
  Specials = {0, 2}
  Values <- MC_Values2
  SizeBits = 1
  LevelBits <- MC_Widths2
  MaxLen = 3
  LengthChecks = {"any", "none"}
  Threshold = 3
  ExpBits = 6
  FracBits = 6
  Forms <- MC_Forms
  ByteBits = 2
  AccBits = 8
  MaxWidth = 5
  Counts <- MC_Counts
  MaxPopulated = 4
SPECIFICATION MCSpec
INVARIANTS
  EqualLengths
  ReadersAgree
  WritesHistogram
  HeaderAccounts
  OneDimCorrect
  LabelledByNearest
  BinsAreIntervals
  LabelsStay
  PacksExactly
  ReadsInBounds
  RoundTrip
  RejectsDamage
PROPERTIES
  LabelsFollow
  Terminates

