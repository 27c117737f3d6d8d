CONSTANTS
  Bins <- MC_Bins
  Depth <- MC_Depth
  CountMod = 64
  EOF = EOF
  Tries <- MC_Tries
  MaxInputs = 2
  MayTear = FALSE
  LeavesEarly = TRUE
  ChecksOffsets = FALSE
SPECIFICATION Spec
INVARIANT
  ByteIdentical
