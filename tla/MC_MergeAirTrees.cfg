CONSTANTS
  Bins <- MC_Bins
  Depth <- MC_Depth
  CountMod = 4
  EOF = EOF
  StreamDepth <- MC_StreamDepth
  StreamTries <- MC_StreamTries
  FoldTries <- MC_FoldTries
  MaxInputs = 3
  Config = c1
  Others = {c2}
  MayTear = TRUE
  LeavesEarly = FALSE
  ChecksOffsets = TRUE
  Names <- MC_Names
  Data <- MC_Data
  Jobs <- MC_Jobs
  Disks <- MC_Disks
  Absent = Absent
  MaxPrograms = 3
  Threads = {t1, t2, t3}
  Lengths = {1, 2, 3}
  Supported = {1, 2}
  Label <- MC_Label
  MaxCalls = 2
  NoThread = NoThread
  NoTable = NoTable
SPECIFICATION MCSpec
INVARIANTS
  OutputSoFar
  BothAtEnd
  HeaderTotals
  SuccessTold
  KeptUntilAnswered
  SeenWhole
  OneTable
PROPERTIES
  ImplementsSum
  Answered
