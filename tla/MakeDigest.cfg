\* A zsync2 file with a File-Hash in MD4, as a test has it.
SPECIFICATION Spec
CONSTANTS
  Bad = Bad
  Empty = Empty
  InField = 16
  OutField = 4
  ByteBits = 2
  Interval = 4
  Margin = 14
  Chunk = 1
  StoredLens = {0, 3}
  Tables = {7}
  Symbols <- MCSymbols
  EndBits = {1}
  MaxBits = 22
  Jobs <- MCJobs
  Sizes <- MCSizes
  ReadSizes <- MCReadSizes
  OtherFiles <- MCOtherFiles
INVARIANTS
  IntactPasses
CHECK_DEADLOCK FALSE
