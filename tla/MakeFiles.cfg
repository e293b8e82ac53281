\* gozsyncmake and its readers, and control files of other programs.
SPECIFICATION Spec
CONSTANTS
  Bad = Bad
  Empty = Empty
  InField = 16
  OutField = 4
  ByteBits = 2
  Interval = 4
  Margin = 14
  Chunk = 1
  StoredLens = {0, 3}
  Tables = {7}
  Symbols <- MCSymbols
  EndBits = {1}
  MaxBits = 22
  Jobs <- MCJobs
  Sizes <- MCSizes
  ReadSizes <- MCReadSizes
  OtherFiles <- MCOtherFiles
INVARIANTS
  MakeTypeOK
  CheckpointsInTime
  MapReadsBack
  ReadsBackWhatWasMade
  RewriteReadsBack
  AcceptedIsCoherent
CHECK_DEADLOCK FALSE
