\* Several seeds and downloads, right and wrong, into one matcher.
SPECIFICATION Spec
CONSTANTS
  Byte = {0, 2}
  Blocksize = 2
  Radix = 2
  ControlFiles <- MCControlFiles
  Strong <- MCStrong
  Seeds <- MCSeeds
  Payloads <- MCPayloads
  MaxFeeds = 2
  MaxTarget = 5
  MaxSeed = 4
  SeqMatchesSet = {1, 2}
  RsumBytesSet = {2}
INVARIANTS
  TypeOK
  GotIsTarget
  CountExact
  MissingRangesExact
PROPERTIES
  ImplementsReconstruction
CHECK_DEADLOCK FALSE
