\* One rsum byte on the wire, as Read admits: B never matches above its low half.
SPECIFICATION Spec
CONSTANTS
  Byte = {0, 2}
  Blocksize = 2
  Radix = 2
  ControlFiles <- MCControlFiles
  Strong <- MCStrong
  Seeds <- MCSeeds
  Payloads <- MCNoPayloads
  MaxFeeds = 1
  MaxTarget = 6
  MaxSeed = 4
  SeqMatchesSet = {1}
  RsumBytesSet = {1}
INVARIANTS
  EveryOccurrenceTaken
CHECK_DEADLOCK FALSE
