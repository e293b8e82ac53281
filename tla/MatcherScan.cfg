\* One seed scanned by a fresh matcher: every target of up to five bytes, every seed of up to
\* six bytes, with and without the two-match filter.
SPECIFICATION Spec
CONSTANTS
  Byte = {0, 2}
  Blocksize = 2
  Radix = 2
  ControlFiles <- MCControlFiles
  Strong <- MCStrong
  Seeds <- MCSeeds
  Payloads <- MCNoPayloads
  MaxFeeds = 1
  MaxTarget = 5
  MaxSeed = 6
  SeqMatchesSet = {1, 2}
  RsumBytesSet = {2, 4}
INVARIANTS
  RollingIsExact
  WindowsTaken
  
PROPERTIES
  OwnBytesSuffice
CHECK_DEADLOCK FALSE
