\* A server that merges two ranges into one part, as the code expects some to do.
SPECIFICATION Spec
CONSTANTS
  Byte = {0, 1}
  Blocksize = 2
  ControlFiles <- MCControlFiles
  Strong <- MCStrong
  NumURLs = 1
  MaxRanges = 50
  Farms <- MCSteadyFarms
  MirrorModes = {"multi", "coalesce"}
INVARIANTS
  SuccessIsComplete
CHECK_DEADLOCK FALSE
