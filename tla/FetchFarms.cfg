\* Any two mirrors of any modes, steady or wavering, from any state of the buffer.
SPECIFICATION Spec
CONSTANTS
  Byte = {0, 1}
  Blocksize = 2
  ControlFiles <- MCControlFiles
  Strong <- MCStrong
  NumURLs = 2
  MaxRanges = 2
  Farms <- MCFarms
  MirrorModes = {"down", "forbidden", "plain", "cut", "single", "multi", "short", "stale", "malformed", "dup", "drop", "coalesce", "shift"}
INVARIANTS
  TypeOK
  GotIsTarget
  CountExact
  ServedRunsFilled
  HonestSuccessIsComplete
  RequestBudget
  GoodMirrorNoError
PROPERTIES
  ImplementsReconstruction
  GoodMirrorSuffices
CHECK_DEADLOCK FALSE
