\* Runs that stop anywhere, mirrors that lag or omit, digests in every control file.
SPECIFICATION Spec
CONSTANTS
  Targets <- MCTargets
  Digested = {1, 2, 3}
  Dated = {1, 2}
  Inputs <- MCInputs
  OutGiven = TRUE
  Omitting = TRUE
  Lag = 1
  Stops = {"load", "seeds", "fetch", "verify", "stage", "write", "rename", "chtimes"}
  MaxTime = 5
  MaxStops = 2
INVARIANTS
  OutIsAVersion
  DoneIsTarget
  StampedUpToDateIsTrue
CHECK_DEADLOCK FALSE
