\* The conditional GET as the program makes it.
SPECIFICATION Spec
CONSTANTS
  Targets <- MCTargets
  Digested = {1, 2, 3}
  Dated = {1, 2, 3}
  Inputs <- MCInputs
  OutGiven = TRUE
  Omitting = FALSE
  Lag = 0
  Stops = {"load", "seeds", "fetch", "verify", "stage", "write", "rename", "chtimes"}
  MaxTime = 5
  MaxStops = 1
INVARIANTS
  UpToDateIsTrue
CHECK_DEADLOCK FALSE
