\* Runs that stop anywhere but between Rename and Chtimes; mirrors that serve what is published.
SPECIFICATION Spec
CONSTANTS
  Targets <- MCTargets
  Digested = {1, 2, 3}
  Dated = {1, 2, 3}
  Inputs <- MCOldInputs
  OutGiven = TRUE
  Omitting = FALSE
  Lag = 0
  Stops = {"load", "seeds", "fetch", "verify", "stage", "write", "rename"}
  MaxTime = 5
  MaxStops = 1
PROPERTIES
  Converges
CHECK_DEADLOCK FALSE
