\* One print of two chunks, one of which does not come.
SPECIFICATION Spec
CONSTANTS
  Manuals = {}
  MaxWorkers = 1
  MaxPrints = 1
  MaxChunks = 2
  Newest = 1
  MaxTries = 2
  RenderEnabled = TRUE
  MaxStops = 0
  MaxCrashes = 0
CHECK_DEADLOCK FALSE
INVARIANT ReadyMeansWhole
