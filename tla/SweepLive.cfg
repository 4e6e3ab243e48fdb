\* A fetch by hand while the sweep of a restart goes on.
SPECIFICATION Spec
CONSTANTS
  Manuals = {m}
  MaxWorkers = 0
  MaxPrints = 1
  MaxChunks = 1
  Newest = 1
  MaxTries = 1
  RenderEnabled = TRUE
  MaxStops = 0
  MaxCrashes = 1
CHECK_DEADLOCK FALSE
INVARIANT SweepSparesLive
