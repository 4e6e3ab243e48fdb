\* A pipeline beside a fetch by hand.
SPECIFICATION Spec
CONSTANTS
  Manuals = {m}
  MaxWorkers = 1
  MaxPrints = 1
  MaxChunks = 1
  Newest = 1
  MaxTries = 1
  RenderEnabled = TRUE
  MaxStops = 0
  MaxCrashes = 0
CHECK_DEADLOCK FALSE
INVARIANT OneHarvest
