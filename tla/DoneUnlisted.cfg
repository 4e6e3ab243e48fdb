\* One print of one chunk, and a disk that takes no order.json.
SPECIFICATION Spec
CONSTANTS
  Manuals = {}
  MaxWorkers = 1
  MaxPrints = 1
  MaxChunks = 1
  Newest = 1
  MaxTries = 1
  RenderEnabled = TRUE
  MaxStops = 0
  MaxCrashes = 0
CHECK_DEADLOCK FALSE
INVARIANT DoneIsListed
