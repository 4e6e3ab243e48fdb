\* The pipelines of two prints; or one beside a fetch by hand, a stop, a crash and
\* the sweep after it.
SPECIFICATION Spec
CONSTANTS
  Manuals = {m}
  MaxWorkers = 2
  MaxPrints = 2
  MaxChunks = 2
  Newest = 1
  MaxTries = 2
  RenderEnabled = TRUE
  MaxStops = 1
  MaxCrashes = 1
CHECK_DEADLOCK FALSE
CONSTRAINT Apart
INVARIANTS TypeOK LastPipeline BaselineOrder StopReaches BusyTruthful NoPhantom
  DoneMeansWhole NothingAfterStop
PROPERTY ShelfKept
