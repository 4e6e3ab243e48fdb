\* Two threads enqueue, polls prune and discards delete, while the worker runs.
SPECIFICATION Spec
CONSTANTS
  Groups = {g1, g2}
  NoGroup = NoGroup
  Chunks = {k1}
  Clients = {c1}
  MaxJobs = 3
  MaxQueue = 1
  MaxCrashes = 0
  DiskFaults = FALSE
  IdleOnly = TRUE
  RenderEnabled = TRUE
  Ops = {"start_render", "list_raw_footage", "delete_group",
         "harvest", "auto_render"}
SYMMETRY ModelSymmetry
CHECK_DEADLOCK FALSE
INVARIANTS TypeOK WorkIsScratch QueueBound PruneSpares
