\* A group is enqueued and rendered between the check and the removal of a discard.
SPECIFICATION Spec
CONSTANTS
  Groups = {g1}
  NoGroup = NoGroup
  Chunks = {k1}
  Clients = {c1, c2}
  MaxJobs = 1
  MaxQueue = 1
  MaxCrashes = 0
  DiskFaults = FALSE
  IdleOnly = TRUE
  RenderEnabled = FALSE
  Ops = {"start_render", "delete_group", "harvest"}
SYMMETRY ModelSymmetry
CHECK_DEADLOCK FALSE
PROPERTY SourcesKept
