\* A request and the harvest's auto-render enqueue the same group.
SPECIFICATION Spec
CONSTANTS
  Groups = {g1}
  NoGroup = NoGroup
  Chunks = {k1}
  Clients = {c1}
  MaxJobs = 2
  MaxQueue = 2
  MaxCrashes = 0
  DiskFaults = FALSE
  IdleOnly = TRUE
  RenderEnabled = TRUE
  Ops = {"start_render", "harvest", "auto_render"}
SYMMETRY ModelSymmetry
CHECK_DEADLOCK FALSE
INVARIANT OneRenderPerGroup
