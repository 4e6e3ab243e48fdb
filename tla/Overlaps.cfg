\* Two threads enqueue one group, again and again, beside cancels.
SPECIFICATION Spec
CONSTANTS
  Groups = {g1}
  NoGroup = NoGroup
  Chunks = {k1}
  Clients = {c1}
  MaxJobs = 4
  MaxQueue = 2
  MaxCrashes = 0
  DiskFaults = FALSE
  IdleOnly = FALSE
  RenderEnabled = TRUE
  Ops = {"start_render", "cancel_render", "harvest", "auto_render"}
SYMMETRY ModelSymmetry
CHECK_DEADLOCK FALSE
INVARIANT GroupOvershoot
