\* A cancel that read the job as queued, and marks it when it runs.
SPECIFICATION Spec
CONSTANTS
  Groups = {g1}
  NoGroup = NoGroup
  Chunks = {k1}
  Clients = {c1}
  MaxJobs = 1
  MaxQueue = 1
  MaxCrashes = 0
  DiskFaults = FALSE
  IdleOnly = TRUE
  RenderEnabled = FALSE
  Ops = {"start_render", "cancel_render", "harvest"}
SYMMETRY ModelSymmetry
CHECK_DEADLOCK FALSE
INVARIANT RunningJobHoldsGroup
