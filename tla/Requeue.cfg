\* The worker is started before the registry is reconciled.
SPECIFICATION Spec
CONSTANTS
  Groups = {g1}
  NoGroup = NoGroup
  Chunks = {k1}
  Clients = {c1}
  MaxJobs = 1
  MaxQueue = 1
  MaxCrashes = 1
  DiskFaults = FALSE
  IdleOnly = TRUE
  RenderEnabled = TRUE
  Ops = {"start_render", "harvest"}
SYMMETRY ModelSymmetry
CHECK_DEADLOCK FALSE
PROPERTY RecoverRequeuesNothing
