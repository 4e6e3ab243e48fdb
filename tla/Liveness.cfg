\* Cancels, prints and a crash: every active job settles, weakly fair threads.
SPECIFICATION FairSpec
CONSTANTS
  Groups = {g1}
  NoGroup = NoGroup
  Chunks = {k1}
  Clients = {c1}
  MaxJobs = 2
  MaxQueue = 1
  MaxCrashes = 1
  DiskFaults = FALSE
  IdleOnly = TRUE
  RenderEnabled = TRUE
  Ops = {"start_render", "cancel_render", "harvest", "print"}
CHECK_DEADLOCK FALSE
PROPERTY JobsSettle
