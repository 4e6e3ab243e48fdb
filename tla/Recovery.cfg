\* Shutdowns and crashes at any step, and the recovery of the next process.
SPECIFICATION Spec
CONSTANTS
  Groups = {g1}
  NoGroup = NoGroup
  Chunks = {k1, k2}
  Clients = {c1}
  MaxJobs = 2
  MaxQueue = 1
  MaxCrashes = 1
  DiskFaults = FALSE
  IdleOnly = TRUE
  RenderEnabled = TRUE
  Ops = {"start_render", "harvest", "auto_render", "retention", "shutdown",
         "delete_chunks"}
SYMMETRY ModelSymmetry
CHECK_DEADLOCK FALSE
INVARIANTS WorkIsScratch NoGhostJobs PublishedOnce RenderedMeansMovie
  OldJobsSettled
PROPERTIES RendersOnce FootageOutlives
