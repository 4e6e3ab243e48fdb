SPECIFICATION Spec
CONSTANTS
  Names = {m}
  Avi = {}
  Users = {u}
  Autosync = autosync
  AutoAction = "move"
  Transcode = FALSE
  May = {"overlap"}
  MaxCollision = 1
  MaxBatches = 3
  MaxCrashes = 0
  Ops = {"copy"}
INVARIANT NoLoss
CHECK_DEADLOCK FALSE
