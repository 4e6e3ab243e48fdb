\* A copy whose re-encoding is left by an error of another kind.
SPECIFICATION Spec
CONSTANTS
  Names = {a}
  Avi = {a}
  Users = {u}
  Autosync = autosync
  AutoAction = "copy"
  Transcode = TRUE
  May = {}
  MaxCollision = 1
  MaxBatches = 1
  MaxCrashes = 0
  Ops = {"copy"}
PROPERTY EncodeNeverEndsBatch
CHECK_DEADLOCK FALSE
