\* A conversion whose listing of the local files fails.
SPECIFICATION FairSpec
CONSTANTS
  Names = {a}
  Avi = {a}
  Users = {u}
  Autosync = autosync
  AutoAction = "copy"
  Transcode = FALSE
  May = {}
  MaxCollision = 1
  MaxBatches = 2
  MaxCrashes = 0
  Ops = {"convert"}
PROPERTY FlagReleased
CHECK_DEADLOCK FALSE
