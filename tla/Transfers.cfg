SPECIFICATION FairSpec
CONSTANTS
  Names = {a, m}
  Avi = {a}
  Users = {u, v}
  Autosync = autosync
  AutoAction = "move"
  Transcode = TRUE
  May = {}
  MaxCollision = 1
  MaxBatches = 2
  MaxCrashes = 1
  Ops = {"copy", "move", "delete", "convert"}
INVARIANTS TypeOK NoLoss OneBatch NoStrayTemps AutoNeverDuplicates
PROPERTIES FlagLowered CustodyKept
CHECK_DEADLOCK FALSE
