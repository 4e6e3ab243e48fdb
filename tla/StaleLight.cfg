\* The monitor is gone, what it saw last is still believed.
SPECIFICATION Spec
CONSTANTS
  Clickers = {}
  MaxTries = 1
  MaxSwitches = 2
  MaxPrints = 1
  MaxClicks = 0
  MaxOutside = 1
CHECK_DEADLOCK FALSE
PROPERTY SkipsOnlyWhatItSees
