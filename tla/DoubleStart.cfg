\* A click between the two reports of a print's start: the second one clears it.
SPECIFICATION Spec
CONSTANTS
  Clickers = {c}
  MaxTries = 1
  MaxSwitches = 2
  MaxPrints = 1
  MaxClicks = 1
  MaxOutside = 0
CHECK_DEADLOCK FALSE
INVARIANT ToggleWins
