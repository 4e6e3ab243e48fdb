\* A print with doubled events beside a click, a monitor, the printer's display
\* and a connection that changes.
SPECIFICATION FairSpec
CONSTANTS
  Clickers = {c}
  MaxTries = 2
  MaxSwitches = 2
  MaxPrints = 1
  MaxClicks = 1
  MaxOutside = 1
CHECK_DEADLOCK FALSE
INVARIANTS TypeOK OneCommand OneSwitchPending ManualOffWins
PROPERTY CommandsEnd
