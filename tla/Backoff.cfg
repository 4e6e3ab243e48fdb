\* A daemon that crashes again after its respawn.
SPECIFICATION Spec
CONSTANTS
  Callers = {t1}
  MaxRestarts = 2
  BackoffInitial = 1
  BackoffMax = 4
  KillWorks = TRUE
  MaxCalls = 1
  MaxExits = 2
  Ops = {"start"}
CHECK_DEADLOCK FALSE
INVARIANT BackoffGrows
