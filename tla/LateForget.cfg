\* Two threads that use the manager while its daemon keeps crashing.
SPECIFICATION Spec
CONSTANTS
  Callers = {t1, t2}
  MaxRestarts = 2
  BackoffInitial = 1
  BackoffMax = 4
  KillWorks = TRUE
  MaxCalls = 2
  MaxExits = 3
  Ops = {"start", "restart"}
CHECK_DEADLOCK FALSE
INVARIANT MaxRestartsKept
