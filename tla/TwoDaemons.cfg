\* A restart request while the harvest resumes the stream.
SPECIFICATION Spec
CONSTANTS
  Callers = {t1, t2}
  MaxRestarts = 1
  BackoffInitial = 1
  BackoffMax = 4
  KillWorks = TRUE
  MaxCalls = 2
  MaxExits = 1
  Ops = {"restart", "pause"}
CHECK_DEADLOCK FALSE
INVARIANT OneDaemon
