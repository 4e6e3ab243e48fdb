\* One caller at a time: requests, the harvest's pause, crashes, an offline printer.
SPECIFICATION FairSpec
CONSTANTS
  Callers = {t1}
  MaxRestarts = 2
  BackoffInitial = 1
  BackoffMax = 4
  KillWorks = TRUE
  MaxCalls = 2
  MaxExits = 4
  Ops = {"start", "stop", "restart", "pause"}
CHECK_DEADLOCK FALSE
INVARIANTS TypeOK Supervised StoppedStaysStopped OneDaemon RestartBudget
PROPERTY ComesBack
