CONSTANTS
  Callers = {c1}
  Starters = {c1}
  Calls <- WithoutWait
  Limit = 1
  MaxIds = 2
  MaxSpawns = 2
  MaxOutput = 1
  MaxRestarts = 0
  WaitMayFail = FALSE
SPECIFICATION Spec
INVARIANTS LimitRespected
CHECK_DEADLOCK FALSE
