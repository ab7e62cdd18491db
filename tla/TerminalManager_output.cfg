CONSTANTS
  Callers = {c1, c2}
  Starters = {c1}
  Calls <- StartStop
  Limit = 1
  MaxIds = 1
  MaxSpawns = 1
  MaxOutput = 1
  MaxRestarts = 0
  WaitMayFail = FALSE
SPECIFICATION Spec
INVARIANTS OutputKept
CHECK_DEADLOCK FALSE
