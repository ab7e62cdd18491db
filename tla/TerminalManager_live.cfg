CONSTANTS
  Callers = {c1, c2}
  Starters = {c1}
  Calls <- WithoutProbe
  Limit = 1
  MaxIds = 1
  MaxSpawns = 1
  MaxOutput = 0
  MaxRestarts = 1
  WaitMayFail = TRUE
SPECIFICATION FairSpec
INVARIANTS TypeOK SignalsOnlyOwn RunningIsCounted StoppedIsDead StopIsRecorded
PROPERTIES WaiterWakes TerminalEnds
CHECK_DEADLOCK FALSE
