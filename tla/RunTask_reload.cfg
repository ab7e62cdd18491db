SPECIFICATION Spec
CONSTANTS
  Ids = {"i1"}
  Procs = {"p1"}
  MaxRuns = 3
  MaxCalls = 1
  Commands = {"run", "resume"}
  Serial = TRUE
  MayCrash = FALSE
  MayRefuse = TRUE
INVARIANT NoFinishedWorkReloaded
CHECK_DEADLOCK FALSE
