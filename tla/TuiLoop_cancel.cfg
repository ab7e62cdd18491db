SPECIFICATION Spec
CONSTANTS
  MaxTasks = 2
  MaxDetach = 1
  MaxEvents = 1
  MaxBackground = 1
  MayStop = FALSE
  MayFail = FALSE
  MayCancel = TRUE
  MayQuit = TRUE
INVARIANT KeysAreRead
CHECK_DEADLOCK FALSE
