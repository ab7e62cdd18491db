CONSTANTS
  Sessions = {s1, s2, s3}
  Existing = {s1}
  Requests = {r1, r2}
  Keys = {k1}
  Kinds = {"attach", "submit_message", "cancel", "interrupt", "approve", "reject",
           "answer", "resume", "retry", "archive", "invoke_command", "fork",
           "delete", "unknown"}
  Expectations = {1}
  Serial = FALSE
  MayFail = TRUE
  Nothing = Nothing
SPECIFICATION Spec
SYMMETRY Symmetry
INVARIANTS TypeOK EventsHaveSession LogGapFree CursorWithinLog
CHECK_DEADLOCK FALSE
