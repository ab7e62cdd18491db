CONSTANTS
  Sessions = {s1, s2}
  Existing = {s1}
  Requests = {r1, r2}
  Keys = {k1}
  Kinds = {"submit_message"}
  Expectations = {}
  Serial = TRUE
  MayFail = TRUE
  Nothing = Nothing
SPECIFICATION Spec
INVARIANTS AppliedAtMostOnce
CHECK_DEADLOCK FALSE
