CONSTANTS
  Sessions = {s1, s2}
  Existing = {s1}
  Requests = {r1, r2, r3}
  Keys = {k1, k2}
  Kinds = {"submit_message", "attach", "cancel", "archive", "resume", "delete", "fork"}
  Expectations = {1, 3}
  Serial = TRUE
  MayFail = TRUE
  Nothing = Nothing
SPECIFICATION SerialSpec
SYMMETRY Symmetry
INVARIANTS ReceiptsMatchLog ReplaysInsteadOfApplying CursorLagBounded
  DepthCountsAccepted AppliedWhereExpected
PROPERTIES DeletedLogFrozen LifecycleSpec
CHECK_DEADLOCK FALSE
