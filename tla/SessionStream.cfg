CONSTANTS
  Sessions = {s1}
  Existing = {s1}
  Requests = {r1, r2}
  Keys = {k1}
  Kinds = {"submit_message"}
  Expectations = {}
  Serial = FALSE
  MayFail = TRUE
  Clients = {c1}
  MaxBreaks = 2
  Watched = s1
  Nothing = Nothing
SPECIFICATION MCSpec
INVARIANTS DeliveredOnceInOrder
PROPERTIES OrderlyStreams
CHECK_DEADLOCK FALSE
