SPECIFICATION Spec
CONSTANTS
  Users = {u1}
  Files = {f1}
  Requests = {r1, r2}
  Sizes = {1}
  Limit = 1
  MaxInProgress = 1
  NumChunks = 2
  MaxSends = 2
  MaxCrashes = 1
  OrderlyClients = FALSE
  Honesty = {TRUE, FALSE}
  MayFail = TRUE
CHECK_DEADLOCK FALSE
SYMMETRY Symmetry
INVARIANTS ObjectIsRecorded DanglingOnlyByDelete
