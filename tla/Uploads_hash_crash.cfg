SPECIFICATION Spec
CONSTANTS
  Users = {u1}
  Files = {f1}
  Requests = {r1}
  Sizes = {1}
  Limit = 1
  MaxInProgress = 1
  NumChunks = 2
  MaxSends = 1
  MaxCrashes = 1
  OrderlyClients = TRUE
  Honesty = {TRUE}
  MayFail = FALSE
CHECK_DEADLOCK FALSE
INVARIANTS StoredHashIsObjectHash
