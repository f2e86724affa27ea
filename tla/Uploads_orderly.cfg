SPECIFICATION FairSpec
CONSTANTS
  Users = {u1}
  Files = {f1, f2}
  Requests = {r1, r2}
  Sizes = {1}
  Limit = 1
  MaxInProgress = 1
  NumChunks = 2
  MaxSends = 1
  MaxCrashes = 0
  OrderlyClients = TRUE
  Honesty = {TRUE}
  MayFail = FALSE
CHECK_DEADLOCK FALSE
PROPERTIES StalePartsReclaimed
