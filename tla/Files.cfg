SPECIFICATION FilesSpec
CONSTANTS
  Users = {u1}
  Files = {f1, f2}
  Requests = {r1, r2}
  Sizes = {1}
  Limit = 2
  MaxInProgress = 1
  NumChunks = 1
  MaxSends = 1
  MaxCrashes = 0
  OrderlyClients = FALSE
  Honesty = {TRUE}
  MayFail = TRUE
  Blobs = {f1, f2}
  Deleters = {r1, r2}
  MaxFaults = 1
  ChunkSize = 16777216
  Overhead = 28
  FileSizes = {1, 16777188, 16777189, 16777216, 16777217, 33554432}
  Paddings = {0, 65536}
CHECK_DEADLOCK FALSE
SYMMETRY Symmetry
INVARIANTS FilesTypeOK SessionCap FileClosesSession RemovalHolds TransfersHold
PROPERTIES NoResurrection FileStoreSpec
