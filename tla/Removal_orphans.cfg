SPECIFICATION RemovalFairSpec
CONSTANTS
  Blobs = {b1}
  Deleters = {d1}
  MaxFaults = 1
CHECK_DEADLOCK FALSE
PROPERTIES OrphansReclaimed
