SPECIFICATION ServiceSpec
CONSTANTS
  Users = {u1, u2}
  Interval = 2
  Day = 6
  SweepAt = 2
  MaxTime = 10
  MaxRestarts = 2
  MayLag = TRUE
  MayFail = TRUE
  Shares = {h1}
  Requests = {r1, r2, r3}
  Owners = {a1, a2}
  AccessLimits = {0, 1, 2}
  LastChunk = 1
  MaxStarts = 3
  Admins = {a1, a2}
  SlotCount = 3
  Keepers = {k1}
  MaxVersion = 3
  MaxSeed = 5
  SystemKeys = {"jwt", "entity"}
  EntityKeys = {"entity"}
  Enrolled = {"u1"}
  Methods = {"totp", "webauthn"}
  MaxMasters = 5
  Commands = {a1, a2}
  People = {u1, u2}
  MaxPairs = 2
  FileIds = {f1}
  NoOne = NoOne
  CodesPerSet = 2
  MaxEnrolled = 3
  MaxSets = 3
  MaxLosses = 1
CHECK_DEADLOCK FALSE
SYMMETRY Symmetry
INVARIANTS ServiceTypeOK ChargedOncePerHour OneSweepPerProcess NoDaySkipped DownloadsWithinLimit RolesHold IssuedStillVerified MasterNeverLost ClientHolds  RecoveryHolds
