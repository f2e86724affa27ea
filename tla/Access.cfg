SPECIFICATION AccessSpec
CONSTANTS
  Handlers = {p1, p2}
  MaxMinted = 4
  MaxTime = 2
  TTL = 1
  Presenters = {p1, p2}
  Code = 2
  Skew = 1
  UsageKept = 0
  Sets = {1, 2}
  MaxAccepted = 2
  MaxWindow = 3
  Verifiers = {p1, p2}
  Soft = 1
  Hard = 3
  LockWindow = 3
  BackoffCap = 2
  MaxWrong = 4
  MaxClock = 4
  Enrollers = {p1, p2}
  MaxRows = 3
  TopTier = 2
  Penalty <- AccessPenalty
  FloodHits <- AccessHits
  FloodWindow = 2
  TierDecayPeriod = 4
  TierFullResetPeriod = 7
  EnumHits <- AccessHits
  EnumWindow = 2
  AttemptHits <- AccessHits
  Retention = 5
  MaxHits = 5
  MaxMinute = 14
  Names = {n1, n2}
  Ceremonies = {s1, s2}
  Callers = {p1, p2}
  MaxKey = 2
  MaxToken = 1
  u1 = u1
  u2 = u2
  i1 = i1
  i2 = i2
  Users = {u1, u2}
  Jobs = {sched}
  Requests = {p1, p2}
  Invoices = {i1}
  Payer <- OnePayer
  Amount <- OneAmount
  Charges = {1}
  Gifts = {3}
  Orphans = {}
  LatePayment = TRUE
  MaxTicks = 2
  MaxGifts = 1
  MaxCrashes = 0
  MayFail = TRUE
CHECK_DEADLOCK FALSE
SYMMETRY Symmetry
INVARIANTS AccessTypeOK ServedWasValid CodesHold MFAHolds AccountsHold RunningBalance
PROPERTIES EndedStaysEnded BlockNeverShortened AccountSpec SweepDrainsUnbilled
