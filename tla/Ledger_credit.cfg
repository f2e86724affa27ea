SPECIFICATION FairSpec
CONSTANTS
  u1 = u1
  u2 = u2
  i1 = i1
  i2 = i2
  Users = {u1, u2}
  Jobs = {sched}
  Requests = {r1, r2}
  Invoices = {i1, i2}
  Payer <- MCPayer
  Amount <- MCAmount
  Charges = {1}
  Gifts = {3}
  Orphans = {i2}
  LatePayment = FALSE
  MaxTicks = 1
  MaxGifts = 1
  MaxCrashes = 1
  MayFail = FALSE
CHECK_DEADLOCK FALSE
INVARIANTS CreditedOnce CreditedIsPaid
PROPERTIES SettledIsCredited
