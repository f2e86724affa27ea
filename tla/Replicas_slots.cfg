SPECIFICATION FairSpec
CONSTANTS
  Files = {f1}
  Providers = {p1, p2}
  Primary = p1
  Tasks = {t1, t2}
  Deleters = {d1}
  Workers = 1
  CopyModes <- AutomaticModes
  AdminToo = FALSE
  StoreFails = FALSE
  DbFails = TRUE
  MaxCrashes = 0
CHECK_DEADLOCK FALSE
PROPERTIES TasksEnd
