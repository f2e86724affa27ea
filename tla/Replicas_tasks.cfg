SPECIFICATION Spec
CONSTANTS
  Files = {f1}
  Providers = {p1, p2}
  Primary = p1
  Tasks = {t1, t2}
  Deleters = {d1}
  Workers = 2
  CopyModes <- UsualModes
  AdminToo = TRUE
  StoreFails = TRUE
  DbFails = FALSE
  MaxCrashes = 1
CHECK_DEADLOCK FALSE
SYMMETRY Symmetry
INVARIANTS TypeOK ActiveHasObject LastCopySurvives RunningHasSlot ActiveIsVerified
