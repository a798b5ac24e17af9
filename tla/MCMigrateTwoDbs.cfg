SPECIFICATION MigrateSpec
CONSTANTS
  p1 = p1
  p2 = p2
  p3 = p3
  d1 = d1
  d2 = d2
  m1 = m1
  m2 = m2
  m3 = m3
  m4 = m4
  Process <- OneProcess
  Db <- TwoDbs
  Call <- TwoCalls
  ProcessOf <- AloneProcessOf
  DbOf <- AloneDbOf
  Local <- SameVersion
  Installed <- New
  Tries = 3
  MayFail = FALSE
  MaxCrashes = 0
INVARIANT ReturnedMeansMigrated
\* every call ends
CHECK_DEADLOCK FALSE
