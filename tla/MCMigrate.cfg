SPECIFICATION MigrateSpec
CONSTANTS
  p1 = p1
  p2 = p2
  p3 = p3
  d1 = d1
  d2 = d2
  m1 = m1
  m2 = m2
  m3 = m3
  m4 = m4
  Process <- ThreeProcesses
  Db <- TwoDbs
  Call <- FourCalls
  ProcessOf <- RollProcessOf
  DbOf <- RollDbOf
  Local <- RollVersion
  Installed <- RollInstalled
  Tries = 3
  MayFail = TRUE
  MaxCrashes = 1
INVARIANTS
  ReturnedMeansMigrated
  RecordIsNotAhead
PROPERTIES
  NoDowngrade
  CallsEnd
\* every call ends
CHECK_DEADLOCK FALSE
