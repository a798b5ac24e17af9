SPECIFICATION BatchSpec
CONSTANTS
  g1 = g1
  g2 = g2
  g3 = g3
  g4 = g4
  r1 = r1
  r2 = r2
  r3 = r3
  k1 = k1
  k2 = k2
  e1 = e1
  None = None
  Absent = Absent
  Disciplined = FALSE
  Ctx <- MCCtx
  Task <- MCTask
  Child <- MCChild
  Event <- MCEvent
  ContextOf <- MCContextOf
  ChildErrors = TRUE
  Runner <- MCRunner
  PoolSize = 1
  Faults <- SomeFaults
  Bundles <- MCBundles
INVARIANTS
  GroupIsAtomic
  DoneHoldsNothing
  OneResultEach
PROPERTIES
  FailureStopsGroup
  BatchEnds
\* a connection that nobody gives back leaves others waiting
CHECK_DEADLOCK FALSE
