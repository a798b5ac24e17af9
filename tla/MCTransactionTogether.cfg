SPECIFICATION StartTogether
CONSTANTS
  c1 = c1
  t1 = t1
  t2 = t2
  r1 = r1
  r2 = r2
  None = None
  Ctx <- MCOneCtx
  Task <- MCTask
  Runner <- MCTwoRunners
  PoolSize = 2
  Faults <- NoFaults
  Disciplined = FALSE
INVARIANT SingleTransaction
\* the tasks stop once they have a runner each
CHECK_DEADLOCK FALSE
