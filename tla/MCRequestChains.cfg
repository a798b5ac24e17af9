SPECIFICATION HandlerSpec
CONSTANTS
  q1 = q1
  q2 = q2
  k1 = k1
  k2 = k2
  e1 = e1
  e2 = e2
  r1 = r1
  r2 = r2
  r3 = r3
  None = None
  Disciplined = FALSE
  Ctx <- ChainCtx
  Task <- ChainTask
  Child <- ChainChild
  Event <- ChainEvent
  ContextOf <- ChainContextOf
  Runner <- ChainRunner
  PoolSize = 2
  Faults <- BeginFaults
  ChildErrors = TRUE
SYMMETRY Alike
INVARIANTS
  BegunBeforeUse
  HandlerKeepsItsWord
  ChildrenShareTransaction
\* a chain waits for ever when no runner or connection is left
CHECK_DEADLOCK FALSE
