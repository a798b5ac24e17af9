SPECIFICATION HandlerSpec
CONSTANTS
  q1 = q1
  q2 = q2
  k1 = k1
  k2 = k2
  e1 = e1
  e2 = e2
  r1 = r1
  r2 = r2
  r3 = r3
  None = None
  Disciplined = FALSE
  Ctx <- PlainCtx
  Task <- PlainCtx
  Child <- NoSide
  Event <- NoSide
  ContextOf <- NoContextOf
  Runner <- PlainRunner
  PoolSize = 1
  Faults <- EndFaults
  ChildErrors = FALSE
INVARIANTS
  SingleTransaction
  NoLostConnection
  ReleasedIsOver
  AnswerIsTrue
  NothingHeldAfterAnswer
PROPERTIES
  ForgetOnlyReleased
  ImplementsContract
  EveryRequestAnswered
\* a request whose ROLLBACK was refused keeps the only connection
CHECK_DEADLOCK FALSE
