--------------------------- MODULE MCTransaction ---------------------------
EXTENDS Transaction

CONSTANTS c1, t1, t2, r1, r2

MCOneCtx == {c1}
MCTask == {t1, t2}
MCTwoRunners == {r1, r2}
NoFaults == {}

\* Services that share a context and start together, as with Promise.all,
\* while nobody ends the transaction.
StartTogether ==
  Init /\ [][\E t \in Task : \/ \E c \in Ctx : Get(t, c)
                             \/ Write(t) \/ Answer(t)]_vars
============================================================================
