-------------------------- MODULE MCRequestHandler --------------------------
EXTENDS RequestHandler, TLC

CONSTANTS q1, q2, k1, k2, e1, e2, r1, r2, r3

\* Two requests whose services start no chains.
PlainCtx == {q1, q2}
PlainRunner == {r1, r2}
NoSide == {}
NoContextOf == [s \in {} |-> q1]
EndFaults == {"connect", "end"}

\* One request that inserts an entity with two children and has two event hooks.
ChainCtx == {q1}
ChainTask == {q1, k1, k2, e1, e2}
ChainChild == {k1, k2}
ChainEvent == {e1, e2}
ChainContextOf == [s \in {k1, k2, e1, e2} |-> q1]
ChainRunner == {r1, r2, r3}
BeginFaults == {"begin"}

\* Children are alike, and so are hooks (no liveness is checked of them).
Alike == Permutations(ChainChild) \cup Permutations(ChainEvent)
=============================================================================
