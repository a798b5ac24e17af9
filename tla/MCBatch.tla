------------------------------ MODULE MCBatch ------------------------------
EXTENDS Batch, TLC

CONSTANTS g1, g2, g3, g4, r1, r2, r3, k1, k2, e1

\* Batches of the groups below: the requests of g1 insert children, those of
\* g4 have an event hook, those of g2 and g3 start nothing.
MCCtx == {g1, g2, g3, g4}
MCChild == {k1, k2}
MCEvent == {e1}
MCTask == MCCtx \cup MCChild \cup MCEvent
MCContextOf == (k1 :> g1) @@ (k2 :> g1) @@ (e1 :> g4)

\* One of each group, and one for a chain that outlives its group or for a
\* group whose first connect() failed.
MCRunner == {r1, r2, r3}
SomeFaults == {"connect", "end"}

Req(id, deps) == [id |-> id, dependsOn |-> deps]

One == <<Req(0, Absent)>>
Two == <<Req(0, Absent), Req(1, Absent)>>
Chain == <<Req(0, Absent), Req(1, {2}), Req(2, {0})>>
Cycle == <<Req(0, {1}), Req(1, {0})>>
Unknown == <<Req(0, {7})>>
\* The first request is bare: it never runs and has no result.
Lonely == <<Req(0, {}), Req(1, Absent), Req(2, {1})>>

MCBatchOf(requests) == [g \in MCCtx |-> IF g \in DOMAIN requests THEN requests[g] ELSE <<>>]

\* A chain beside one request, a group that is refused beside one that is
\* served, for a cycle or for an unknown dependency, and a bare request.
PlainBundles ==
  {MCBatchOf((g2 :> One) @@ (g3 :> Chain)), MCBatchOf((g2 :> Cycle) @@ (g3 :> Two)),
   MCBatchOf((g2 :> Unknown) @@ (g3 :> Two)), MCBatchOf(g3 :> Lonely)}

\* Children of one request, alone, beside a group that waits for the only
\* connection, and beside one that is refused; a hook of one of two requests.
ChainBundles ==
  {MCBatchOf(g1 :> One), MCBatchOf((g1 :> One) @@ (g2 :> One)), MCBatchOf((g1 :> One) @@ (g2 :> Cycle)),
   MCBatchOf(g4 :> Two)}

MCBundles == PlainBundles \cup ChainBundles

\* The order of the cases of test/type/batch.spec.ts.
ASSUME groupDependsOn(<<Req(0, Absent), Req(1, {0}), Req(2, {0}), Req(3, {2})>>)
         = <<<<0, 1, 2, 3>>>>
ASSUME groupDependsOn(
         <<Req(0, Absent), Req(1, {0}), Req(2, {0}), Req(3, {2}),
           Req(4, Absent), Req(5, {6}), Req(6, {4})>>)
         = <<<<0, 1, 2, 3>>, <<4, 6, 5>>>>
ASSUME Refuses(<<Req(0, {4}), Req(1, {0}), Req(2, {1}), Req(3, {2}),
                 Req(4, {3})>>)
ASSUME RunOrder(groupDependsOn(Chain)) = <<0, 2, 1>>
============================================================================
