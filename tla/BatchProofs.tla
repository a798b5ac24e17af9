---------------------------- MODULE BatchProofs ----------------------------
(***************************************************************************)
(* What holds of the $batch handler for every number of groups, whatever   *)
(* requests are in them and in whatever order groupDependsOn puts them,    *)
(* whatever children and hooks their services start, every pool size and   *)
(* every choice of faults.  While a group is served nobody else can end    *)
(* its transaction, and its side chains start after its first statement    *)
(* and find that transaction: all statements are on the stored runner, in  *)
(* an open transaction.  What the last call of the function makes of that  *)
(* transaction follows anyItemProcessedFailed, which is true exactly when  *)
(* a result that is not good has been pushed.  The entry stays until the   *)
(* connection has been released, so only afterwards can a chain that is    *)
(* late open a transaction of its own.  And what has been answered, then   *)
(* what is left to run, is always the order groupDependsOn made.           *)
(***************************************************************************)
EXTENDS Batch, TransactionProofs, DependsProofs

\* Every chain calls the store for the group it works for.
CallsOwn(g) == \A t \in SidesOf(g) \cup {g} : ctx[t] \in {None, g}

\* Nothing has happened for a group whose function was not called.
Untouched(g) ==
  group[g] = "waiting" =>
    /\ storage[g] = None /\ pc[g] = "idle" /\ qr[g] = None
    /\ \A r \in Runner : owner[r] = g => wrote[r] = {}
    /\ \A s \in SidesOf(g) : side[s] = "unborn"

\* A request is executed only while its group is served, and with fast-fail
\* not after a failure; when none is, or the group's chain waits for children,
\* no call of its own on the store is going on.
ExecutesServed(g) ==
  /\ executing[g] => group[g] = "serving" /\ ~(failed[g] /\ fastFail)
  /\ awaited[g] # {} => executing[g] /\ pc[g] = "idle"
  /\ group[g] = "serving" => pc[g] \in {"idle", "threw", "connecting", "beginning"}
  /\ group[g] = "serving" /\ ~executing[g] => pc[g] = "idle"
  /\ Opening(g) => group[g] = "serving" /\ storage[g] = None
  /\ group[g] = "ending" => pc[g] \in {"idle", "threw", "ending", "refused",
                                       "releasing", "deleting"}
  /\ group[g] \in {"done", "threw"} => Free(g)

\* Side chains are started after a statement; while the group is served they
\* find its transaction.
SideRunners(g) ==
  \A s \in SidesOf(g) :
    /\ side[s] = "unborn" => qr[s] = None
    /\ side[s] # "running" => Free(s)
    /\ group[g] = "serving" =>
         /\ side[s] # "unborn" => storage[g] # None
         /\ Free(s) /\ qr[s] \in {None, storage[g]}

\* While the group is served its stored transaction is open, and all its
\* statements are inside it.
OneOpen(g) ==
  group[g] = "serving" =>
    /\ storage[g] # None => dbtx[storage[g]] = "open" /\ txActive[storage[g]]
    /\ Free(g) => qr[g] \in {None, storage[g]}
    /\ \A r \in Runner :
         owner[r] = g /\ wrote[r] # {} => storage[g] = r /\ wrote[r] = {"inside"}

\* When it is ended, the transaction gets the fate anyItemProcessedFailed
\* tells, unless the call throws; all the work is in it, but for that of
\* chains that were running then.
EndedAsFailed(g) ==
  group[g] \in {"ending", "done"} =>
    /\ qr[g] # None /\ (pc[g] \notin {"refused", "threw"} \/ group[g] = "done") =>
         dbtx[qr[g]] = IF failed[g] THEN "rolledback" ELSE "committed"
    /\ ~late[g] => \A r \in Runner : owner[r] = g /\ wrote[r] # {} =>
                     wrote[r] = {"inside"} /\ qr[g] = r

\* Until the entry is deleted it holds the runner that is ended, so that the
\* side chains only find it.
EndingRunner(g) ==
  group[g] \in {"ending", "done"} =>
    /\ pc[g] \in {"ending", "refused", "releasing", "deleting"} =>
         qr[g] # None /\ storage[g] = qr[g] /\ \A s \in SidesOf(g) : Free(s)
    /\ pc[g] = "deleting" => phase[qr[g]] = "released"
    /\ pc[g] = "idle" /\ qr[g] # None => phase[qr[g]] = "released"
    /\ pc[g] = "idle" /\ ~late[g] => storage[g] = None
    /\ group[g] = "done" => pc[g] = "idle"

\* A connection is held by the stored runner, or by one that is to be stored.
HeldKnown(g) ==
  "begin" \notin Faults /\ ~late[g] =>
    \A r \in Held : owner[r] = g => storage[g] = r \/ (Opening(g) /\ qr[g] = r)

\* Chains that run after the end of their group were running then.
LateChains(g) ==
  /\ group[g] \in {"waiting", "serving"} => ~late[g]
  /\ group[g] \in {"ending", "done", "threw"} /\ ~late[g] =>
       \A s \in SidesOf(g) : side[s] # "running"

\* anyItemProcessedFailed is what the results say.
FailedIsKnown(g) ==
  /\ results[g] \in Seq(Range(results[g]))
  /\ failed[g] <=> \E res \in Range(results[g]) : res.outcome # "ok"

GroupInv(g) ==
  /\ CallsOwn(g) /\ Untouched(g) /\ ExecutesServed(g) /\ SideRunners(g) /\ OneOpen(g)
  /\ EndedAsFailed(g) /\ EndingRunner(g) /\ HeldKnown(g) /\ LateChains(g)
  /\ FailedIsKnown(g)

\* The types the argument needs.
HandlerTypes ==
  /\ SideTypeOK
  /\ group \in [Ctx -> {"waiting", "serving", "ending", "done", "threw"}]
  /\ executing \in [Ctx -> BOOLEAN] /\ failed \in [Ctx -> BOOLEAN]
  /\ fastFail \in BOOLEAN /\ DOMAIN todo = Ctx /\ DOMAIN results = Ctx
  /\ awaited \in [Ctx -> SUBSET Child] /\ late \in [Ctx -> BOOLEAN]

UnusedClean ==
  \A r \in Runner : /\ phase[r] = "unused" => wrote[r] = {}
                    /\ phase[r] # "unused" => owner[r] # None

ReceivedWaits == batch = "received" => \A g \in Ctx : group[g] = "waiting"

BInv == /\ IInv /\ HandlerTypes /\ UnusedClean /\ ReceivedWaits
        /\ \A g \in Ctx : GroupInv(g)

----------------------------------------------------------------------------
(* A group leaves the others alone.                                        *)

WorksFor(t) == IF t \in Ctx THEN t ELSE ContextOf[t]

StoreStep(t, c) ==
  \/ Get(t, c) \/ \E fate \in Over : End(t, c, fate)
  \/ Write(t) \/ WriteThrows(t) \/ Answer(t) \/ OpenFails(t)

StoreUntouched(g) ==
  /\ storage'[g] = storage[g]
  /\ \A t \in SidesOf(g) \cup {g} :
       pc'[t] = pc[t] /\ ctx'[t] = ctx[t] /\ qr'[t] = qr[t]
  /\ \A r \in Runner : owner[r] = g =>
       /\ owner'[r] = g /\ phase'[r] = phase[r]
       /\ dbtx'[r] = dbtx[r] /\ txActive'[r] = txActive[r] /\ wrote'[r] = wrote[r]
  /\ \A r \in Runner : owner'[r] = g => owner[r] = g

BatchUntouched(g) ==
  /\ group'[g] = group[g] /\ executing'[g] = executing[g] /\ failed'[g] = failed[g]
  /\ todo'[g] = todo[g] /\ results'[g] = results[g] /\ fastFail' = fastFail
  /\ awaited'[g] = awaited[g] /\ late'[g] = late[g]
  /\ \A s \in SidesOf(g) : side'[s] = side[s]

\* The chains that work for a group are its function's, children and hooks.
LEMMA SidesApart ==
  ASSUME NEW g \in Ctx
  PROVE  /\ g \in Task /\ SidesOf(g) \subseteq Task \ Ctx
         /\ SidesOf(g) \subseteq Side /\ ChildrenOf(g) \subseteq SidesOf(g)
         /\ \A s \in SidesOf(g) : ContextOf[s] = g /\ WorksFor(s) = g /\ s # g
         /\ WorksFor(g) = g
  BY ChainAssumption DEF SidesOf, ChildrenOf, Side, WorksFor

\* The runner in a chain's hands, and the stored one, are the group's own.
LEMMA OwnRunners ==
  ASSUME BInv, NEW g \in Ctx
  PROVE  /\ \A t \in SidesOf(g) \cup {g} :
              qr[t] # None => owner[qr[t]] = g /\ qr[t] \in Runner /\ ctx[t] = g
         /\ storage[g] # None => owner[storage[g]] = g /\ storage[g] \in Runner
<1>1. \A t \in SidesOf(g) \cup {g} : t \in Task /\ ctx[t] \in {None, g}
  BY SidesApart DEF BInv, GroupInv, CallsOwn
<1>2. \A t \in Task : qr[t] # None => owner[qr[t]] = ctx[t] /\ ctx[t] # None
  BY DEF BInv, IInv, OpenersAlone, HandedShape
<1>3. storage[g] # None => owner[storage[g]] = g
  BY DEF BInv, IInv, StoredShape
<1> QED
  BY <1>1, <1>2, <1>3 DEF BInv, IInv, TypeOK

\* A chain's call on the store leaves the groups it does not work for alone.
LEMMA StoreFrame ==
  ASSUME BInv, NEW t \in Task, StoreStep(t, WorksFor(t)),
         NEW g \in Ctx, g # WorksFor(t)
  PROVE  StoreUntouched(g)
<1> DEFINE c == WorksFor(t)
<1>0. c \in Ctx /\ t \in SidesOf(c) \cup {c}
  BY ChainAssumption DEF WorksFor, SidesOf
<1>1. /\ c \in Ctx /\ c # g /\ t \notin SidesOf(g) \cup {g}
      /\ ctx[t] \in {None, c}
      /\ qr[t] # None => owner[qr[t]] = c /\ qr[t] \in Runner
      /\ storage[c] # None => owner[storage[c]] = c /\ storage[c] \in Runner
  <2>1. t \notin SidesOf(g) \cup {g}
    BY SidesApart
  <2> QED
    BY <1>0, <2>1, OwnRunners DEF BInv, GroupInv, CallsOwn
<1>2. SidesOf(g) \cup {g} \subseteq Task
  BY ChainAssumption DEF SidesOf
<1>3. /\ Opening(t) => qr[t] # None /\ ctx[t] # None
      /\ pc[t] \in {"ending", "releasing", "deleting"} => qr[t] # None /\ ctx[t] # None
  BY DEF BInv, IInv, OpenersAlone, EndersOver, HandedShape, Opening
<1> HIDE DEF c
<1> USE <1>1, <1>2, <1>3 DEF StoreUntouched, BInv, IInv, TypeOK
<1>4. CASE Get(t, c)
  BY <1>4, CtxAssumption DEF Get, GetHit, GetMiss, UnusedFresh
<1>5. ASSUME NEW fate \in Over, End(t, c, fate)
      PROVE  StoreUntouched(g)
  <2>1. CASE EndCall(t, c, fate)
    BY <2>1 DEF EndCall
  <2>2. CASE EndCallRefused(t, c, fate)
    BY <2>2 DEF EndCallRefused
  <2>3. CASE EndNotStarted(t, c) \/ EndReleased(t, c) \/ EndMiss(t, c)
    BY <2>3 DEF EndNotStarted, EndReleased, EndMiss
  <2> QED
    BY <1>5, <2>1, <2>2, <2>3 DEF End
<1>6. CASE Write(t) \/ WriteThrows(t)
  BY <1>6 DEF Write, WriteThrows
<1>7. CASE Answer(t) \/ OpenFails(t)
  BY <1>7 DEF Answer, Connect, Begin, EndAnswered, EndThrows, Release, Delete, OpenFails,
              Opening
<1> QED
  BY <1>4, <1>5, <1>6, <1>7 DEF StoreStep, c

\* What is left alone keeps its part of the invariant.
LEMMA FrameInv ==
  ASSUME BInv, NEW g \in Ctx, StoreUntouched(g), BatchUntouched(g)
  PROVE  GroupInv(g)'
<1>0. g \in Task /\ SidesOf(g) \subseteq Task
  BY SidesApart
<1>9. /\ \A t \in SidesOf(g) \cup {g} : qr[t] # None => owner[qr[t]] = g /\ qr[t] \in Runner
      /\ storage[g] # None => owner[storage[g]] = g /\ storage[g] \in Runner
  BY OwnRunners
<1>1. CallsOwn(g)'
  BY DEF BInv, GroupInv, CallsOwn, StoreUntouched
<1>2. Untouched(g)'
  <2>1. /\ group'[g] = group[g] /\ storage'[g] = storage[g] /\ pc'[g] = pc[g]
        /\ qr'[g] = qr[g] /\ \A s \in SidesOf(g) : side'[s] = side[s]
        /\ \A r \in Runner : owner'[r] = g => owner[r] = g /\ wrote'[r] = wrote[r]
    BY DEF StoreUntouched, BatchUntouched
  <2> QED
    BY <2>1 DEF BInv, GroupInv, Untouched, SidesOf
<1>3. ExecutesServed(g)'
  BY DEF BInv, GroupInv, ExecutesServed, Opening, Free, StoreUntouched, BatchUntouched
<1>11. SideRunners(g)'
  BY DEF BInv, GroupInv, SideRunners, Free, StoreUntouched, BatchUntouched
<1>4. OneOpen(g)'
  <2>1. ASSUME group[g] = "serving", storage[g] # None
        PROVE  dbtx'[storage[g]] = "open" /\ txActive'[storage[g]]
    BY <1>9, <2>1 DEF BInv, GroupInv, OneOpen, StoreUntouched
  <2>2. ASSUME group[g] = "serving", NEW r \in Runner, owner'[r] = g, wrote'[r] # {}
        PROVE  storage[g] = r /\ wrote'[r] = {"inside"}
    BY <2>2 DEF BInv, GroupInv, OneOpen, StoreUntouched
  <2>3. ASSUME group[g] = "serving", Free(g)
        PROVE  qr[g] \in {None, storage[g]}
    BY <2>3 DEF BInv, GroupInv, OneOpen
  <2>4. Free(g)' <=> Free(g)
    BY DEF StoreUntouched, Free
  <2> QED
    BY <2>1, <2>2, <2>3, <2>4 DEF OneOpen, StoreUntouched, BatchUntouched
<1>5. EndedAsFailed(g)'
  BY <1>9 DEF BInv, GroupInv, EndedAsFailed, StoreUntouched, BatchUntouched
<1>6. EndingRunner(g)'
  BY <1>9 DEF BInv, GroupInv, EndingRunner, Free, StoreUntouched, BatchUntouched
<1>7. HeldKnown(g)'
  BY DEF BInv, GroupInv, HeldKnown, Held, Opening, StoreUntouched, BatchUntouched
<1>10. LateChains(g)'
  BY DEF BInv, GroupInv, LateChains, BatchUntouched
<1>8. FailedIsKnown(g)'
  BY DEF BInv, GroupInv, FailedIsKnown, BatchUntouched
<1> QED
  BY <1>1, <1>2, <1>3, <1>4, <1>5, <1>6, <1>7, <1>8, <1>10, <1>11 DEF GroupInv

\* A side chain that is inside a call on the store runs, was running when its
\* group was ended, and the end of that is over.
LEMMA SideBusy ==
  ASSUME BInv, NEW g \in Ctx, NEW s \in SidesOf(g), ~Free(s)
  PROVE  /\ side[s] = "running" /\ late[g] /\ group[g] \in {"ending", "done", "threw"}
         /\ group[g] \in {"ending", "done"} => pc[g] \in {"idle", "threw"}
<1>1. side[s] = "running" /\ group[g] # "serving"
  BY DEF BInv, GroupInv, SideRunners
<1>2. group[g] # "waiting"
  BY <1>1 DEF BInv, GroupInv, Untouched
<1>3. group[g] \in {"ending", "done", "threw"}
  BY <1>1, <1>2 DEF BInv, HandlerTypes
<1>4. late[g]
  BY <1>1, <1>3 DEF BInv, GroupInv, LateChains
<1>5. ASSUME group[g] \in {"ending", "done"}
      PROVE  pc[g] \in {"idle", "threw"}
  BY <1>5 DEF BInv, GroupInv, EndingRunner, ExecutesServed, Free
<1> QED
  BY <1>1, <1>3, <1>4, <1>5

\* A running chain of a group that is not served was running at its end.
LEMMA SideRuns ==
  ASSUME BInv, NEW g \in Ctx, NEW s \in SidesOf(g), side[s] = "running"
  PROVE  group[g] = "serving" \/ (group[g] \in {"ending", "done", "threw"} /\ late[g])
  BY DEF BInv, GroupInv, Untouched, LateChains, HandlerTypes

----------------------------------------------------------------------------
(* The steps of a group's function, one by one.                            *)

\* What pushing a result does to the results.
LEMMA Appended ==
  ASSUME NEW s, s \in Seq(Range(s)), NEW x
  PROVE  /\ Append(s, x) \in Seq(Range(Append(s, x)))
         /\ Range(Append(s, x)) = Range(s) \cup {x}
<1>1. s \in Seq(Range(s) \cup {x})
  BY DEF Range
<1>2. Append(s, x) \in Seq(Range(s) \cup {x})
  BY <1>1
<1>3. /\ Len(Append(s, x)) = Len(s) + 1 /\ Len(s) \in Nat
      /\ DOMAIN s = 1..Len(s) /\ DOMAIN Append(s, x) = 1..(Len(s) + 1)
      /\ Append(s, x)[Len(s) + 1] = x
      /\ \A i \in 1..Len(s) : Append(s, x)[i] = s[i]
  BY <1>1, <1>2
<1>4. Range(Append(s, x)) = Range(s) \cup {x}
  BY <1>3 DEF Range
<1> QED
  BY <1>2, <1>4

\* A request is given to the services.
LEMMA StartRequestInv ==
  ASSUME BInv, NEW g \in Ctx, StartRequest(g)
  PROVE  GroupInv(g)'
<1>1. CallsOwn(g)'
  BY DEF BInv, GroupInv, HandlerTypes, CallsOwn, StartRequest, vars, chainVars
<1>2. Untouched(g)'
  BY DEF BInv, GroupInv, HandlerTypes, Untouched, StartRequest, vars, chainVars
<1>3. ExecutesServed(g)'
  BY DEF BInv, GroupInv, HandlerTypes, ExecutesServed, Opening, Free, StartRequest,
         vars, chainVars
<1>4. SideRunners(g)'
  BY DEF BInv, GroupInv, HandlerTypes, SideRunners, Free, StartRequest, vars, chainVars
<1>5. OneOpen(g)'
  BY DEF BInv, GroupInv, HandlerTypes, OneOpen, Free, StartRequest, vars, chainVars
<1>6. EndedAsFailed(g)'
  BY DEF BInv, GroupInv, HandlerTypes, EndedAsFailed, StartRequest, vars, chainVars
<1>7. EndingRunner(g)'
  BY DEF BInv, GroupInv, HandlerTypes, EndingRunner, Free, StartRequest, vars, chainVars
<1>8. HeldKnown(g)'
  BY DEF BInv, GroupInv, HeldKnown, Held, Opening, Free, StartRequest, vars, chainVars
<1>9. LateChains(g)'
  BY DEF BInv, GroupInv, HandlerTypes, LateChains, StartRequest, vars, chainVars
<1>10. FailedIsKnown(g)'
  BY DEF BInv, GroupInv, HandlerTypes, FailedIsKnown, StartRequest, vars, chainVars
<1> QED
  BY <1>1, <1>2, <1>3, <1>4, <1>5, <1>6, <1>7, <1>8, <1>9, <1>10 DEF GroupInv

\* A request is skipped.
LEMMA SkipRequestInv ==
  ASSUME BInv, NEW g \in Ctx, SkipRequest(g)
  PROVE  GroupInv(g)'
<1>21. /\ results'[g] \in Seq(Range(results'[g]))
       /\ Range(results'[g]) = Range(results[g]) \cup {[id |-> Head(todo[g]), outcome |-> "skipped"]}
  BY Appended DEF BInv, GroupInv, HandlerTypes, FailedIsKnown, SkipRequest, Push
<1>1. CallsOwn(g)'
  BY DEF BInv, GroupInv, CallsOwn, SkipRequest, vars, chainVars
<1>2. Untouched(g)'
  BY DEF BInv, GroupInv, Untouched, SkipRequest, vars, chainVars
<1>3. ExecutesServed(g)'
  BY DEF BInv, GroupInv, ExecutesServed, Opening, Free, SkipRequest, vars, chainVars
<1>4. SideRunners(g)'
  BY DEF BInv, GroupInv, SideRunners, Free, SkipRequest, vars, chainVars
<1>5. OneOpen(g)'
  BY DEF BInv, GroupInv, OneOpen, Free, SkipRequest, vars, chainVars
<1>6. EndedAsFailed(g)'
  BY DEF BInv, GroupInv, EndedAsFailed, SkipRequest, vars, chainVars
<1>7. EndingRunner(g)'
  BY DEF BInv, GroupInv, EndingRunner, Free, SkipRequest, vars, chainVars
<1>8. HeldKnown(g)'
  BY DEF BInv, GroupInv, HeldKnown, Held, Opening, Free, SkipRequest, vars, chainVars
<1>9. LateChains(g)'
  BY DEF BInv, GroupInv, LateChains, SkipRequest, vars, chainVars
<1>10. FailedIsKnown(g)'
  BY <1>21 DEF BInv, GroupInv, FailedIsKnown, SkipRequest, vars, chainVars
<1> QED
  BY <1>1, <1>2, <1>3, <1>4, <1>5, <1>6, <1>7, <1>8, <1>9, <1>10 DEF GroupInv

\* A service that finds the group's transaction.
LEMMA UseHitsInv ==
  ASSUME BInv, NEW g \in Ctx, InService(g), GetHit(g, g), UNCHANGED batchVars
  PROVE  GroupInv(g)'
<1>20. /\ g \in Task /\ SidesOf(g) \subseteq Task /\ SidesOf(g) \subseteq Side
       /\ \A u \in SidesOf(g) : u # g
  BY SidesApart
<1>1. CallsOwn(g)'
  BY <1>20
  DEF BInv, GroupInv, IInv, TypeOK, CallsOwn, InService, GetHit, batchVars, chainVars
<1>2. Untouched(g)'
  BY <1>20
  DEF BInv, GroupInv, IInv, TypeOK, Untouched, InService, GetHit, batchVars, chainVars
<1>3. ExecutesServed(g)'
  BY <1>20
  DEF BInv, GroupInv, IInv, TypeOK, ExecutesServed, Opening, Free, InService, GetHit,
      batchVars, chainVars
<1>4. SideRunners(g)'
  BY <1>20
  DEF BInv, GroupInv, IInv, TypeOK, SideRunners, Free, InService, GetHit, batchVars,
      chainVars
<1>5. OneOpen(g)'
  BY <1>20
  DEF BInv, GroupInv, IInv, TypeOK, OneOpen, Free, InService, GetHit, batchVars,
      chainVars
<1>6. EndedAsFailed(g)'
  BY <1>20
  DEF BInv, GroupInv, IInv, TypeOK, EndedAsFailed, ExecutesServed, InService, GetHit,
      batchVars, chainVars
<1>7. EndingRunner(g)'
  BY <1>20
  DEF BInv, GroupInv, IInv, TypeOK, EndingRunner, Free, ExecutesServed, InService,
      GetHit, batchVars, chainVars
<1>8. HeldKnown(g)'
  BY <1>20
  DEF BInv, GroupInv, HeldKnown, Held, Opening, Free, InService, GetHit, batchVars,
      chainVars
<1>9. LateChains(g)'
  BY <1>20
  DEF BInv, GroupInv, IInv, TypeOK, LateChains, InService, GetHit, batchVars, chainVars
<1>10. FailedIsKnown(g)'
  BY <1>20
  DEF BInv, GroupInv, IInv, TypeOK, FailedIsKnown, InService, GetHit, batchVars,
      chainVars
<1> QED
  BY <1>1, <1>2, <1>3, <1>4, <1>5, <1>6, <1>7, <1>8, <1>9, <1>10 DEF GroupInv

\* A service that opens the group's transaction.
LEMMA UseMissesInv ==
  ASSUME BInv, NEW g \in Ctx, InService(g), GetMiss(g, g), UNCHANGED batchVars
  PROVE  GroupInv(g)'
<1>20. /\ g \in Task /\ SidesOf(g) \subseteq Task /\ SidesOf(g) \subseteq Side
       /\ \A u \in SidesOf(g) : u # g
  BY SidesApart
<1>1. CallsOwn(g)'
  BY <1>20
  DEF BInv, GroupInv, IInv, TypeOK, CallsOwn, InService, GetMiss, batchVars, chainVars
<1>2. Untouched(g)'
  BY <1>20
  DEF BInv, GroupInv, IInv, TypeOK, Untouched, ExecutesServed, InService, GetMiss,
      batchVars, chainVars
<1>3. ExecutesServed(g)'
  BY <1>20
  DEF BInv, GroupInv, IInv, TypeOK, ExecutesServed, Opening, Free, InService, GetMiss,
      batchVars, chainVars
<1>4. SideRunners(g)'
  BY <1>20
  DEF BInv, GroupInv, IInv, TypeOK, SideRunners, Free, InService, GetMiss, batchVars,
      chainVars
<1>5. OneOpen(g)'
  BY <1>20
  DEF BInv, GroupInv, IInv, TypeOK, OneOpen, Free, UnusedClean, ExecutesServed,
      InService, GetMiss, batchVars, chainVars
<1>6. EndedAsFailed(g)'
  BY <1>20
  DEF BInv, GroupInv, IInv, TypeOK, EndedAsFailed, ExecutesServed, InService, GetMiss,
      batchVars, chainVars
<1>7. EndingRunner(g)'
  BY <1>20
  DEF BInv, GroupInv, IInv, TypeOK, EndingRunner, Free, ExecutesServed, InService,
      GetMiss, batchVars, chainVars
<1>8. HeldKnown(g)'
  BY <1>20
  DEF BInv, GroupInv, HeldKnown, Held, Opening, Free, InService, GetMiss, batchVars,
      chainVars
<1>9. LateChains(g)'
  BY <1>20
  DEF BInv, GroupInv, IInv, TypeOK, LateChains, InService, GetMiss, batchVars, chainVars
<1>10. FailedIsKnown(g)'
  BY <1>20
  DEF BInv, GroupInv, IInv, TypeOK, FailedIsKnown, InService, GetMiss, batchVars,
      chainVars
<1> QED
  BY <1>1, <1>2, <1>3, <1>4, <1>5, <1>6, <1>7, <1>8, <1>9, <1>10 DEF GroupInv

\* A statement of a service.
LEMMA RunStatementInv ==
  ASSUME BInv, NEW g \in Ctx, RunStatement(g)
  PROVE  GroupInv(g)'
<1>20. /\ g \in Task /\ SidesOf(g) \subseteq Task /\ SidesOf(g) \subseteq Side
       /\ \A u \in SidesOf(g) : u # g
  BY SidesApart
<1>1. CallsOwn(g)'
  BY <1>20
  DEF BInv, GroupInv, IInv, TypeOK, CallsOwn, InService, RunStatement, Write, batchVars,
      chainVars
<1>2. Untouched(g)'
  BY <1>20
  DEF BInv, GroupInv, IInv, TypeOK, Untouched, ExecutesServed, InService, RunStatement,
      Write, batchVars, chainVars
<1>3. ExecutesServed(g)'
  BY <1>20
  DEF BInv, GroupInv, IInv, TypeOK, ExecutesServed, Opening, Free, InService,
      RunStatement, Write, batchVars, chainVars
<1>4. SideRunners(g)'
  BY <1>20
  DEF BInv, GroupInv, IInv, TypeOK, SideRunners, Free, InService, RunStatement, Write,
      batchVars, chainVars
<1>5. OneOpen(g)'
  BY <1>20
  DEF BInv, GroupInv, IInv, TypeOK, OneOpen, Free, InService, RunStatement, Write,
      batchVars, chainVars
<1>6. EndedAsFailed(g)'
  BY <1>20
  DEF BInv, GroupInv, IInv, TypeOK, EndedAsFailed, ExecutesServed, InService,
      RunStatement, Write, batchVars, chainVars
<1>7. EndingRunner(g)'
  BY <1>20
  DEF BInv, GroupInv, IInv, TypeOK, EndingRunner, Free, ExecutesServed, InService,
      RunStatement, Write, batchVars, chainVars
<1>8. HeldKnown(g)'
  BY <1>20
  DEF BInv, GroupInv, HeldKnown, Held, Opening, Free, InService, RunStatement, Write,
      batchVars, chainVars
<1>9. LateChains(g)'
  BY <1>20
  DEF BInv, GroupInv, IInv, TypeOK, LateChains, InService, RunStatement, Write,
      batchVars, chainVars
<1>10. FailedIsKnown(g)'
  BY <1>20
  DEF BInv, GroupInv, IInv, TypeOK, FailedIsKnown, InService, RunStatement, Write,
      batchVars, chainVars
<1> QED
  BY <1>1, <1>2, <1>3, <1>4, <1>5, <1>6, <1>7, <1>8, <1>9, <1>10 DEF GroupInv

\* Some children start.
LEMMA InsertChildrenInv ==
  ASSUME BInv, NEW g \in Ctx, InsertChildren(g)
  PROVE  GroupInv(g)'
<1>20. /\ g \in Task /\ SidesOf(g) \subseteq Task /\ SidesOf(g) \subseteq Side
       /\ \A u \in SidesOf(g) : u # g
  BY SidesApart
<1>1. CallsOwn(g)'
  BY <1>20
  DEF BInv, GroupInv, HandlerTypes, SideTypeOK, CallsOwn, InService, HasWritten,
      InsertChildren, StartChains, vars
<1>2. Untouched(g)'
  BY <1>20
  DEF BInv, GroupInv, HandlerTypes, SideTypeOK, Untouched, ExecutesServed, InService,
      HasWritten, InsertChildren, StartChains, vars
<1>3. ExecutesServed(g)'
  BY <1>20
  DEF BInv, GroupInv, HandlerTypes, SideTypeOK, ExecutesServed, Opening, Free,
      InService, HasWritten, InsertChildren, StartChains, vars
<1>4. SideRunners(g)'
  BY <1>20, OwnRunners
  DEF BInv, GroupInv, HandlerTypes, SideTypeOK, SideRunners, Free, OneOpen, InService,
      HasWritten, InsertChildren, StartChains, vars
<1>5. OneOpen(g)'
  BY <1>20
  DEF BInv, GroupInv, HandlerTypes, SideTypeOK, OneOpen, Free, InService, HasWritten,
      InsertChildren, StartChains, vars
<1>6. EndedAsFailed(g)'
  BY <1>20
  DEF BInv, GroupInv, HandlerTypes, SideTypeOK, EndedAsFailed, InService, HasWritten,
      InsertChildren, StartChains, vars
<1>7. EndingRunner(g)'
  BY <1>20
  DEF BInv, GroupInv, HandlerTypes, SideTypeOK, EndingRunner, Free, ExecutesServed,
      InService, HasWritten, InsertChildren, StartChains, vars
<1>8. HeldKnown(g)'
  BY <1>20
  DEF BInv, GroupInv, HeldKnown, Held, Opening, Free, InService, HasWritten,
      InsertChildren, StartChains, vars
<1>9. LateChains(g)'
  BY <1>20
  DEF BInv, GroupInv, HandlerTypes, SideTypeOK, LateChains, ExecutesServed, InService,
      HasWritten, InsertChildren, StartChains, vars
<1>10. FailedIsKnown(g)'
  BY <1>20
  DEF BInv, GroupInv, HandlerTypes, SideTypeOK, FailedIsKnown, InService, HasWritten,
      InsertChildren, StartChains, vars
<1> QED
  BY <1>1, <1>2, <1>3, <1>4, <1>5, <1>6, <1>7, <1>8, <1>9, <1>10 DEF GroupInv

\* The children that are awaited have returned.
LEMMA JoinInv ==
  ASSUME BInv, NEW g \in Ctx, Join(g)
  PROVE  GroupInv(g)'
<1>1. CallsOwn(g)'
  BY DEF BInv, GroupInv, HandlerTypes, CallsOwn, Join, vars
<1>2. Untouched(g)'
  BY DEF BInv, GroupInv, HandlerTypes, Untouched, Join, vars
<1>3. ExecutesServed(g)'
  BY DEF BInv, GroupInv, HandlerTypes, ExecutesServed, Opening, Free, Join, vars
<1>4. SideRunners(g)'
  BY DEF BInv, GroupInv, HandlerTypes, SideRunners, Free, Join, vars
<1>5. OneOpen(g)'
  BY DEF BInv, GroupInv, HandlerTypes, OneOpen, Free, Join, vars
<1>6. EndedAsFailed(g)'
  BY DEF BInv, GroupInv, HandlerTypes, EndedAsFailed, Join, vars
<1>7. EndingRunner(g)'
  BY DEF BInv, GroupInv, HandlerTypes, EndingRunner, Free, Join, vars
<1>8. HeldKnown(g)'
  BY DEF BInv, GroupInv, HeldKnown, Held, Opening, Free, Join, vars
<1>9. LateChains(g)'
  BY DEF BInv, GroupInv, HandlerTypes, LateChains, Join, vars
<1>10. FailedIsKnown(g)'
  BY DEF BInv, GroupInv, HandlerTypes, FailedIsKnown, Join, vars
<1> QED
  BY <1>1, <1>2, <1>3, <1>4, <1>5, <1>6, <1>7, <1>8, <1>9, <1>10 DEF GroupInv

\* A hook starts.
LEMMA TriggerEventInv ==
  ASSUME BInv, NEW g \in Ctx, NEW s \in Event, TriggerEvent(g, s)
  PROVE  GroupInv(g)'
<1>20. /\ g \in Task /\ SidesOf(g) \subseteq Task /\ SidesOf(g) \subseteq Side
       /\ \A u \in SidesOf(g) : u # g
  BY SidesApart
<1>1. CallsOwn(g)'
  BY <1>20
  DEF BInv, GroupInv, HandlerTypes, SideTypeOK, CallsOwn, InService, HasWritten,
      TriggerEvent, StartChains, vars
<1>2. Untouched(g)'
  BY <1>20
  DEF BInv, GroupInv, HandlerTypes, SideTypeOK, Untouched, ExecutesServed, InService,
      HasWritten, TriggerEvent, StartChains, vars
<1>3. ExecutesServed(g)'
  BY <1>20
  DEF BInv, GroupInv, HandlerTypes, SideTypeOK, ExecutesServed, Opening, Free,
      InService, HasWritten, TriggerEvent, StartChains, vars
<1>4. SideRunners(g)'
  BY <1>20, OwnRunners
  DEF BInv, GroupInv, HandlerTypes, SideTypeOK, SideRunners, Free, OneOpen, InService,
      HasWritten, TriggerEvent, StartChains, vars
<1>5. OneOpen(g)'
  BY <1>20
  DEF BInv, GroupInv, HandlerTypes, SideTypeOK, OneOpen, Free, InService, HasWritten,
      TriggerEvent, StartChains, vars
<1>6. EndedAsFailed(g)'
  BY <1>20
  DEF BInv, GroupInv, HandlerTypes, SideTypeOK, EndedAsFailed, InService, HasWritten,
      TriggerEvent, StartChains, vars
<1>7. EndingRunner(g)'
  BY <1>20
  DEF BInv, GroupInv, HandlerTypes, SideTypeOK, EndingRunner, Free, ExecutesServed,
      InService, HasWritten, TriggerEvent, StartChains, vars
<1>8. HeldKnown(g)'
  BY <1>20
  DEF BInv, GroupInv, HeldKnown, Held, Opening, Free, InService, HasWritten,
      TriggerEvent, StartChains, vars
<1>9. LateChains(g)'
  BY <1>20
  DEF BInv, GroupInv, HandlerTypes, SideTypeOK, LateChains, ExecutesServed, InService,
      HasWritten, TriggerEvent, StartChains, vars
<1>10. FailedIsKnown(g)'
  BY <1>20
  DEF BInv, GroupInv, HandlerTypes, SideTypeOK, FailedIsKnown, InService, HasWritten,
      TriggerEvent, StartChains, vars
<1> QED
  BY <1>1, <1>2, <1>3, <1>4, <1>5, <1>6, <1>7, <1>8, <1>9, <1>10 DEF GroupInv

\* A request succeeds.
LEMMA RequestSucceedsInv ==
  ASSUME BInv, NEW g \in Ctx, RequestSucceeds(g)
  PROVE  GroupInv(g)'
<1>21. /\ results'[g] \in Seq(Range(results'[g]))
       /\ Range(results'[g]) = Range(results[g]) \cup {[id |-> Head(todo[g]), outcome |-> "ok"]}
  BY Appended DEF BInv, GroupInv, HandlerTypes, FailedIsKnown, RequestSucceeds, Push
<1>1. CallsOwn(g)'
  BY DEF BInv, GroupInv, HandlerTypes, CallsOwn, InService, RequestSucceeds, vars,
         chainVars
<1>2. Untouched(g)'
  BY DEF BInv, GroupInv, HandlerTypes, Untouched, InService, RequestSucceeds, vars,
         chainVars
<1>3. ExecutesServed(g)'
  BY DEF BInv, GroupInv, HandlerTypes, ExecutesServed, Opening, Free, InService,
         RequestSucceeds, vars, chainVars
<1>4. SideRunners(g)'
  BY DEF BInv, GroupInv, HandlerTypes, SideRunners, Free, InService, RequestSucceeds,
         vars, chainVars
<1>5. OneOpen(g)'
  BY DEF BInv, GroupInv, HandlerTypes, OneOpen, Free, InService, RequestSucceeds, vars,
         chainVars
<1>6. EndedAsFailed(g)'
  BY DEF BInv, GroupInv, HandlerTypes, EndedAsFailed, InService, RequestSucceeds, vars,
         chainVars
<1>7. EndingRunner(g)'
  BY DEF BInv, GroupInv, HandlerTypes, EndingRunner, Free, InService, RequestSucceeds,
         vars, chainVars
<1>8. HeldKnown(g)'
  BY DEF BInv, GroupInv, HeldKnown, Held, Opening, Free, InService, RequestSucceeds,
         vars, chainVars
<1>9. LateChains(g)'
  BY DEF BInv, GroupInv, HandlerTypes, LateChains, InService, RequestSucceeds, vars,
         chainVars
<1>10. FailedIsKnown(g)'
  BY <1>21
  DEF BInv, GroupInv, HandlerTypes, FailedIsKnown, InService, RequestSucceeds, vars,
      chainVars
<1> QED
  BY <1>1, <1>2, <1>3, <1>4, <1>5, <1>6, <1>7, <1>8, <1>9, <1>10 DEF GroupInv

\* A request fails; chains it started may go on.
LEMMA RequestFailsInv ==
  ASSUME BInv, NEW g \in Ctx, RequestFails(g)
  PROVE  GroupInv(g)'
<1>20. /\ g \in Task /\ SidesOf(g) \subseteq Task /\ SidesOf(g) \subseteq Side
       /\ \A u \in SidesOf(g) : u # g
  BY SidesApart
<1>21. /\ results'[g] \in Seq(Range(results'[g]))
       /\ Range(results'[g]) = Range(results[g]) \cup {[id |-> Head(todo[g]), outcome |-> "error"]}
  BY Appended DEF BInv, GroupInv, HandlerTypes, FailedIsKnown, RequestFails, Push
<1>22. Free(g)
  BY DEF BInv, GroupInv, ExecutesServed, RequestFails, Rejects, Free
<1>1. CallsOwn(g)'
  BY <1>20, <1>22 DEF BInv, GroupInv, IInv, TypeOK, HandlerTypes, CallsOwn, RequestFails
<1>2. Untouched(g)'
  BY <1>20, <1>22
  DEF BInv, GroupInv, IInv, TypeOK, HandlerTypes, Untouched, ExecutesServed,
      RequestFails
<1>3. ExecutesServed(g)'
  BY <1>20, <1>22
  DEF BInv, GroupInv, IInv, TypeOK, HandlerTypes, ExecutesServed, Opening, Free,
      RequestFails
<1>4. SideRunners(g)'
  BY <1>20, <1>22
  DEF BInv, GroupInv, IInv, TypeOK, HandlerTypes, SideRunners, Free, RequestFails
<1>5. OneOpen(g)'
  BY <1>20, <1>22
  DEF BInv, GroupInv, IInv, TypeOK, HandlerTypes, OneOpen, Free, RequestFails
<1>6. EndedAsFailed(g)'
  BY <1>20, <1>22
  DEF BInv, GroupInv, IInv, TypeOK, HandlerTypes, EndedAsFailed, ExecutesServed,
      RequestFails
<1>7. EndingRunner(g)'
  BY <1>20, <1>22
  DEF BInv, GroupInv, IInv, TypeOK, HandlerTypes, EndingRunner, Free, ExecutesServed,
      RequestFails
<1>8. HeldKnown(g)'
  BY <1>20, <1>22 DEF BInv, GroupInv, HeldKnown, Held, Opening, Free, RequestFails
<1>9. LateChains(g)'
  BY <1>20, <1>22
  DEF BInv, GroupInv, IInv, TypeOK, HandlerTypes, LateChains, RequestFails
<1>10. FailedIsKnown(g)'
  BY <1>20, <1>22, <1>21
  DEF BInv, GroupInv, IInv, TypeOK, HandlerTypes, FailedIsKnown, Push, RequestFails
<1> QED
  BY <1>1, <1>2, <1>3, <1>4, <1>5, <1>6, <1>7, <1>8, <1>9, <1>10 DEF GroupInv

\* The function ends the group's transaction.
LEMMA EndGroupInv ==
  ASSUME BInv, NEW g \in Ctx, EndGroup(g)
  PROVE  GroupInv(g)'
<1>20. /\ g \in Task /\ SidesOf(g) \subseteq Task /\ SidesOf(g) \subseteq Side
       /\ \A u \in SidesOf(g) : u # g
  BY SidesApart
<1>21. storage[g] # None =>
         /\ owner[storage[g]] = g /\ storage[g] \in Runner
         /\ dbtx[storage[g]] = "open" /\ txActive[storage[g]]
         /\ phase[storage[g]] # "released"
  BY OwnRunners DEF EndGroup, BInv, GroupInv, IInv, OneOpen, ReleasedIsOver, Over
<1>22. ~executing[g] /\ pc[g] = "idle" /\ awaited[g] = {} /\ qr[g] \in {None, storage[g]}
  BY DEF BInv, GroupInv, ExecutesServed, OneOpen, Free, EndGroup
<1>1. CallsOwn(g)'
  BY <1>20, <1>21, <1>22
  DEF BInv, GroupInv, IInv, TypeOK, HandlerTypes, CallsOwn, EndGroup, End, EndCall,
      EndCallRefused, EndNotStarted, EndReleased, EndMiss
<1>2. Untouched(g)'
  BY <1>20, <1>21, <1>22
  DEF BInv, GroupInv, IInv, TypeOK, HandlerTypes, Untouched, EndGroup, End, EndCall,
      EndCallRefused, EndNotStarted, EndReleased, EndMiss
<1>3. ExecutesServed(g)'
  BY <1>20, <1>21, <1>22
  DEF BInv, GroupInv, IInv, TypeOK, HandlerTypes, ExecutesServed, Opening, Free,
      EndGroup, End, EndCall, EndCallRefused, EndNotStarted, EndReleased, EndMiss
<1>4. SideRunners(g)'
  BY <1>20, <1>21, <1>22
  DEF BInv, GroupInv, IInv, TypeOK, HandlerTypes, SideRunners, Free, EndGroup, End,
      EndCall, EndCallRefused, EndNotStarted, EndReleased, EndMiss
<1>5. OneOpen(g)'
  BY <1>20, <1>21, <1>22
  DEF BInv, GroupInv, IInv, TypeOK, HandlerTypes, OneOpen, Free, EndGroup, End, EndCall,
      EndCallRefused, EndNotStarted, EndReleased, EndMiss
<1>6. EndedAsFailed(g)'
  BY <1>20, <1>21, <1>22, RunnerAssumption
  DEF BInv, GroupInv, IInv, TypeOK, HandlerTypes, EndedAsFailed, OneOpen, EndGroup, End,
      EndCall, EndCallRefused, EndNotStarted, EndReleased, EndMiss
<1>7. EndingRunner(g)'
  BY <1>20, <1>21, <1>22, RunnerAssumption
  DEF BInv, GroupInv, IInv, TypeOK, HandlerTypes, EndingRunner, Free, SideRunners,
      EndGroup, End, EndCall, EndCallRefused, EndNotStarted, EndReleased, EndMiss
<1>8. HeldKnown(g)'
  BY <1>20, <1>21, <1>22
  DEF BInv, GroupInv, HeldKnown, Held, Opening, Free, LateChains, EndGroup, End,
      EndCall, EndCallRefused, EndNotStarted, EndReleased, EndMiss
<1>9. LateChains(g)'
  BY <1>20, <1>21, <1>22
  DEF BInv, GroupInv, IInv, TypeOK, HandlerTypes, LateChains, EndGroup, End, EndCall,
      EndCallRefused, EndNotStarted, EndReleased, EndMiss
<1>10. FailedIsKnown(g)'
  BY <1>20, <1>21, <1>22
  DEF BInv, GroupInv, IInv, TypeOK, HandlerTypes, FailedIsKnown, EndGroup, End, EndCall,
      EndCallRefused, EndNotStarted, EndReleased, EndMiss
<1> QED
  BY <1>1, <1>2, <1>3, <1>4, <1>5, <1>6, <1>7, <1>8, <1>9, <1>10 DEF GroupInv

\* The function returns, or throws.
LEMMA GroupReturnsInv ==
  ASSUME BInv, NEW g \in Ctx, GroupReturns(g)
  PROVE  GroupInv(g)'
<1>1. CallsOwn(g)'
  BY DEF BInv, GroupInv, HandlerTypes, CallsOwn, GroupReturns, vars, chainVars
<1>2. Untouched(g)'
  BY DEF BInv, GroupInv, HandlerTypes, Untouched, GroupReturns, vars, chainVars
<1>3. ExecutesServed(g)'
  BY DEF BInv, GroupInv, HandlerTypes, ExecutesServed, Opening, Free, GroupReturns,
         vars, chainVars
<1>4. SideRunners(g)'
  BY DEF BInv, GroupInv, HandlerTypes, SideRunners, Free, GroupReturns, vars, chainVars
<1>5. OneOpen(g)'
  BY DEF BInv, GroupInv, HandlerTypes, OneOpen, Free, GroupReturns, vars, chainVars
<1>6. EndedAsFailed(g)'
  BY DEF BInv, GroupInv, HandlerTypes, EndedAsFailed, GroupReturns, vars, chainVars
<1>7. EndingRunner(g)'
  BY DEF BInv, GroupInv, HandlerTypes, EndingRunner, Free, GroupReturns, vars, chainVars
<1>8. HeldKnown(g)'
  BY DEF BInv, GroupInv, HeldKnown, Held, Opening, Free, GroupReturns, vars, chainVars
<1>9. LateChains(g)'
  BY DEF BInv, GroupInv, HandlerTypes, LateChains, GroupReturns, vars, chainVars
<1>10. FailedIsKnown(g)'
  BY DEF BInv, GroupInv, HandlerTypes, FailedIsKnown, GroupReturns, vars, chainVars
<1> QED
  BY <1>1, <1>2, <1>3, <1>4, <1>5, <1>6, <1>7, <1>8, <1>9, <1>10 DEF GroupInv

\* connect() that is answered.
LEMMA ConnectOwnInv ==
  ASSUME BInv, NEW g \in Ctx, Connect(g), UNCHANGED batchVars
  PROVE  GroupInv(g)'
<1>20. /\ g \in Task /\ SidesOf(g) \subseteq Task /\ SidesOf(g) \subseteq Side
       /\ \A u \in SidesOf(g) : u # g
  BY SidesApart
<1>1. CallsOwn(g)'
  BY <1>20 DEF BInv, GroupInv, IInv, TypeOK, CallsOwn, Connect, batchVars, chainVars
<1>2. Untouched(g)'
  BY <1>20 DEF BInv, GroupInv, IInv, TypeOK, Untouched, Connect, batchVars, chainVars
<1>3. ExecutesServed(g)'
  BY <1>20
  DEF BInv, GroupInv, IInv, TypeOK, ExecutesServed, Opening, Free, Connect, batchVars,
      chainVars
<1>4. SideRunners(g)'
  BY <1>20
  DEF BInv, GroupInv, IInv, TypeOK, SideRunners, Free, Connect, batchVars, chainVars
<1>5. OneOpen(g)'
  BY <1>20
  DEF BInv, GroupInv, IInv, TypeOK, OneOpen, Free, Connect, batchVars, chainVars
<1>6. EndedAsFailed(g)'
  BY <1>20
  DEF BInv, GroupInv, IInv, TypeOK, EndedAsFailed, ExecutesServed, Connect, batchVars,
      chainVars
<1>7. EndingRunner(g)'
  BY <1>20
  DEF BInv, GroupInv, IInv, TypeOK, EndingRunner, Free, ExecutesServed, Connect,
      batchVars, chainVars
<1>8. HeldKnown(g)'
  BY <1>20
  DEF BInv, GroupInv, HeldKnown, Held, Opening, Free, Connect, batchVars, chainVars
<1>9. LateChains(g)'
  BY <1>20 DEF BInv, GroupInv, IInv, TypeOK, LateChains, Connect, batchVars, chainVars
<1>10. FailedIsKnown(g)'
  BY <1>20
  DEF BInv, GroupInv, IInv, TypeOK, FailedIsKnown, Connect, batchVars, chainVars
<1> QED
  BY <1>1, <1>2, <1>3, <1>4, <1>5, <1>6, <1>7, <1>8, <1>9, <1>10 DEF GroupInv

\* startTransaction() that is answered.
LEMMA BeginOwnInv ==
  ASSUME BInv, NEW g \in Ctx, Begin(g), UNCHANGED batchVars
  PROVE  GroupInv(g)'
<1>20. /\ g \in Task /\ SidesOf(g) \subseteq Task /\ SidesOf(g) \subseteq Side
       /\ \A u \in SidesOf(g) : u # g
  BY SidesApart
<1>21. ctx[g] = g /\ qr[g] \in Runner /\ owner[qr[g]] = g /\ storage[g] = None
       /\ group[g] = "serving" /\ \A s \in SidesOf(g) : qr[s] # qr[g]
  <2>1. qr[g] # None /\ \A s \in SidesOf(g) : qr[s] # qr[g]
    BY <1>20 DEF BInv, IInv, OpenersAlone, Opening, Begin
  <2> QED
    BY <2>1, OwnRunners DEF BInv, GroupInv, ExecutesServed, Opening, Begin
<1>1. CallsOwn(g)'
  BY <1>20, <1>21
  DEF BInv, GroupInv, IInv, TypeOK, CallsOwn, Begin, batchVars, chainVars
<1>2. Untouched(g)'
  BY <1>20, <1>21
  DEF BInv, GroupInv, IInv, TypeOK, Untouched, Begin, batchVars, chainVars
<1>3. ExecutesServed(g)'
  BY <1>20, <1>21
  DEF BInv, GroupInv, IInv, TypeOK, ExecutesServed, Opening, Free, Begin, batchVars,
      chainVars
<1>4. SideRunners(g)'
  BY <1>20, <1>21, RunnerAssumption
  DEF BInv, GroupInv, IInv, TypeOK, SideRunners, Free, Begin, batchVars, chainVars
<1>5. OneOpen(g)'
  BY <1>20, <1>21, RunnerAssumption
  DEF BInv, GroupInv, IInv, TypeOK, OneOpen, Free, OpenersAlone, Opening, Begin,
      batchVars, chainVars
<1>6. EndedAsFailed(g)'
  BY <1>20, <1>21
  DEF BInv, GroupInv, IInv, TypeOK, EndedAsFailed, Begin, batchVars, chainVars
<1>7. EndingRunner(g)'
  BY <1>20, <1>21
  DEF BInv, GroupInv, IInv, TypeOK, EndingRunner, Free, Begin, batchVars, chainVars
<1>8. HeldKnown(g)'
  BY <1>20, <1>21, RunnerAssumption
  DEF BInv, GroupInv, IInv, TypeOK, HeldKnown, Held, Opening, Free, Begin, batchVars,
      chainVars
<1>9. LateChains(g)'
  BY <1>20, <1>21
  DEF BInv, GroupInv, IInv, TypeOK, LateChains, Begin, batchVars, chainVars
<1>10. FailedIsKnown(g)'
  BY <1>20, <1>21
  DEF BInv, GroupInv, IInv, TypeOK, FailedIsKnown, Begin, batchVars, chainVars
<1> QED
  BY <1>1, <1>2, <1>3, <1>4, <1>5, <1>6, <1>7, <1>8, <1>9, <1>10 DEF GroupInv

\* connect() or startTransaction() that rejects.
LEMMA OpenFailsOwnInv ==
  ASSUME BInv, NEW g \in Ctx, OpenFails(g), UNCHANGED batchVars
  PROVE  GroupInv(g)'
<1>20. /\ g \in Task /\ SidesOf(g) \subseteq Task /\ SidesOf(g) \subseteq Side
       /\ \A u \in SidesOf(g) : u # g
  BY SidesApart
<1>1. CallsOwn(g)'
  BY <1>20 DEF BInv, GroupInv, IInv, TypeOK, CallsOwn, OpenFails, batchVars, chainVars
<1>2. Untouched(g)'
  BY <1>20 DEF BInv, GroupInv, IInv, TypeOK, Untouched, OpenFails, batchVars, chainVars
<1>3. ExecutesServed(g)'
  BY <1>20
  DEF BInv, GroupInv, IInv, TypeOK, ExecutesServed, Opening, Free, OpenFails, batchVars,
      chainVars
<1>4. SideRunners(g)'
  BY <1>20
  DEF BInv, GroupInv, IInv, TypeOK, SideRunners, Free, OpenFails, batchVars, chainVars
<1>5. OneOpen(g)'
  BY <1>20
  DEF BInv, GroupInv, IInv, TypeOK, OneOpen, Free, OpenFails, batchVars, chainVars
<1>6. EndedAsFailed(g)'
  BY <1>20
  DEF BInv, GroupInv, IInv, TypeOK, EndedAsFailed, ExecutesServed, Opening, OpenFails,
      batchVars, chainVars
<1>7. EndingRunner(g)'
  BY <1>20
  DEF BInv, GroupInv, IInv, TypeOK, EndingRunner, Free, ExecutesServed, OpenFails,
      batchVars, chainVars
<1>8. HeldKnown(g)'
  BY <1>20
  DEF BInv, GroupInv, IInv, TypeOK, HeldKnown, Held, Opening, Free, OpenersAlone,
      OpenFails, batchVars, chainVars
<1>9. LateChains(g)'
  BY <1>20 DEF BInv, GroupInv, IInv, TypeOK, LateChains, OpenFails, batchVars, chainVars
<1>10. FailedIsKnown(g)'
  BY <1>20
  DEF BInv, GroupInv, IInv, TypeOK, FailedIsKnown, OpenFails, batchVars, chainVars
<1> QED
  BY <1>1, <1>2, <1>3, <1>4, <1>5, <1>6, <1>7, <1>8, <1>9, <1>10 DEF GroupInv

\* COMMIT or ROLLBACK that is answered.
LEMMA EndAnsweredOwnInv ==
  ASSUME BInv, NEW g \in Ctx, EndAnswered(g), UNCHANGED batchVars
  PROVE  GroupInv(g)'
<1>20. /\ g \in Task /\ SidesOf(g) \subseteq Task /\ SidesOf(g) \subseteq Side
       /\ \A u \in SidesOf(g) : u # g
  BY SidesApart
<1>1. CallsOwn(g)'
  BY <1>20 DEF BInv, GroupInv, IInv, TypeOK, CallsOwn, EndAnswered, batchVars, chainVars
<1>2. Untouched(g)'
  BY <1>20
  DEF BInv, GroupInv, IInv, TypeOK, Untouched, EndAnswered, batchVars, chainVars
<1>3. ExecutesServed(g)'
  BY <1>20
  DEF BInv, GroupInv, IInv, TypeOK, ExecutesServed, Opening, Free, EndAnswered,
      batchVars, chainVars
<1>4. SideRunners(g)'
  BY <1>20
  DEF BInv, GroupInv, IInv, TypeOK, SideRunners, Free, EndAnswered, batchVars, chainVars
<1>5. OneOpen(g)'
  BY <1>20
  DEF BInv, GroupInv, IInv, TypeOK, OneOpen, Free, ExecutesServed, EndAnswered,
      batchVars, chainVars
<1>6. EndedAsFailed(g)'
  BY <1>20
  DEF BInv, GroupInv, IInv, TypeOK, EndedAsFailed, EndAnswered, batchVars, chainVars
<1>7. EndingRunner(g)'
  BY <1>20
  DEF BInv, GroupInv, IInv, TypeOK, EndingRunner, Free, EndAnswered, batchVars,
      chainVars
<1>8. HeldKnown(g)'
  BY <1>20
  DEF BInv, GroupInv, HeldKnown, Held, Opening, Free, EndAnswered, batchVars, chainVars
<1>9. LateChains(g)'
  BY <1>20
  DEF BInv, GroupInv, IInv, TypeOK, LateChains, EndAnswered, batchVars, chainVars
<1>10. FailedIsKnown(g)'
  BY <1>20
  DEF BInv, GroupInv, IInv, TypeOK, FailedIsKnown, EndAnswered, batchVars, chainVars
<1> QED
  BY <1>1, <1>2, <1>3, <1>4, <1>5, <1>6, <1>7, <1>8, <1>9, <1>10 DEF GroupInv

\* COMMIT or ROLLBACK that is refused.
LEMMA EndThrowsOwnInv ==
  ASSUME BInv, NEW g \in Ctx, EndThrows(g), UNCHANGED batchVars
  PROVE  GroupInv(g)'
<1>20. /\ g \in Task /\ SidesOf(g) \subseteq Task /\ SidesOf(g) \subseteq Side
       /\ \A u \in SidesOf(g) : u # g
  BY SidesApart
<1>1. CallsOwn(g)'
  BY <1>20 DEF BInv, GroupInv, IInv, TypeOK, CallsOwn, EndThrows, batchVars, chainVars
<1>2. Untouched(g)'
  BY <1>20 DEF BInv, GroupInv, IInv, TypeOK, Untouched, EndThrows, batchVars, chainVars
<1>3. ExecutesServed(g)'
  BY <1>20
  DEF BInv, GroupInv, IInv, TypeOK, ExecutesServed, Opening, Free, EndThrows, batchVars,
      chainVars
<1>4. SideRunners(g)'
  BY <1>20
  DEF BInv, GroupInv, IInv, TypeOK, SideRunners, Free, EndThrows, batchVars, chainVars
<1>5. OneOpen(g)'
  BY <1>20
  DEF BInv, GroupInv, IInv, TypeOK, OneOpen, Free, ExecutesServed, EndThrows, batchVars,
      chainVars
<1>6. EndedAsFailed(g)'
  BY <1>20
  DEF BInv, GroupInv, IInv, TypeOK, EndedAsFailed, EndThrows, batchVars, chainVars
<1>7. EndingRunner(g)'
  BY <1>20
  DEF BInv, GroupInv, IInv, TypeOK, EndingRunner, Free, EndThrows, batchVars, chainVars
<1>8. HeldKnown(g)'
  BY <1>20
  DEF BInv, GroupInv, HeldKnown, Held, Opening, Free, EndThrows, batchVars, chainVars
<1>9. LateChains(g)'
  BY <1>20 DEF BInv, GroupInv, IInv, TypeOK, LateChains, EndThrows, batchVars, chainVars
<1>10. FailedIsKnown(g)'
  BY <1>20
  DEF BInv, GroupInv, IInv, TypeOK, FailedIsKnown, EndThrows, batchVars, chainVars
<1> QED
  BY <1>1, <1>2, <1>3, <1>4, <1>5, <1>6, <1>7, <1>8, <1>9, <1>10 DEF GroupInv

\* The connection goes back to the pool.
LEMMA ReleaseOwnInv ==
  ASSUME BInv, NEW g \in Ctx, Release(g), UNCHANGED batchVars
  PROVE  GroupInv(g)'
<1>20. /\ g \in Task /\ SidesOf(g) \subseteq Task /\ SidesOf(g) \subseteq Side
       /\ \A u \in SidesOf(g) : u # g
  BY SidesApart
<1>21. qr[g] \in Runner
  BY <1>20 DEF BInv, IInv, TypeOK, EndersOver, Release
<1>1. CallsOwn(g)'
  BY <1>20, <1>21
  DEF BInv, GroupInv, IInv, TypeOK, CallsOwn, Release, batchVars, chainVars
<1>2. Untouched(g)'
  BY <1>20, <1>21
  DEF BInv, GroupInv, IInv, TypeOK, Untouched, Release, batchVars, chainVars
<1>3. ExecutesServed(g)'
  BY <1>20, <1>21
  DEF BInv, GroupInv, IInv, TypeOK, ExecutesServed, Opening, Free, Release, batchVars,
      chainVars
<1>4. SideRunners(g)'
  BY <1>20, <1>21
  DEF BInv, GroupInv, IInv, TypeOK, SideRunners, Free, Release, batchVars, chainVars
<1>5. OneOpen(g)'
  BY <1>20, <1>21
  DEF BInv, GroupInv, IInv, TypeOK, OneOpen, Free, ExecutesServed, Release, batchVars,
      chainVars
<1>6. EndedAsFailed(g)'
  BY <1>20, <1>21
  DEF BInv, GroupInv, IInv, TypeOK, EndedAsFailed, Release, batchVars, chainVars
<1>7. EndingRunner(g)'
  BY <1>20, <1>21
  DEF BInv, GroupInv, IInv, TypeOK, EndingRunner, Free, Release, batchVars, chainVars
<1>8. HeldKnown(g)'
  BY <1>20, <1>21
  DEF BInv, GroupInv, HeldKnown, Held, Opening, Free, Release, batchVars, chainVars
<1>9. LateChains(g)'
  BY <1>20, <1>21
  DEF BInv, GroupInv, IInv, TypeOK, LateChains, Release, batchVars, chainVars
<1>10. FailedIsKnown(g)'
  BY <1>20, <1>21
  DEF BInv, GroupInv, IInv, TypeOK, FailedIsKnown, Release, batchVars, chainVars
<1> QED
  BY <1>1, <1>2, <1>3, <1>4, <1>5, <1>6, <1>7, <1>8, <1>9, <1>10 DEF GroupInv

\* The entry is deleted.
LEMMA DeleteOwnInv ==
  ASSUME BInv, NEW g \in Ctx, Delete(g), UNCHANGED batchVars
  PROVE  GroupInv(g)'
<1>20. /\ g \in Task /\ SidesOf(g) \subseteq Task /\ SidesOf(g) \subseteq Side
       /\ \A u \in SidesOf(g) : u # g
  BY SidesApart
<1>21. /\ group[g] = "ending" /\ ctx[g] = g /\ qr[g] # None
       /\ storage[g] = qr[g] /\ phase[qr[g]] = "released"
  <2>1. group[g] = "ending"
    BY DEF BInv, GroupInv, HandlerTypes, ExecutesServed, Untouched, Free, Delete
  <2>2. qr[g] # None /\ ctx[g] # None
    BY <1>20 DEF BInv, IInv, EndersOver, HandedShape, Opening, Delete
  <2> QED
    BY <2>1, <2>2 DEF BInv, GroupInv, CallsOwn, EndingRunner, Delete
<1>1. CallsOwn(g)'
  BY <1>20, <1>21
  DEF BInv, GroupInv, IInv, TypeOK, CallsOwn, Delete, batchVars, chainVars
<1>2. Untouched(g)'
  BY <1>20, <1>21
  DEF BInv, GroupInv, IInv, TypeOK, Untouched, Delete, batchVars, chainVars
<1>3. ExecutesServed(g)'
  BY <1>20, <1>21
  DEF BInv, GroupInv, IInv, TypeOK, ExecutesServed, Opening, Free, Delete, batchVars,
      chainVars
<1>4. SideRunners(g)'
  BY <1>20, <1>21
  DEF BInv, GroupInv, IInv, TypeOK, SideRunners, Free, Delete, batchVars, chainVars
<1>5. OneOpen(g)'
  BY <1>20, <1>21
  DEF BInv, GroupInv, IInv, TypeOK, OneOpen, Free, Delete, batchVars, chainVars
<1>6. EndedAsFailed(g)'
  BY <1>20, <1>21
  DEF BInv, GroupInv, IInv, TypeOK, EndedAsFailed, Delete, batchVars, chainVars
<1>7. EndingRunner(g)'
  BY <1>20, <1>21
  DEF BInv, GroupInv, IInv, TypeOK, EndingRunner, Free, Delete, batchVars, chainVars
<1>8. HeldKnown(g)'
  BY <1>20, <1>21
  DEF BInv, GroupInv, HeldKnown, Held, Opening, Free, Delete, batchVars, chainVars
<1>9. LateChains(g)'
  BY <1>20, <1>21
  DEF BInv, GroupInv, IInv, TypeOK, LateChains, Delete, batchVars, chainVars
<1>10. FailedIsKnown(g)'
  BY <1>20, <1>21
  DEF BInv, GroupInv, IInv, TypeOK, FailedIsKnown, Delete, batchVars, chainVars
<1> QED
  BY <1>1, <1>2, <1>3, <1>4, <1>5, <1>6, <1>7, <1>8, <1>9, <1>10 DEF GroupInv

----------------------------------------------------------------------------
(* The steps of its side chains.                                           *)

\* A side chain that finds the transaction.
LEMMA SideHitsInv ==
  ASSUME BInv, NEW g \in Ctx, NEW s \in SidesOf(g), side[s] = "running", GetHit(s, g),
         UNCHANGED <<side, batchVars>>
  PROVE  GroupInv(g)'
<1>20. /\ g \in Task /\ SidesOf(g) \subseteq Task /\ SidesOf(g) \subseteq Side
       /\ \A u \in SidesOf(g) : u # g
  BY SidesApart
<1>1. CallsOwn(g)'
  BY <1>20 DEF BInv, GroupInv, IInv, TypeOK, CallsOwn, GetHit, batchVars, chainVars
<1>2. Untouched(g)'
  BY <1>20 DEF BInv, GroupInv, IInv, TypeOK, Untouched, GetHit, batchVars, chainVars
<1>3. ExecutesServed(g)'
  BY <1>20
  DEF BInv, GroupInv, IInv, TypeOK, ExecutesServed, Opening, Free, GetHit, batchVars,
      chainVars
<1>4. SideRunners(g)'
  BY <1>20
  DEF BInv, GroupInv, IInv, TypeOK, SideRunners, Free, GetHit, batchVars, chainVars
<1>5. OneOpen(g)'
  BY <1>20 DEF BInv, GroupInv, IInv, TypeOK, OneOpen, Free, GetHit, batchVars, chainVars
<1>6. EndedAsFailed(g)'
  BY <1>20 DEF BInv, GroupInv, IInv, TypeOK, EndedAsFailed, GetHit, batchVars, chainVars
<1>7. EndingRunner(g)'
  BY <1>20
  DEF BInv, GroupInv, IInv, TypeOK, EndingRunner, Free, GetHit, batchVars, chainVars
<1>8. HeldKnown(g)'
  BY <1>20
  DEF BInv, GroupInv, HeldKnown, Held, Opening, Free, GetHit, batchVars, chainVars
<1>9. LateChains(g)'
  BY <1>20 DEF BInv, GroupInv, IInv, TypeOK, LateChains, GetHit, batchVars, chainVars
<1>10. FailedIsKnown(g)'
  BY <1>20 DEF BInv, GroupInv, IInv, TypeOK, FailedIsKnown, GetHit, batchVars, chainVars
<1> QED
  BY <1>1, <1>2, <1>3, <1>4, <1>5, <1>6, <1>7, <1>8, <1>9, <1>10 DEF GroupInv

\* A side chain that finds none any more and opens one of its own.
LEMMA SideMissesInv ==
  ASSUME BInv, NEW g \in Ctx, NEW s \in SidesOf(g), side[s] = "running", GetMiss(s, g),
         UNCHANGED <<side, batchVars>>
  PROVE  GroupInv(g)'
<1>20. /\ g \in Task /\ SidesOf(g) \subseteq Task /\ SidesOf(g) \subseteq Side
       /\ \A u \in SidesOf(g) : u # g
  BY SidesApart
<1>21. group[g] \in {"ending", "done", "threw"} /\ late[g]
  BY SideRuns DEF BInv, GroupInv, SideRunners, GetMiss
<1>1. CallsOwn(g)'
  BY <1>20, <1>21
  DEF BInv, GroupInv, IInv, TypeOK, CallsOwn, GetMiss, batchVars, chainVars
<1>2. Untouched(g)'
  BY <1>20, <1>21
  DEF BInv, GroupInv, IInv, TypeOK, Untouched, GetMiss, batchVars, chainVars
<1>3. ExecutesServed(g)'
  BY <1>20, <1>21
  DEF BInv, GroupInv, IInv, TypeOK, ExecutesServed, Opening, Free, GetMiss, batchVars,
      chainVars
<1>4. SideRunners(g)'
  BY <1>20, <1>21
  DEF BInv, GroupInv, IInv, TypeOK, SideRunners, Free, GetMiss, batchVars, chainVars
<1>5. OneOpen(g)'
  BY <1>20, <1>21
  DEF BInv, GroupInv, IInv, TypeOK, OneOpen, Free, GetMiss, batchVars, chainVars
<1>6. EndedAsFailed(g)'
  BY <1>20, <1>21, OwnRunners
  DEF BInv, GroupInv, IInv, TypeOK, EndedAsFailed, GetMiss, batchVars, chainVars
<1>7. EndingRunner(g)'
  BY <1>20, <1>21, OwnRunners
  DEF BInv, GroupInv, IInv, TypeOK, EndingRunner, Free, EndersOver, UnusedFresh, Over,
      GetMiss, batchVars, chainVars
<1>8. HeldKnown(g)'
  BY <1>20, <1>21
  DEF BInv, GroupInv, HeldKnown, Held, Opening, Free, GetMiss, batchVars, chainVars
<1>9. LateChains(g)'
  BY <1>20, <1>21
  DEF BInv, GroupInv, IInv, TypeOK, LateChains, GetMiss, batchVars, chainVars
<1>10. FailedIsKnown(g)'
  BY <1>20, <1>21
  DEF BInv, GroupInv, IInv, TypeOK, FailedIsKnown, GetMiss, batchVars, chainVars
<1> QED
  BY <1>1, <1>2, <1>3, <1>4, <1>5, <1>6, <1>7, <1>8, <1>9, <1>10 DEF GroupInv

\* A statement of a side chain, or one that its released runner refuses.
LEMMA SideWritesInv ==
  ASSUME BInv, NEW g \in Ctx, NEW s \in SidesOf(g), side[s] = "running", Write(s) \/
         WriteThrows(s), UNCHANGED <<side, batchVars>>
  PROVE  GroupInv(g)'
<1>20. /\ g \in Task /\ SidesOf(g) \subseteq Task /\ SidesOf(g) \subseteq Side
       /\ \A u \in SidesOf(g) : u # g
  BY SidesApart
<1>21. group[g] = "serving" \/ (group[g] \in {"ending", "done", "threw"} /\ late[g])
  BY SideRuns
<1>1. CallsOwn(g)'
  BY <1>20, <1>21
  DEF BInv, GroupInv, IInv, TypeOK, CallsOwn, Write, WriteThrows, batchVars, chainVars
<1>2. Untouched(g)'
  BY <1>20, <1>21
  DEF BInv, GroupInv, IInv, TypeOK, Untouched, Write, WriteThrows, batchVars, chainVars
<1>3. ExecutesServed(g)'
  BY <1>20, <1>21
  DEF BInv, GroupInv, IInv, TypeOK, ExecutesServed, Opening, Free, Write, WriteThrows,
      batchVars, chainVars
<1>4. SideRunners(g)'
  BY <1>20, <1>21
  DEF BInv, GroupInv, IInv, TypeOK, SideRunners, Free, Write, WriteThrows, batchVars,
      chainVars
<1>5. OneOpen(g)'
  BY <1>20, <1>21, OwnRunners
  DEF BInv, GroupInv, IInv, TypeOK, OneOpen, Free, SideRunners, Write, WriteThrows,
      batchVars, chainVars
<1>6. EndedAsFailed(g)'
  BY <1>20, <1>21
  DEF BInv, GroupInv, IInv, TypeOK, EndedAsFailed, Write, WriteThrows, batchVars,
      chainVars
<1>7. EndingRunner(g)'
  BY <1>20, <1>21
  DEF BInv, GroupInv, IInv, TypeOK, EndingRunner, Free, Write, WriteThrows, batchVars,
      chainVars
<1>8. HeldKnown(g)'
  BY <1>20, <1>21
  DEF BInv, GroupInv, IInv, TypeOK, HeldKnown, Held, Opening, Free, Write, WriteThrows,
      batchVars, chainVars
<1>9. LateChains(g)'
  BY <1>20, <1>21
  DEF BInv, GroupInv, IInv, TypeOK, LateChains, Write, WriteThrows, batchVars, chainVars
<1>10. FailedIsKnown(g)'
  BY <1>20, <1>21
  DEF BInv, GroupInv, IInv, TypeOK, FailedIsKnown, Write, WriteThrows, batchVars,
      chainVars
<1> QED
  BY <1>1, <1>2, <1>3, <1>4, <1>5, <1>6, <1>7, <1>8, <1>9, <1>10 DEF GroupInv

\* A hook that has outlived its group ends the transaction it works in.
LEMMA SideEndsInv ==
  ASSUME BInv, NEW g \in Ctx, NEW s \in SidesOf(g), EventEnds(s)
  PROVE  GroupInv(g)'
<1>20. /\ g \in Task /\ SidesOf(g) \subseteq Task /\ SidesOf(g) \subseteq Side
       /\ \A u \in SidesOf(g) : u # g
  BY SidesApart
<1>21. /\ group[g] \in {"done", "threw"} /\ late[g] /\ ContextOf[s] = g
       /\ side[s] = "running"
  BY SideRuns, SidesApart DEF EventEnds, ChainEnds
<1>22. storage[g] # None => owner[storage[g]] = g /\ storage[g] \in Runner
  BY OwnRunners
<1>23. group[g] = "done" => pc[g] = "idle" /\ (qr[g] # None => phase[qr[g]] = "released")
  BY DEF BInv, GroupInv, EndingRunner
<1>1. CallsOwn(g)'
  BY <1>20, <1>21, <1>22, <1>23
  DEF BInv, GroupInv, IInv, TypeOK, CallsOwn, EventEnds, ChainEnds, End, EndCall,
      EndCallRefused, EndNotStarted, EndReleased, EndMiss, batchVars, chainVars
<1>2. Untouched(g)'
  BY <1>20, <1>21, <1>22, <1>23
  DEF BInv, GroupInv, IInv, TypeOK, Untouched, EventEnds, ChainEnds, End, EndCall,
      EndCallRefused, EndNotStarted, EndReleased, EndMiss, batchVars, chainVars
<1>3. ExecutesServed(g)'
  BY <1>20, <1>21, <1>22, <1>23
  DEF BInv, GroupInv, IInv, TypeOK, ExecutesServed, Opening, Free, EventEnds, ChainEnds,
      End, EndCall, EndCallRefused, EndNotStarted, EndReleased, EndMiss, batchVars,
      chainVars
<1>4. SideRunners(g)'
  BY <1>20, <1>21, <1>22, <1>23
  DEF BInv, GroupInv, IInv, TypeOK, SideRunners, Free, EventEnds, ChainEnds, End,
      EndCall, EndCallRefused, EndNotStarted, EndReleased, EndMiss, batchVars, chainVars
<1>5. OneOpen(g)'
  BY <1>20, <1>21, <1>22, <1>23
  DEF BInv, GroupInv, IInv, TypeOK, OneOpen, Free, EventEnds, ChainEnds, End, EndCall,
      EndCallRefused, EndNotStarted, EndReleased, EndMiss, batchVars, chainVars
<1>6. EndedAsFailed(g)'
  BY <1>20, <1>21, <1>22, <1>23
  DEF BInv, GroupInv, IInv, TypeOK, EndedAsFailed, EventEnds, ChainEnds, End, EndCall,
      EndCallRefused, EndNotStarted, EndReleased, EndMiss, batchVars, chainVars
<1>7. EndingRunner(g)'
  BY <1>20, <1>21, <1>22, <1>23
  DEF BInv, GroupInv, IInv, TypeOK, EndingRunner, Free, EventEnds, ChainEnds, End,
      EndCall, EndCallRefused, EndNotStarted, EndReleased, EndMiss, batchVars, chainVars
<1>8. HeldKnown(g)'
  BY <1>20, <1>21, <1>22, <1>23
  DEF BInv, GroupInv, HeldKnown, Held, Opening, Free, EventEnds, ChainEnds, End,
      EndCall, EndCallRefused, EndNotStarted, EndReleased, EndMiss, batchVars, chainVars
<1>9. LateChains(g)'
  BY <1>20, <1>21, <1>22, <1>23
  DEF BInv, GroupInv, IInv, TypeOK, LateChains, EventEnds, ChainEnds, End, EndCall,
      EndCallRefused, EndNotStarted, EndReleased, EndMiss, batchVars, chainVars
<1>10. FailedIsKnown(g)'
  BY <1>20, <1>21, <1>22, <1>23
  DEF BInv, GroupInv, IInv, TypeOK, FailedIsKnown, EventEnds, ChainEnds, End, EndCall,
      EndCallRefused, EndNotStarted, EndReleased, EndMiss, batchVars, chainVars
<1> QED
  BY <1>1, <1>2, <1>3, <1>4, <1>5, <1>6, <1>7, <1>8, <1>9, <1>10 DEF GroupInv

\* A side chain returns or throws.
LEMMA SideOverInv ==
  ASSUME BInv, NEW g \in Ctx, NEW s \in SidesOf(g), SideReturns(s) \/ SideFails(s)
  PROVE  GroupInv(g)'
<1>20. /\ g \in Task /\ SidesOf(g) \subseteq Task /\ SidesOf(g) \subseteq Side
       /\ \A u \in SidesOf(g) : u # g
  BY SidesApart
<1>1. CallsOwn(g)'
  BY <1>20
  DEF BInv, GroupInv, HandlerTypes, SideTypeOK, CallsOwn, SideReturns, ChainReturns,
      SideFails, ChainFails, vars
<1>2. Untouched(g)'
  BY <1>20
  DEF BInv, GroupInv, HandlerTypes, SideTypeOK, Untouched, SideReturns, ChainReturns,
      SideFails, ChainFails, vars
<1>3. ExecutesServed(g)'
  BY <1>20
  DEF BInv, GroupInv, HandlerTypes, SideTypeOK, ExecutesServed, Opening, Free,
      SideReturns, ChainReturns, SideFails, ChainFails, vars
<1>4. SideRunners(g)'
  BY <1>20
  DEF BInv, GroupInv, HandlerTypes, SideTypeOK, SideRunners, Free, SideReturns,
      ChainReturns, SideFails, ChainFails, vars
<1>5. OneOpen(g)'
  BY <1>20
  DEF BInv, GroupInv, HandlerTypes, SideTypeOK, OneOpen, Free, SideReturns,
      ChainReturns, SideFails, ChainFails, vars
<1>6. EndedAsFailed(g)'
  BY <1>20
  DEF BInv, GroupInv, HandlerTypes, SideTypeOK, EndedAsFailed, SideReturns,
      ChainReturns, SideFails, ChainFails, vars
<1>7. EndingRunner(g)'
  BY <1>20
  DEF BInv, GroupInv, HandlerTypes, SideTypeOK, EndingRunner, Free, SideReturns,
      ChainReturns, SideFails, ChainFails, vars
<1>8. HeldKnown(g)'
  BY <1>20
  DEF BInv, GroupInv, HeldKnown, Held, Opening, Free, SideReturns, ChainReturns,
      SideFails, ChainFails, vars
<1>9. LateChains(g)'
  BY <1>20
  DEF BInv, GroupInv, HandlerTypes, SideTypeOK, LateChains, SideReturns, ChainReturns,
      SideFails, ChainFails, vars
<1>10. FailedIsKnown(g)'
  BY <1>20
  DEF BInv, GroupInv, HandlerTypes, SideTypeOK, FailedIsKnown, SideReturns,
      ChainReturns, SideFails, ChainFails, vars
<1> QED
  BY <1>1, <1>2, <1>3, <1>4, <1>5, <1>6, <1>7, <1>8, <1>9, <1>10 DEF GroupInv

\* connect() of a side chain that is answered.
LEMMA SideConnectInv ==
  ASSUME BInv, NEW g \in Ctx, NEW s \in SidesOf(g), Connect(s), UNCHANGED batchVars
  PROVE  GroupInv(g)'
<1>20. /\ g \in Task /\ SidesOf(g) \subseteq Task /\ SidesOf(g) \subseteq Side
       /\ \A u \in SidesOf(g) : u # g
  BY SidesApart
<1>21. /\ side[s] = "running" /\ late[g] /\ group[g] \in {"ending", "done", "threw"}
       /\ group[g] \in {"ending", "done"} => pc[g] \in {"idle", "threw"}
       /\ qr[s] # None => qr[s] \in Runner
  BY SideBusy, OwnRunners DEF Free, Connect
<1>1. CallsOwn(g)'
  BY <1>20, <1>21
  DEF BInv, GroupInv, IInv, TypeOK, CallsOwn, Connect, batchVars, chainVars
<1>2. Untouched(g)'
  BY <1>21 DEF Untouched, batchVars
<1>3. ExecutesServed(g)'
  BY <1>20, <1>21
  DEF BInv, GroupInv, IInv, TypeOK, ExecutesServed, Opening, Free, Connect, batchVars,
      chainVars
<1>4. SideRunners(g)'
  BY <1>20, <1>21
  DEF BInv, GroupInv, IInv, TypeOK, SideRunners, Free, Connect, batchVars, chainVars
<1>5. OneOpen(g)'
  BY <1>21 DEF OneOpen, batchVars
<1>6. EndedAsFailed(g)'
  BY <1>20, <1>21
  DEF BInv, GroupInv, IInv, TypeOK, EndedAsFailed, Connect, batchVars, chainVars
<1>7. EndingRunner(g)'
  BY <1>20, <1>21
  DEF BInv, GroupInv, IInv, TypeOK, EndingRunner, Free, OpenersAlone, Opening, Connect,
      batchVars, chainVars
<1>8. HeldKnown(g)'
  BY <1>21 DEF HeldKnown, batchVars, chainVars
<1>9. LateChains(g)'
  BY <1>20, <1>21
  DEF BInv, GroupInv, IInv, TypeOK, LateChains, Connect, batchVars, chainVars
<1>10. FailedIsKnown(g)'
  BY <1>20, <1>21
  DEF BInv, GroupInv, IInv, TypeOK, FailedIsKnown, Connect, batchVars, chainVars
<1> QED
  BY <1>1, <1>2, <1>3, <1>4, <1>5, <1>6, <1>7, <1>8, <1>9, <1>10 DEF GroupInv

\* startTransaction() of a side chain that is answered.
LEMMA SideBeginInv ==
  ASSUME BInv, NEW g \in Ctx, NEW s \in SidesOf(g), Begin(s), UNCHANGED batchVars
  PROVE  GroupInv(g)'
<1>20. /\ g \in Task /\ SidesOf(g) \subseteq Task /\ SidesOf(g) \subseteq Side
       /\ \A u \in SidesOf(g) : u # g
  BY SidesApart
<1>21. /\ side[s] = "running" /\ late[g] /\ group[g] \in {"ending", "done", "threw"}
       /\ group[g] \in {"ending", "done"} => pc[g] \in {"idle", "threw"}
       /\ qr[s] # None => qr[s] \in Runner
  BY SideBusy, OwnRunners DEF Free, Begin
<1>22. qr[s] # qr[g] /\ ctx[s] = g
  BY <1>20, OwnRunners DEF BInv, IInv, OpenersAlone, Opening, Begin
<1>23. pc'[g] = pc[g] /\ qr' = qr /\ phase' = phase /\ group' = group
  BY <1>20 DEF BInv, IInv, TypeOK, Begin, batchVars
<1>1. CallsOwn(g)'
  BY <1>20, <1>21, <1>22
  DEF BInv, GroupInv, IInv, TypeOK, CallsOwn, Begin, batchVars, chainVars
<1>2. Untouched(g)'
  BY <1>21 DEF Untouched, batchVars
<1>3. ExecutesServed(g)'
  BY <1>21, <1>23
  DEF BInv, GroupInv, ExecutesServed, Opening, Free, batchVars, chainVars
<1>4. SideRunners(g)'
  BY <1>20, <1>21, <1>22
  DEF BInv, GroupInv, IInv, TypeOK, SideRunners, Free, Begin, batchVars, chainVars
<1>5. OneOpen(g)'
  BY <1>21 DEF OneOpen, batchVars
<1>6. EndedAsFailed(g)'
  BY <1>20, <1>21, <1>22
  DEF BInv, GroupInv, IInv, TypeOK, EndedAsFailed, Begin, batchVars, chainVars
<1>7. EndingRunner(g)'
  BY <1>21, <1>23 DEF BInv, GroupInv, EndingRunner, batchVars, chainVars
<1>8. HeldKnown(g)'
  BY <1>21 DEF HeldKnown, batchVars, chainVars
<1>9. LateChains(g)'
  BY <1>20, <1>21, <1>22
  DEF BInv, GroupInv, IInv, TypeOK, LateChains, Begin, batchVars, chainVars
<1>10. FailedIsKnown(g)'
  BY <1>20, <1>21, <1>22
  DEF BInv, GroupInv, IInv, TypeOK, FailedIsKnown, Begin, batchVars, chainVars
<1> QED
  BY <1>1, <1>2, <1>3, <1>4, <1>5, <1>6, <1>7, <1>8, <1>9, <1>10 DEF GroupInv

\* connect() or startTransaction() of a side chain that rejects.
LEMMA SideOpenFailsInv ==
  ASSUME BInv, NEW g \in Ctx, NEW s \in SidesOf(g), OpenFails(s), UNCHANGED batchVars
  PROVE  GroupInv(g)'
<1>20. /\ g \in Task /\ SidesOf(g) \subseteq Task /\ SidesOf(g) \subseteq Side
       /\ \A u \in SidesOf(g) : u # g
  BY SidesApart
<1>21. /\ side[s] = "running" /\ late[g] /\ group[g] \in {"ending", "done", "threw"}
       /\ group[g] \in {"ending", "done"} => pc[g] \in {"idle", "threw"}
       /\ qr[s] # None => qr[s] \in Runner
  BY SideBusy, OwnRunners DEF Free, OpenFails
<1>1. CallsOwn(g)'
  BY <1>20, <1>21
  DEF BInv, GroupInv, IInv, TypeOK, CallsOwn, OpenFails, batchVars, chainVars
<1>2. Untouched(g)'
  BY <1>21 DEF Untouched, batchVars
<1>3. ExecutesServed(g)'
  BY <1>20, <1>21
  DEF BInv, GroupInv, IInv, TypeOK, ExecutesServed, Opening, Free, OpenFails, batchVars,
      chainVars
<1>4. SideRunners(g)'
  BY <1>20, <1>21
  DEF BInv, GroupInv, IInv, TypeOK, SideRunners, Free, OpenFails, batchVars, chainVars
<1>5. OneOpen(g)'
  BY <1>21 DEF OneOpen, batchVars
<1>6. EndedAsFailed(g)'
  BY <1>20, <1>21
  DEF BInv, GroupInv, IInv, TypeOK, EndedAsFailed, OpenFails, batchVars, chainVars
<1>7. EndingRunner(g)'
  BY <1>20, <1>21
  DEF BInv, GroupInv, IInv, TypeOK, EndingRunner, Free, OpenFails, batchVars, chainVars
<1>8. HeldKnown(g)'
  BY <1>21 DEF HeldKnown, batchVars, chainVars
<1>9. LateChains(g)'
  BY <1>20, <1>21
  DEF BInv, GroupInv, IInv, TypeOK, LateChains, OpenFails, batchVars, chainVars
<1>10. FailedIsKnown(g)'
  BY <1>20, <1>21
  DEF BInv, GroupInv, IInv, TypeOK, FailedIsKnown, OpenFails, batchVars, chainVars
<1> QED
  BY <1>1, <1>2, <1>3, <1>4, <1>5, <1>6, <1>7, <1>8, <1>9, <1>10 DEF GroupInv

\* COMMIT or ROLLBACK of a hook that is answered.
LEMMA SideEndAnsweredInv ==
  ASSUME BInv, NEW g \in Ctx, NEW s \in SidesOf(g), EndAnswered(s), UNCHANGED batchVars
  PROVE  GroupInv(g)'
<1>20. /\ g \in Task /\ SidesOf(g) \subseteq Task /\ SidesOf(g) \subseteq Side
       /\ \A u \in SidesOf(g) : u # g
  BY SidesApart
<1>21. /\ side[s] = "running" /\ late[g] /\ group[g] \in {"ending", "done", "threw"}
       /\ group[g] \in {"ending", "done"} => pc[g] \in {"idle", "threw"}
       /\ qr[s] # None => qr[s] \in Runner
  BY SideBusy, OwnRunners DEF Free, EndAnswered
<1>1. CallsOwn(g)'
  BY <1>20, <1>21
  DEF BInv, GroupInv, IInv, TypeOK, CallsOwn, EndAnswered, batchVars, chainVars
<1>2. Untouched(g)'
  BY <1>21 DEF Untouched, batchVars
<1>3. ExecutesServed(g)'
  BY <1>20, <1>21
  DEF BInv, GroupInv, IInv, TypeOK, ExecutesServed, Opening, Free, EndAnswered,
      batchVars, chainVars
<1>4. SideRunners(g)'
  BY <1>20, <1>21
  DEF BInv, GroupInv, IInv, TypeOK, SideRunners, Free, EndAnswered, batchVars, chainVars
<1>5. OneOpen(g)'
  BY <1>21 DEF OneOpen, batchVars
<1>6. EndedAsFailed(g)'
  BY <1>20, <1>21
  DEF BInv, GroupInv, IInv, TypeOK, EndedAsFailed, EndAnswered, batchVars, chainVars
<1>7. EndingRunner(g)'
  BY <1>20, <1>21
  DEF BInv, GroupInv, IInv, TypeOK, EndingRunner, Free, EndAnswered, batchVars,
      chainVars
<1>8. HeldKnown(g)'
  BY <1>21 DEF HeldKnown, batchVars, chainVars
<1>9. LateChains(g)'
  BY <1>20, <1>21
  DEF BInv, GroupInv, IInv, TypeOK, LateChains, EndAnswered, batchVars, chainVars
<1>10. FailedIsKnown(g)'
  BY <1>20, <1>21
  DEF BInv, GroupInv, IInv, TypeOK, FailedIsKnown, EndAnswered, batchVars, chainVars
<1> QED
  BY <1>1, <1>2, <1>3, <1>4, <1>5, <1>6, <1>7, <1>8, <1>9, <1>10 DEF GroupInv

\* COMMIT or ROLLBACK of a hook that is refused.
LEMMA SideEndThrowsInv ==
  ASSUME BInv, NEW g \in Ctx, NEW s \in SidesOf(g), EndThrows(s), UNCHANGED batchVars
  PROVE  GroupInv(g)'
<1>20. /\ g \in Task /\ SidesOf(g) \subseteq Task /\ SidesOf(g) \subseteq Side
       /\ \A u \in SidesOf(g) : u # g
  BY SidesApart
<1>21. /\ side[s] = "running" /\ late[g] /\ group[g] \in {"ending", "done", "threw"}
       /\ group[g] \in {"ending", "done"} => pc[g] \in {"idle", "threw"}
       /\ qr[s] # None => qr[s] \in Runner
  BY SideBusy, OwnRunners DEF Free, EndThrows
<1>1. CallsOwn(g)'
  BY <1>20, <1>21
  DEF BInv, GroupInv, IInv, TypeOK, CallsOwn, EndThrows, batchVars, chainVars
<1>2. Untouched(g)'
  BY <1>21 DEF Untouched, batchVars
<1>3. ExecutesServed(g)'
  BY <1>20, <1>21
  DEF BInv, GroupInv, IInv, TypeOK, ExecutesServed, Opening, Free, EndThrows, batchVars,
      chainVars
<1>4. SideRunners(g)'
  BY <1>20, <1>21
  DEF BInv, GroupInv, IInv, TypeOK, SideRunners, Free, EndThrows, batchVars, chainVars
<1>5. OneOpen(g)'
  BY <1>21 DEF OneOpen, batchVars
<1>6. EndedAsFailed(g)'
  BY <1>20, <1>21
  DEF BInv, GroupInv, IInv, TypeOK, EndedAsFailed, EndThrows, batchVars, chainVars
<1>7. EndingRunner(g)'
  BY <1>20, <1>21
  DEF BInv, GroupInv, IInv, TypeOK, EndingRunner, Free, EndThrows, batchVars, chainVars
<1>8. HeldKnown(g)'
  BY <1>21 DEF HeldKnown, batchVars, chainVars
<1>9. LateChains(g)'
  BY <1>20, <1>21
  DEF BInv, GroupInv, IInv, TypeOK, LateChains, EndThrows, batchVars, chainVars
<1>10. FailedIsKnown(g)'
  BY <1>20, <1>21
  DEF BInv, GroupInv, IInv, TypeOK, FailedIsKnown, EndThrows, batchVars, chainVars
<1> QED
  BY <1>1, <1>2, <1>3, <1>4, <1>5, <1>6, <1>7, <1>8, <1>9, <1>10 DEF GroupInv

\* The connection of a hook's transaction goes back to the pool.
LEMMA SideReleaseInv ==
  ASSUME BInv, NEW g \in Ctx, NEW s \in SidesOf(g), Release(s), UNCHANGED batchVars
  PROVE  GroupInv(g)'
<1>20. /\ g \in Task /\ SidesOf(g) \subseteq Task /\ SidesOf(g) \subseteq Side
       /\ \A u \in SidesOf(g) : u # g
  BY SidesApart
<1>21. /\ side[s] = "running" /\ late[g] /\ group[g] \in {"ending", "done", "threw"}
       /\ group[g] \in {"ending", "done"} => pc[g] \in {"idle", "threw"}
       /\ qr[s] # None => qr[s] \in Runner
  BY SideBusy, OwnRunners DEF Free, Release
<1>1. CallsOwn(g)'
  BY <1>20, <1>21
  DEF BInv, GroupInv, IInv, TypeOK, CallsOwn, Release, batchVars, chainVars
<1>2. Untouched(g)'
  BY <1>21 DEF Untouched, batchVars
<1>3. ExecutesServed(g)'
  BY <1>20, <1>21
  DEF BInv, GroupInv, IInv, TypeOK, ExecutesServed, Opening, Free, Release, batchVars,
      chainVars
<1>4. SideRunners(g)'
  BY <1>20, <1>21
  DEF BInv, GroupInv, IInv, TypeOK, SideRunners, Free, Release, batchVars, chainVars
<1>5. OneOpen(g)'
  BY <1>21 DEF OneOpen, batchVars
<1>6. EndedAsFailed(g)'
  BY <1>20, <1>21
  DEF BInv, GroupInv, IInv, TypeOK, EndedAsFailed, Release, batchVars, chainVars
<1>7. EndingRunner(g)'
  BY <1>20, <1>21
  DEF BInv, GroupInv, IInv, TypeOK, EndingRunner, Free, Release, batchVars, chainVars
<1>8. HeldKnown(g)'
  BY <1>21 DEF HeldKnown, batchVars, chainVars
<1>9. LateChains(g)'
  BY <1>20, <1>21
  DEF BInv, GroupInv, IInv, TypeOK, LateChains, Release, batchVars, chainVars
<1>10. FailedIsKnown(g)'
  BY <1>20, <1>21
  DEF BInv, GroupInv, IInv, TypeOK, FailedIsKnown, Release, batchVars, chainVars
<1> QED
  BY <1>1, <1>2, <1>3, <1>4, <1>5, <1>6, <1>7, <1>8, <1>9, <1>10 DEF GroupInv

\* The entry of a hook's transaction is deleted.
LEMMA SideDeleteInv ==
  ASSUME BInv, NEW g \in Ctx, NEW s \in SidesOf(g), Delete(s), UNCHANGED batchVars
  PROVE  GroupInv(g)'
<1>20. /\ g \in Task /\ SidesOf(g) \subseteq Task /\ SidesOf(g) \subseteq Side
       /\ \A u \in SidesOf(g) : u # g
  BY SidesApart
<1>21. /\ side[s] = "running" /\ late[g] /\ group[g] \in {"ending", "done", "threw"}
       /\ group[g] \in {"ending", "done"} => pc[g] \in {"idle", "threw"}
       /\ qr[s] # None => qr[s] \in Runner
  BY SideBusy, OwnRunners DEF Free, Delete
<1>22. ctx[s] = g
  BY <1>20, OwnRunners DEF BInv, IInv, EndersOver, Delete
<1>1. CallsOwn(g)'
  BY <1>20, <1>21, <1>22
  DEF BInv, GroupInv, IInv, TypeOK, CallsOwn, Delete, batchVars, chainVars
<1>2. Untouched(g)'
  BY <1>21 DEF Untouched, batchVars
<1>3. ExecutesServed(g)'
  BY <1>20, <1>21, <1>22
  DEF BInv, GroupInv, IInv, TypeOK, ExecutesServed, Opening, Free, Delete, batchVars,
      chainVars
<1>4. SideRunners(g)'
  BY <1>20, <1>21, <1>22
  DEF BInv, GroupInv, IInv, TypeOK, SideRunners, Free, Delete, batchVars, chainVars
<1>5. OneOpen(g)'
  BY <1>21 DEF OneOpen, batchVars
<1>6. EndedAsFailed(g)'
  BY <1>20, <1>21, <1>22
  DEF BInv, GroupInv, IInv, TypeOK, EndedAsFailed, Delete, batchVars, chainVars
<1>7. EndingRunner(g)'
  BY <1>20, <1>21, <1>22
  DEF BInv, GroupInv, IInv, TypeOK, EndingRunner, Free, Delete, batchVars, chainVars
<1>8. HeldKnown(g)'
  BY <1>21 DEF HeldKnown, batchVars, chainVars
<1>9. LateChains(g)'
  BY <1>20, <1>21, <1>22
  DEF BInv, GroupInv, IInv, TypeOK, LateChains, Delete, batchVars, chainVars
<1>10. FailedIsKnown(g)'
  BY <1>20, <1>21, <1>22
  DEF BInv, GroupInv, IInv, TypeOK, FailedIsKnown, Delete, batchVars, chainVars
<1> QED
  BY <1>1, <1>2, <1>3, <1>4, <1>5, <1>6, <1>7, <1>8, <1>9, <1>10 DEF GroupInv
----------------------------------------------------------------------------
(* Every step of the handler.                                              *)

\* The steps of the store that chain t takes on its own.
AnswerStep(t) == AnswerChain(t) \/ RefuseChain(t)

\* The steps that are calls on the store, or answers to one.
CallStep(t) ==
  \/ t \in Ctx /\ (UseTransaction(t) \/ RunStatement(t) \/ EndGroup(t))
  \/ t \in Side /\ (SideWorks(t) \/ EventEnds(t))
  \/ AnswerStep(t)

\* The steps that make no call on the store.
PlainStep(t) ==
  \/ /\ t \in Ctx
     /\ \/ StartRequest(t) \/ SkipRequest(t) \/ RequestSucceeds(t) \/ GroupReturns(t)
        \/ InsertChildren(t) \/ Join(t) \/ \E s \in Event : TriggerEvent(t, s)
  \/ t \in Side /\ (SideReturns(t) \/ SideFails(t))

\* All steps there are.
LEMMA StepCases ==
  ASSUME [BatchNext]_allVars
  PROVE  \/ \E t \in Task : CallStep(t) \/ PlainStep(t)
         \/ \E g \in Ctx : RequestFails(g)
         \/ HandlerStep \/ Quiet \/ UNCHANGED allVars
<1>1. ASSUME NEW g \in Ctx, GroupStep(g)
      PROVE  g \in Task /\ (CallStep(g) \/ PlainStep(g) \/ RequestFails(g))
  BY <1>1, ChainAssumption DEF GroupStep, CallStep, PlainStep
<1>2. ASSUME NEW s \in Side, SideStep(s)
      PROVE  s \in Task /\ (CallStep(s) \/ PlainStep(s))
  BY <1>2, ChainAssumption DEF SideStep, CallStep, PlainStep
<1>3. ASSUME NEW t \in Task, AnswerChain(t) \/ RefuseChain(t)
      PROVE  CallStep(t)
  BY <1>3 DEF CallStep, AnswerStep
<1> QED
  BY <1>1, <1>2, <1>3 DEF BatchNext

\* A plain step leaves the store as it is.
LEMMA PlainUnchanged ==
  ASSUME NEW t \in Task, PlainStep(t)
  PROVE  UNCHANGED vars
BY DEF PlainStep, StartRequest, SkipRequest, RequestSucceeds, GroupReturns, InsertChildren,
       Join, TriggerEvent, SideReturns, ChainReturns, SideFails, ChainFails

\* A call is a step of the store, on the context the chain works for.
LEMMA CallIsStoreStep ==
  ASSUME NEW t \in Task, CallStep(t)
  PROVE  StoreStep(t, WorksFor(t)) /\ WorksFor(t) \in Ctx
<1>1. CASE t \in Ctx /\ (UseTransaction(t) \/ RunStatement(t) \/ EndGroup(t))
  BY <1>1 DEF UseTransaction, RunStatement, EndGroup, StoreStep, WorksFor, Over
<1>2. CASE t \in Side /\ (SideWorks(t) \/ EventEnds(t))
  BY <1>2, ChainAssumption
  DEF SideWorks, ChainWorks, EventEnds, ChainEnds, StoreStep, WorksFor
<1>3. CASE AnswerStep(t)
  BY <1>3, ChainAssumption DEF AnswerStep, AnswerChain, RefuseChain, StoreStep, WorksFor
<1> QED
  BY <1>1, <1>2, <1>3 DEF CallStep

\* Every step keeps the store's own invariant.  RequestFails is not a step of
\* the store: the catch block drops the error the task holds.
LEMMA StoreInv ==
  ASSUME BInv, [BatchNext]_allVars
  PROVE  IInv'
<1>1. ASSUME NEW t \in Task, CallStep(t)
      PROVE  IInv'
  <2>1. Next
    BY <1>1, CallIsStoreStep DEF StoreStep, Next
  <2> QED
    BY <2>1, NextInv DEF BInv
<1>2. ASSUME NEW g \in Ctx, RequestFails(g)
      PROVE  IInv'
  <2>1. g \in Task /\ Free(g) /\ pc' = [pc EXCEPT ![g] = "idle"]
        /\ UNCHANGED <<storage, phase, owner, txActive, dbtx, wrote, ctx, qr>>
    BY <1>2, SidesApart DEF RequestFails, Rejects, BInv, GroupInv, ExecutesServed, Free
  <2>2. TypeOK'
    BY <2>1 DEF BInv, IInv, TypeOK
  <2>3. UnusedFresh' /\ StoredShape' /\ ReleasedIsOver'
    BY <2>1 DEF BInv, IInv, UnusedFresh, StoredShape, ReleasedIsOver
  <2>4. OpenersAlone' /\ HandedShape'
    BY <2>1 DEF BInv, IInv, TypeOK, OpenersAlone, HandedShape, Opening, Free
  <2>5. EndersOver'
    BY <2>1 DEF BInv, IInv, TypeOK, EndersOver
  <2> QED
    BY <2>2, <2>3, <2>4, <2>5 DEF IInv
<1>3. UNCHANGED vars => IInv'
  BY NextInv DEF BInv
<1>4. CASE HandlerStep \/ Quiet \/ UNCHANGED allVars
  BY <1>3, <1>4
  DEF HandlerStep, RejectInvalid, StartGroups, AnswerBatch, RejectBatch, Quiet, allVars
<1> QED
  BY <1>1, <1>2, <1>3, <1>4, StepCases, PlainUnchanged

\* What a step of a chain leaves of the groups it does not work for.
LEMMA BatchFrame ==
  ASSUME BInv, NEW t \in Task, CallStep(t) \/ PlainStep(t) \/ (t \in Ctx /\ RequestFails(t)),
         NEW g \in Ctx, g # WorksFor(t)
  PROVE  BatchUntouched(g)
<1> USE DEF BatchUntouched, BInv, HandlerTypes, SideTypeOK, WorksFor
<1>1. SidesOf(g) \subseteq Side /\ \A s \in SidesOf(g) : s # t /\ ContextOf[s] = g
  BY SidesApart
<1>2. CASE CallStep(t)
  BY <1>1, <1>2
  DEF CallStep, UseTransaction, RunStatement, EndGroup, SideWorks, ChainWorks, EventEnds,
      ChainEnds, AnswerStep, AnswerChain, RefuseChain, batchVars, chainVars
<1>3. CASE t \in Ctx /\ RequestFails(t)
  BY <1>1, <1>3 DEF RequestFails, Push
<1>4. CASE t \in Ctx /\ (StartRequest(t) \/ SkipRequest(t) \/ RequestSucceeds(t)
                        \/ GroupReturns(t) \/ Join(t))
  BY <1>1, <1>4
  DEF StartRequest, SkipRequest, RequestSucceeds, GroupReturns, Join, Push, chainVars
<1>5. CASE t \in Ctx /\ (InsertChildren(t) \/ \E s \in Event : TriggerEvent(t, s))
  BY <1>1, <1>5 DEF InsertChildren, TriggerEvent, StartChains, ChildrenOf
<1>6. CASE t \in Side /\ (SideReturns(t) \/ SideFails(t))
  BY <1>1, <1>6 DEF SideReturns, ChainReturns, SideFails, ChainFails
<1> QED
  BY <1>2, <1>3, <1>4, <1>5, <1>6 DEF PlainStep

\* A step of one group leaves the others alone.
LEMMA StepFrame ==
  ASSUME BInv, NEW t \in Task, CallStep(t) \/ PlainStep(t) \/ (t \in Ctx /\ RequestFails(t)),
         NEW g \in Ctx, g # WorksFor(t)
  PROVE  StoreUntouched(g) /\ BatchUntouched(g)
<1>1. CASE CallStep(t)
  BY <1>1, CallIsStoreStep, StoreFrame, BatchFrame
<1>2. CASE PlainStep(t)
  BY <1>2, PlainUnchanged, BatchFrame DEF vars, StoreUntouched
<1>3. CASE t \in Ctx /\ RequestFails(t)
  <2>1. BatchUntouched(g)
    BY <1>3, BatchFrame
  <2>2. \A u \in SidesOf(g) \cup {g} : u # t /\ u \in Task
    BY <1>3, SidesApart DEF WorksFor
  <2>3. StoreUntouched(g)
    BY <1>3, <2>2 DEF RequestFails, StoreUntouched, BInv, IInv, TypeOK
  <2> QED
    BY <2>1, <2>3
<1> QED
  BY <1>1, <1>2, <1>3

\* Starting the functions keeps every group's part of the invariant.
LEMMA StartGroupsInv ==
  ASSUME BInv, StartGroups, NEW g \in Ctx
  PROVE  GroupInv(g)'
<1>1. /\ group[g] = "waiting" /\ group'[g] \in {"waiting", "threw", "serving"}
      /\ UNCHANGED <<vars, executing, failed, results, fastFail, chainVars>>
  BY DEF BInv, ReceivedWaits, StartGroups
<1>2. /\ ~executing[g] /\ awaited[g] = {} /\ ~late[g]
      /\ pc[g] = "idle" /\ qr[g] = None /\ storage[g] = None
      /\ \A r \in Runner : owner[r] = g => wrote[r] = {}
      /\ \A s \in SidesOf(g) : side[s] = "unborn"
  BY <1>1 DEF BInv, GroupInv, Untouched, ExecutesServed, LateChains
<1>3. /\ CallsOwn(g)' /\ OneOpen(g)' /\ EndedAsFailed(g)' /\ EndingRunner(g)'
  BY <1>1, <1>2
  DEF vars, BInv, GroupInv, CallsOwn, OneOpen, EndedAsFailed, EndingRunner
<1>8. Untouched(g)'
  BY <1>1, <1>2 DEF vars, chainVars, Untouched
<1>4. ExecutesServed(g)'
  BY <1>1, <1>2 DEF vars, chainVars, ExecutesServed, Opening, Free
<1>5. SideRunners(g)' /\ LateChains(g)'
  BY <1>1, <1>2
  DEF vars, chainVars, BInv, GroupInv, SideRunners, LateChains, Free
<1>6. HeldKnown(g)'
  BY <1>1 DEF vars, chainVars, BInv, GroupInv, HeldKnown, Held, Opening
<1>7. FailedIsKnown(g)'
  BY <1>1 DEF BInv, GroupInv, FailedIsKnown
<1> QED
  BY <1>3, <1>4, <1>5, <1>6, <1>7, <1>8 DEF GroupInv

\* A group's own call keeps its part of the invariant.
LEMMA OwnCallInv ==
  ASSUME BInv, NEW g \in Ctx, CallStep(g)
  PROVE  GroupInv(g)'
<1>1. CASE UseTransaction(g)
  BY <1>1, UseHitsInv, UseMissesInv DEF UseTransaction, Get
<1>2. CASE RunStatement(g) \/ EndGroup(g)
  BY <1>2, RunStatementInv, EndGroupInv
<1>3. CASE AnswerStep(g)
  BY <1>3, ConnectOwnInv, BeginOwnInv, OpenFailsOwnInv, EndAnsweredOwnInv, EndThrowsOwnInv,
     ReleaseOwnInv, DeleteOwnInv
  DEF AnswerStep, AnswerChain, RefuseChain, Answer
<1> QED
  BY <1>1, <1>2, <1>3, ChainAssumption DEF CallStep

\* And so does a call of one of its side chains.
LEMMA SideCallInv ==
  ASSUME BInv, NEW g \in Ctx, NEW s \in SidesOf(g), CallStep(s)
  PROVE  GroupInv(g)'
<1>0. s \notin Ctx /\ ContextOf[s] = g
  BY SidesApart
<1>1. CASE SideWorks(s)
  BY <1>0, <1>1, SideHitsInv, SideMissesInv, SideWritesInv DEF SideWorks, ChainWorks, Get
<1>2. CASE EventEnds(s)
  BY <1>2, SideEndsInv
<1>3. CASE AnswerStep(s)
  BY <1>3, SideConnectInv, SideBeginInv, SideOpenFailsInv, SideEndAnsweredInv,
     SideEndThrowsInv, SideReleaseInv, SideDeleteInv
  DEF AnswerStep, AnswerChain, RefuseChain, Answer
<1> QED
  BY <1>0, <1>1, <1>2, <1>3 DEF CallStep

\* Every step keeps every group's part of the invariant.
LEMMA GroupStepInv ==
  ASSUME BInv, [BatchNext]_allVars, NEW g \in Ctx
  PROVE  GroupInv(g)'
<1>1. ASSUME NEW t \in Task, CallStep(t) \/ PlainStep(t)
      PROVE  GroupInv(g)'
  <2>1. CASE WorksFor(t) # g
    BY <1>1, <2>1, StepFrame, FrameInv
  <2>2. CASE t = g
    <3>1. CASE CallStep(g)
      BY <3>1, OwnCallInv
    <3>2. CASE PlainStep(g)
      BY <3>2, ChainAssumption, StartRequestInv, SkipRequestInv, RequestSucceedsInv,
         GroupReturnsInv, InsertChildrenInv, JoinInv, TriggerEventInv
      DEF PlainStep
    <3> QED
      BY <1>1, <2>2, <3>1, <3>2
  <2>3. CASE WorksFor(t) = g /\ t # g
    <3>1. t \in SidesOf(g) /\ t \notin Ctx
      BY <2>3, ChainAssumption DEF WorksFor, SidesOf
    <3> QED
      BY <1>1, <3>1, SideCallInv, SideOverInv DEF PlainStep
  <2> QED
    BY <2>1, <2>2, <2>3
<1>2. ASSUME NEW h \in Ctx, RequestFails(h)
      PROVE  GroupInv(g)'
  BY <1>2, RequestFailsInv, StepFrame, FrameInv, ChainAssumption DEF WorksFor
<1>3. CASE RejectInvalid \/ AnswerBatch \/ RejectBatch \/ Quiet \/ UNCHANGED allVars
  <2>1. StoreUntouched(g) /\ BatchUntouched(g)
    BY <1>3
    DEF RejectInvalid, AnswerBatch, RejectBatch, Quiet, allVars, batchVars, chainVars, vars,
        StoreUntouched, BatchUntouched
  <2> QED
    BY <2>1, FrameInv
<1> QED
  BY <1>1, <1>2, <1>3, StepCases, StartGroupsInv DEF HandlerStep

\* Every step of a chain keeps the types and the stage of the batch.
LEMMA ChainTypes ==
  ASSUME BInv, NEW t \in Task, CallStep(t) \/ PlainStep(t) \/ (t \in Ctx /\ RequestFails(t))
  PROVE  /\ HandlerTypes' /\ batch' = batch
         /\ \A g \in Ctx : group'[g] # group[g] => group[g] \in {"serving", "ending"}
<1> USE DEF BInv, HandlerTypes, SideTypeOK
<1>1. CASE CallStep(t)
  <2>1. CASE t \in Ctx /\ EndGroup(t)
    BY <2>1 DEF EndGroup
  <2>2. CASE UNCHANGED batchVars
    BY <2>2 DEF batchVars, chainVars
  <2> QED
    BY <1>1, <2>1, <2>2
    DEF CallStep, UseTransaction, RunStatement, SideWorks, EventEnds, AnswerStep,
        AnswerChain, RefuseChain
<1>2. CASE t \in Ctx /\ RequestFails(t)
  BY <1>2 DEF RequestFails, Push
<1>3. CASE t \in Ctx /\ (StartRequest(t) \/ SkipRequest(t) \/ RequestSucceeds(t)
                        \/ GroupReturns(t) \/ Join(t))
  BY <1>3
  DEF StartRequest, SkipRequest, RequestSucceeds, GroupReturns, Join, Push, chainVars
<1>4. CASE t \in Ctx /\ (InsertChildren(t) \/ \E s \in Event : TriggerEvent(t, s))
  BY <1>4 DEF InsertChildren, TriggerEvent, StartChains, ChildrenOf
<1>5. CASE t \in Side /\ (SideReturns(t) \/ SideFails(t))
  BY <1>5 DEF SideReturns, ChainReturns, SideFails, ChainFails
<1> QED
  BY <1>1, <1>2, <1>3, <1>4, <1>5 DEF PlainStep

\* Every call keeps unused runners clean, and the others owned.
LEMMA CleanStep ==
  ASSUME BInv, NEW t \in Task, NEW c \in Ctx, StoreStep(t, c)
  PROVE  UnusedClean'
<1>1. /\ Opening(t) => qr[t] # None /\ owner[qr[t]] # None
      /\ pc[t] \in {"ending", "releasing", "deleting"} => qr[t] # None /\ owner[qr[t]] # None
  BY DEF BInv, IInv, OpenersAlone, HandedShape, EndersOver, Opening
<1>2. CASE Get(t, c)
  BY <1>2, CtxAssumption DEF BInv, IInv, TypeOK, UnusedClean, Get, GetHit, GetMiss
<1>3. CASE Write(t) \/ WriteThrows(t)
  BY <1>3 DEF BInv, IInv, TypeOK, UnusedClean, Write, WriteThrows
<1>4. CASE \E fate \in Over : End(t, c, fate)
  BY <1>4
  DEF BInv, UnusedClean, End, EndCall, EndCallRefused, EndNotStarted, EndReleased, EndMiss
<1>5. CASE Answer(t) \/ OpenFails(t)
  BY <1>1, <1>5
  DEF BInv, IInv, TypeOK, UnusedClean, Answer, Connect, Begin, EndAnswered, EndThrows,
      Release, Delete, OpenFails, Opening
<1> QED
  BY <1>2, <1>3, <1>4, <1>5 DEF StoreStep

\* Every step keeps the types, and the two facts about all groups.
LEMMA SharedInv ==
  ASSUME BInv, [BatchNext]_allVars
  PROVE  HandlerTypes' /\ UnusedClean' /\ ReceivedWaits'
<1>1. ASSUME NEW t \in Task, CallStep(t) \/ PlainStep(t) \/ (t \in Ctx /\ RequestFails(t))
      PROVE  HandlerTypes' /\ UnusedClean' /\ ReceivedWaits'
  <2>1. HandlerTypes' /\ ReceivedWaits'
    BY <1>1, ChainTypes DEF BInv, ReceivedWaits
  <2>2. UnusedClean'
    BY <1>1, CallIsStoreStep, CleanStep, PlainUnchanged
    DEF RequestFails, BInv, UnusedClean, vars
  <2> QED
    BY <2>1, <2>2
<1>2. ASSUME HandlerStep
      PROVE  HandlerTypes' /\ UnusedClean' /\ ReceivedWaits'
  <2>1. /\ UNCHANGED <<vars, executing, failed, results, fastFail, chainVars>>
        /\ DOMAIN todo' = Ctx /\ batch' \in {"running", "answered", "errored"}
    BY <1>2
    DEF HandlerStep, RejectInvalid, StartGroups, AnswerBatch, RejectBatch, BInv,
        HandlerTypes
  <2>2. group' = group \/ group' \in [Ctx -> {"waiting", "threw", "serving"}]
    BY <1>2 DEF HandlerStep, RejectInvalid, StartGroups, AnswerBatch, RejectBatch
  <2>3. HandlerTypes'
    BY <2>1, <2>2 DEF BInv, HandlerTypes, SideTypeOK, chainVars
  <2>4. ReceivedWaits' /\ UnusedClean'
    BY <2>1 DEF ReceivedWaits, BInv, UnusedClean, vars
  <2> QED
    BY <2>3, <2>4
<1>3. ASSUME Quiet \/ UNCHANGED allVars
      PROVE  HandlerTypes' /\ UnusedClean' /\ ReceivedWaits'
  <2>1. UNCHANGED <<vars, group, executing, failed, todo, results, fastFail, batch, chainVars>>
    BY <1>3 DEF Quiet, allVars, batchVars
  <2> QED
    BY <2>1 DEF BInv, HandlerTypes, SideTypeOK, UnusedClean, ReceivedWaits, vars, chainVars
<1> QED
  BY <1>1, <1>2, <1>3, StepCases, ChainAssumption

\* BInv holds when a batch is received.
LEMMA BatchInitInv == BatchInit => BInv
<1> SUFFICES ASSUME BatchInit
             PROVE  BInv
  OBVIOUS
<1>1. IInv
  BY InitInv DEF BatchInit
<1>2. HandlerTypes /\ UnusedClean /\ ReceivedWaits
  BY DEF BatchInit, Init, SideInit, SideTypeOK, HandlerTypes, UnusedClean, ReceivedWaits
<1>3. ASSUME NEW g \in Ctx
      PROVE  GroupInv(g)
  <2>1. FailedIsKnown(g)
    BY DEF BatchInit, FailedIsKnown, Range
  <2>2. SidesOf(g) \subseteq Task /\ SidesOf(g) \subseteq Side /\ g \in Task
    BY SidesApart
  <2>3. /\ CallsOwn(g) /\ Untouched(g) /\ ExecutesServed(g) /\ SideRunners(g)
        /\ OneOpen(g) /\ EndedAsFailed(g) /\ EndingRunner(g) /\ LateChains(g)
    BY <2>2
    DEF BatchInit, Init, SideInit, CallsOwn, Untouched, ExecutesServed, SideRunners,
        OneOpen, EndedAsFailed, EndingRunner, LateChains, Opening, Free
  <2>4. HeldKnown(g)
    BY DEF BatchInit, Init, HeldKnown, Held
  <2> QED
    BY <2>1, <2>3, <2>4 DEF GroupInv
<1> QED
  BY <1>1, <1>2, <1>3 DEF BInv

\* BInv holds in every state of every behaviour of the handler.
LEMMA BatchInvariance == BatchSpec => []BInv
<1>1. BInv /\ [BatchNext]_allVars => BInv'
  BY StoreInv, SharedInv, GroupStepInv DEF BInv
<1> QED
  BY BatchInitInv, <1>1, PTL DEF BatchSpec

----------------------------------------------------------------------------
\* "Each atomicityGroup will run in SINGLE transaction": while a group is
\* served all its work, children's and hooks' too, is in one open transaction;
\* when its function has returned that transaction is kept if every request
\* succeeded and dropped if one failed, and holds all the work unless chains
\* were still running then - however many groups, requests and side chains
\* there are and whatever the database refuses.
THEOREM GroupIsAtomicHolds == BatchSpec => []GroupIsAtomic
<1>1. ASSUME BInv, NEW g \in Ctx, NEW r \in Runner, owner[r] = g, wrote[r] # {}
      PROVE  /\ group[g] = "serving" =>
                  r = storage[g] /\ dbtx[r] = "open" /\ wrote[r] = {"inside"}
             /\ group[g] = "done" =>
                  /\ r = qr[g] => dbtx[r] = Fate(g)
                  /\ ~late[g] => r = qr[g] /\ wrote[r] = {"inside"}
  <2>1. ASSUME group[g] = "serving"
        PROVE  r = storage[g] /\ dbtx[r] = "open" /\ wrote[r] = {"inside"}
    BY <1>1, <2>1, RunnerAssumption DEF BInv, GroupInv, OneOpen
  <2>2. ASSUME group[g] = "done", r = qr[g]
        PROVE  dbtx[r] = Fate(g)
    BY <1>1, <2>2, RunnerAssumption DEF BInv, GroupInv, EndedAsFailed, FailedIsKnown, Fate
  <2>3. ASSUME group[g] = "done", ~late[g]
        PROVE  r = qr[g] /\ wrote[r] = {"inside"}
    BY <1>1, <2>3 DEF BInv, GroupInv, EndedAsFailed
  <2> QED
    BY <2>1, <2>2, <2>3
<1>2. BInv => GroupIsAtomic
  BY <1>1 DEF GroupIsAtomic
<1> QED
  BY BatchInvariance, <1>2, PTL

\* When START TRANSACTION is not refused, a group whose function returned has
\* given back the connection of its transaction; it holds another one only
\* for a chain that was still running when it was ended.
THEOREM DoneHoldsNothingHolds ==
  ASSUME "begin" \notin Faults
  PROVE  BatchSpec => []DoneHoldsNothing
<1>1. ASSUME BInv
      PROVE  DoneHoldsNothing
  <2> SUFFICES ASSUME NEW r \in Held, group[owner[r]] = "done"
               PROVE  late[owner[r]] /\ r # qr[owner[r]]
    BY DEF DoneHoldsNothing
  <2>1. r \in Runner /\ phase[r] = "connected"
    BY DEF Held
  <2>2. owner[r] \in Ctx
    BY <1>1, <2>1 DEF BInv, UnusedClean, IInv, TypeOK
  <2>3. r # None
    BY <2>1, RunnerAssumption
  <2>4. /\ pc[owner[r]] = "idle" /\ (~late[owner[r]] => storage[owner[r]] = None)
        /\ qr[owner[r]] # None => phase[qr[owner[r]]] = "released"
    BY <1>1, <2>2 DEF BInv, GroupInv, EndingRunner
  <2>5. ~late[owner[r]] => storage[owner[r]] = r \/ Opening(owner[r])
    BY <1>1, <2>2 DEF BInv, GroupInv, HeldKnown
  <2> QED
    BY <2>1, <2>3, <2>4, <2>5 DEF Opening
<1>2. BInv => DoneHoldsNothing
  BY <1>1
<1> QED
  BY BatchInvariance, <1>2, PTL

\* With continue-on-error: false a group starts nothing after its first
\* failure, no request, no child and no hook, and a later step of the batch
\* writes for it only if it is one of a side chain that was running already.
THEOREM FailureStopsGroupHolds == BatchSpec => FailureStopsGroup
<1> DEFINE Stopped(g) == fastFail /\ \E res \in Range(results[g]) : res.outcome = "error"
           Still(g) == /\ ~executing'[g]
                       /\ \A s \in SidesOf(g) : side[s] = "unborn" => side'[s] = "unborn"
                       /\ \A r \in Runner :
                            owner[r] = g /\ wrote'[r] # wrote[r] =>
                              \E s \in SidesOf(g) : side[s] = "running" /\ qr[s] = r
<1>1. ASSUME BInv, [BatchNext]_allVars, NEW g \in Ctx, Stopped(g)
      PROVE  Still(g)
  <2>1. ~executing[g] /\ awaited[g] = {}
    BY <1>1 DEF BInv, GroupInv, FailedIsKnown, ExecutesServed
  <2>2. ASSUME StoreUntouched(g), BatchUntouched(g)
        PROVE  Still(g)
    BY <2>1, <2>2 DEF StoreUntouched, BatchUntouched
  <2>3. ASSUME NEW t \in Task, CallStep(t) \/ PlainStep(t)
        PROVE  Still(g)
    <3>1. CASE WorksFor(t) # g
      BY <1>1, <2>2, <2>3, <3>1, StepFrame
    <3>2. CASE t = g
      <4>1. g \notin Side
        BY ChainAssumption
      <4>2. ~StartRequest(g)
        BY <1>1 DEF StartRequest, BInv, GroupInv, FailedIsKnown
      <4>3. CASE EndGroup(g) \/ AnswerStep(g)
        <5>1. wrote' = wrote
          BY <4>3
          DEF EndGroup, End, EndCall, EndCallRefused, EndNotStarted, EndReleased, EndMiss,
              AnswerStep, AnswerChain, RefuseChain, Answer, Connect, Begin, EndAnswered,
              EndThrows, Release, Delete, OpenFails
        <5>2. executing' = executing /\ side' = side
          BY <4>3 DEF EndGroup, AnswerStep, AnswerChain, RefuseChain, batchVars, chainVars
        <5> QED
          BY <2>1, <5>1, <5>2
      <4>4. CASE SkipRequest(g) \/ GroupReturns(g)
        BY <2>1, <4>4 DEF SkipRequest, GroupReturns, vars, chainVars
      <4> QED
        BY <2>1, <2>3, <3>2, <4>1, <4>2, <4>3, <4>4
        DEF CallStep, PlainStep, UseTransaction, RunStatement, InsertChildren, Join,
            TriggerEvent, RequestSucceeds, InService
    <3>3. CASE WorksFor(t) = g /\ t # g
      <4>1. t \in SidesOf(g) /\ t \notin Ctx
        BY <3>3, ChainAssumption DEF WorksFor, SidesOf
      <4>2. executing' = executing
        BY <2>3, <4>1
        DEF CallStep, PlainStep, SideWorks, EventEnds, SideReturns, SideFails, AnswerStep,
            AnswerChain, RefuseChain, batchVars
      <4>3. \A s \in SidesOf(g) : side[s] = "unborn" => side'[s] = "unborn"
        <5>1. CASE SideReturns(t) \/ SideFails(t)
          <6>1. SidesOf(g) \subseteq Side /\ DOMAIN side = Side
            BY <1>1, SidesApart DEF BInv, HandlerTypes, SideTypeOK
          <6>2. \E x : side[t] = "running" /\ side' = [side EXCEPT ![t] = x]
            BY <5>1 DEF SideReturns, ChainReturns, SideFails, ChainFails
          <6> QED
            BY <6>1, <6>2
        <5>2. CASE CallStep(t)
          BY <4>1, <5>2
          DEF CallStep, SideWorks, ChainWorks, EventEnds, ChainEnds, AnswerStep,
              AnswerChain, RefuseChain, batchVars, chainVars
        <5> QED
          BY <2>3, <4>1, <5>1, <5>2 DEF PlainStep
      <4>4. ASSUME NEW r \in Runner, wrote'[r] # wrote[r]
            PROVE  side[t] = "running" /\ qr[t] = r
        <5>1. CASE SideWorks(t)
          BY <1>1, <4>4, <5>1
          DEF SideWorks, ChainWorks, Get, GetHit, GetMiss, Write, WriteThrows, BInv, IInv,
              TypeOK
        <5>2. CASE EventEnds(t) \/ AnswerStep(t)
          BY <4>4, <5>2
          DEF EventEnds, ChainEnds, End, EndCall, EndCallRefused, EndNotStarted,
              EndReleased, EndMiss, AnswerStep, AnswerChain, RefuseChain, Answer, Connect,
              Begin, EndAnswered, EndThrows, Release, Delete, OpenFails
        <5>3. CASE PlainStep(t)
          BY <4>4, <5>3, PlainUnchanged DEF vars
        <5> QED
          BY <2>3, <4>1, <5>1, <5>2, <5>3 DEF CallStep
      <4> QED
        BY <2>1, <4>1, <4>2, <4>3, <4>4
    <3> QED
      BY <3>1, <3>2, <3>3
  <2>4. ASSUME NEW h \in Ctx, RequestFails(h)
        PROVE  Still(g)
    <3>1. h # g
      BY <2>1, <2>4 DEF RequestFails
    <3> QED
      BY <1>1, <2>2, <2>4, <3>1, StepFrame, ChainAssumption DEF WorksFor
  <2>5. CASE HandlerStep \/ Quiet \/ UNCHANGED allVars
    BY <2>1, <2>5
    DEF HandlerStep, RejectInvalid, StartGroups, AnswerBatch, RejectBatch, Quiet, allVars,
        batchVars, chainVars, vars
  <2> QED
    BY <1>1, <2>3, <2>4, <2>5, StepCases
<1>2. BInv /\ [BatchNext]_allVars => [\A g \in Ctx : Stopped(g) => Still(g)]_allVars
  BY <1>1
<1> QED
  BY BatchInvariance, <1>2, PTL DEF BatchSpec, FailureStopsGroup

----------------------------------------------------------------------------
(* One result each.  What the group function has still to run, behind what *)
(* it has answered, is at every moment the order groupDependsOn made, so a *)
(* batch that is answered has the results of that order.                   *)

OrderOf(g) == RunOrder(groupDependsOn(bundle[g]))

\* The results so far, then what is left to run.
Conserved(g) ==
  /\ group[g] = "waiting" => results[g] = <<>> /\ ~executing[g]
  /\ executing[g] => todo[g] # <<>>
  /\ group[g] \in {"serving", "ending", "done"} =>
       /\ IsValid(bundle[g]) /\ ~Refuses(bundle[g])
       /\ todo[g] \in Seq(Ids(bundle[g]))
       /\ Len(results[g]) + Len(todo[g]) = Len(OrderOf(g))
       /\ \A i \in 1..Len(results[g]) : results[g][i].id = OrderOf(g)[i]
       /\ \A i \in 1..Len(todo[g]) : todo[g][i] = OrderOf(g)[Len(results[g]) + i]
       /\ group[g] # "serving" => todo[g] = <<>>

RInv ==
  /\ BInv /\ bundle \in Bundles
  /\ batch = "answered" => \A g \in Groups : group[g] = "done"
  /\ \A g \in Ctx : Conserved(g)

\* The order of a valid group lists what is not bare, once.
LEMMA OrderLists ==
  ASSUME bundle \in Bundles, NEW g \in Ctx, IsValid(bundle[g])
  PROVE  LET ids == Ids(bundle[g]) \ Bare(bundle[g])
         IN  /\ OrderOf(g) \in Seq(Ids(bundle[g]))
             /\ Len(OrderOf(g)) = Cardinality(ids)
             /\ Range(OrderOf(g)) = ids
<1>1. bundle[g] \in Seq(Request)
  BY BundlesAssumption
<1>2. /\ OrderOf(g) \in Seq(Nat) /\ IsInjective(OrderOf(g))
      /\ Range(OrderOf(g)) = Ids(bundle[g]) \ Bare(bundle[g])
  BY <1>1, RunOrderFacts DEF OrderOf
<1>3. Len(OrderOf(g)) = Cardinality(Range(OrderOf(g)))
  BY <1>2, OnceEach
<1>4. OrderOf(g) \in Seq(Ids(bundle[g]))
  <2>1. Len(OrderOf(g)) \in Nat /\ DOMAIN OrderOf(g) = 1..Len(OrderOf(g))
        /\ OrderOf(g) \in [1..Len(OrderOf(g)) -> Nat]
    BY <1>2
  <2>2. \A i \in 1..Len(OrderOf(g)) : OrderOf(g)[i] \in Ids(bundle[g])
    BY <1>2, <2>1 DEF Range
  <2> QED
    BY <2>1, <2>2
<1> QED
  BY <1>2, <1>3, <1>4

\* Pushing the result of the next request conserves the order.
LEMMA PushConserves ==
  ASSUME RInv, NEW g \in Ctx, NEW outcome,
         group[g] = "serving", todo[g] # <<>>, Push(g, outcome),
         group' = group, bundle' = bundle, ~executing'[g]
  PROVE  Conserved(g)'
<1> DEFINE ids == Ids(bundle[g])
<1>1. /\ todo[g] \in Seq(ids) /\ Len(todo[g]) > 0
      /\ results[g] \in Seq(Range(results[g]))
      /\ IsValid(bundle[g]) /\ ~Refuses(bundle[g])
      /\ Len(results[g]) + Len(todo[g]) = Len(OrderOf(g))
      /\ \A i \in 1..Len(results[g]) : results[g][i].id = OrderOf(g)[i]
      /\ \A i \in 1..Len(todo[g]) : todo[g][i] = OrderOf(g)[Len(results[g]) + i]
      /\ DOMAIN todo = Ctx /\ DOMAIN results = Ctx
  <2>1. Conserved(g) /\ HandlerTypes /\ FailedIsKnown(g)
    BY DEF RInv, BInv, GroupInv
  <2>2. /\ todo[g] \in Seq(ids) /\ results[g] \in Seq(Range(results[g]))
        /\ DOMAIN todo = Ctx /\ DOMAIN results = Ctx
    BY <2>1 DEF Conserved, HandlerTypes, FailedIsKnown
  <2>3. Len(todo[g]) > 0
    BY <2>2
  <2> QED
    BY <2>1, <2>2, <2>3 DEF Conserved
<1>2. /\ todo'[g] = Tail(todo[g])
      /\ results'[g] = Append(results[g], [id |-> Head(todo[g]), outcome |-> outcome])
      /\ OrderOf(g)' = OrderOf(g) /\ IsValid(bundle[g])' /\ ~Refuses(bundle[g])'
      /\ Ids(bundle[g])' = ids
  BY <1>1 DEF Push, OrderOf
<1> HIDE DEF ids
<1>3. /\ todo'[g] \in Seq(ids) /\ Len(todo'[g]) = Len(todo[g]) - 1
      /\ \A i \in 1..Len(todo'[g]) : todo'[g][i] = todo[g][i + 1]
  BY <1>1, <1>2
<1> DEFINE res == [id |-> Head(todo[g]), outcome |-> outcome]
<1>4. /\ Len(results'[g]) = Len(results[g]) + 1
      /\ \A i \in 1..Len(results[g]) : results'[g][i] = results[g][i]
      /\ results'[g][Len(results[g]) + 1] = res
  BY <1>1, <1>2
<1>5. res.id = todo[g][1]
  BY <1>1
<1> HIDE DEF res
<1>6. Len(results'[g]) + Len(todo'[g]) = Len(OrderOf(g)')
  BY <1>1, <1>2, <1>3, <1>4
<1>7. \A i \in 1..Len(results'[g]) : results'[g][i].id = OrderOf(g)'[i]
  BY <1>1, <1>2, <1>3, <1>4, <1>5
<1>8. \A i \in 1..Len(todo'[g]) : todo'[g][i] = OrderOf(g)'[Len(results'[g]) + i]
  BY <1>1, <1>2, <1>3, <1>4
<1> QED
  BY <1>2, <1>3, <1>6, <1>7, <1>8 DEF Conserved

\* StartGroups puts the whole order in todo.
LEMMA StartConserves ==
  ASSUME RInv, NEW g \in Ctx, StartGroups
  PROVE  Conserved(g)'
<1>1. results'[g] = <<>> /\ ~executing'[g] /\ bundle' = bundle
  BY DEF StartGroups, RInv, BInv, ReceivedWaits, Conserved
<1>2. CASE g \notin Groups \/ Refuses(bundle[g])
  BY <1>1, <1>2 DEF StartGroups, Conserved
<1>3. CASE g \in Groups /\ ~Refuses(bundle[g])
  <2>1. group'[g] = "serving" /\ todo'[g] = OrderOf(g) /\ IsValid(bundle[g])
    BY <1>3 DEF StartGroups, OrderOf
  <2>2. OrderOf(g) \in Seq(Ids(bundle[g]))
    BY <2>1, OrderLists DEF RInv
  <2>3. OrderOf(g)' = OrderOf(g)
    BY <1>1 DEF OrderOf
  <2> QED
    BY <1>1, <1>3, <2>1, <2>2, <2>3 DEF Conserved
<1> QED
  BY <1>2, <1>3

\* Every step conserves the order of every group.
LEMMA ConservedStep ==
  ASSUME RInv, [BatchNext]_allVars
  PROVE  /\ bundle' \in Bundles
         /\ batch' = "answered" => \A g \in Groups' : group'[g] = "done"
         /\ \A g \in Ctx : Conserved(g)'
<1>1. bundle' = bundle /\ bundle \in Bundles
  BY StepCases
  DEF RInv, CallStep, PlainStep, HandlerStep, RejectInvalid, StartGroups, AnswerBatch,
      RejectBatch, StartRequest, SkipRequest, UseTransaction, RunStatement, InsertChildren,
      Join, TriggerEvent, RequestSucceeds, RequestFails, EndGroup, GroupReturns, SideWorks,
      EventEnds, SideReturns, SideFails, AnswerStep, AnswerChain, RefuseChain, Quiet,
      allVars, batchVars
<1>0. batch' = "answered" => \A g \in Groups' : group'[g] = "done"
  <2> Groups' = Groups /\ Groups \subseteq Ctx
    BY <1>1 DEF Groups
  <2>1. CASE AnswerBatch
    BY <2>1 DEF AnswerBatch
  <2>2. ASSUME NEW t \in Task, CallStep(t) \/ PlainStep(t) \/ (t \in Ctx /\ RequestFails(t))
        PROVE  batch' = batch /\ \A g \in Ctx : group[g] = "done" => group'[g] = "done"
    BY <2>2, ChainTypes DEF RInv
  <2>3. CASE RejectInvalid \/ StartGroups \/ RejectBatch
    BY <2>3 DEF RejectInvalid, StartGroups, RejectBatch
  <2>4. CASE Quiet \/ UNCHANGED allVars
    BY <2>4 DEF Quiet, allVars, batchVars, RInv
  <2> QED
    BY <2>1, <2>2, <2>3, <2>4, StepCases, ChainAssumption DEF HandlerStep, RInv
<1> SUFFICES ASSUME NEW g \in Ctx
             PROVE  Conserved(g)'
  BY <1>0, <1>1
<1>2. ASSUME UNCHANGED <<todo[g], results[g], bundle>>,
             executing'[g] => group'[g] = "serving" /\ todo[g] # <<>>,
             \/ group'[g] = group[g]
             \/ group[g] = "serving" /\ todo[g] = <<>> /\ group'[g] = "ending"
             \/ group[g] = "ending" /\ group'[g] \in {"done", "threw"}
      PROVE  Conserved(g)'
  <2>1. /\ OrderOf(g)' = OrderOf(g) /\ Ids(bundle[g])' = Ids(bundle[g])
        /\ IsValid(bundle[g])' <=> IsValid(bundle[g])
        /\ Refuses(bundle[g])' <=> Refuses(bundle[g])
    BY <1>2 DEF OrderOf
  <2>2. Conserved(g)
    BY DEF RInv
  <2>3. group[g] = "waiting" => group'[g] = "waiting" /\ ~executing'[g]
    BY <1>2, <2>2 DEF Conserved
  <2>4. group'[g] = "waiting" => group[g] = "waiting"
    BY <1>2
  <2>5. /\ todo'[g] = todo[g] /\ results'[g] = results[g]
        /\ executing'[g] => todo'[g] # <<>>
    BY <1>2
  <2>6. ASSUME group'[g] \in {"serving", "ending", "done"}
        PROVE  /\ group[g] \in {"serving", "ending", "done"}
               /\ group'[g] # "serving" => todo[g] = <<>>
    BY <1>2, <2>2, <2>6 DEF Conserved
  <2> QED
    BY <2>1, <2>2, <2>3, <2>4, <2>5, <2>6 DEF Conserved
<1>3. executing[g] => group[g] = "serving" /\ todo[g] # <<>>
  BY DEF RInv, BInv, GroupInv, ExecutesServed, Conserved
<1>4. ASSUME NEW t \in Task, WorksFor(t) # g,
             CallStep(t) \/ PlainStep(t) \/ (t \in Ctx /\ RequestFails(t))
      PROVE  Conserved(g)'
  BY <1>1, <1>2, <1>3, <1>4, StepFrame DEF RInv, BatchUntouched
<1>5. ASSUME UNCHANGED <<todo, results, group, executing>>
      PROVE  Conserved(g)'
  BY <1>1, <1>2, <1>3, <1>5
<1>6. CASE SkipRequest(g) \/ RequestSucceeds(g) \/ RequestFails(g)
  BY <1>3, <1>6, PushConserves
  DEF SkipRequest, RequestSucceeds, RequestFails, InService, RInv, BInv, HandlerTypes
<1>7. CASE StartRequest(g) \/ EndGroup(g) \/ GroupReturns(g)
  BY <1>1, <1>2, <1>3, <1>7
  DEF StartRequest, EndGroup, GroupReturns, RInv, BInv, HandlerTypes
<1>8. ASSUME NEW t \in Task, WorksFor(t) = g, CallStep(t) \/ PlainStep(t)
      PROVE  Conserved(g)'
  <2>1. CASE t \in Ctx
    <3>1. t = g /\ t \notin Side
      BY <1>8, <2>1, ChainAssumption DEF WorksFor
    <3>2. CASE \/ UseTransaction(g) \/ RunStatement(g) \/ AnswerStep(g) \/ Join(g)
               \/ InsertChildren(g) \/ \E s \in Event : TriggerEvent(g, s)
      BY <1>5, <3>2
      DEF UseTransaction, RunStatement, AnswerStep, AnswerChain, RefuseChain, batchVars,
          Join, InsertChildren, TriggerEvent
    <3> QED
      BY <1>6, <1>7, <1>8, <3>1, <3>2 DEF CallStep, PlainStep
  <2>2. CASE t \notin Ctx
    BY <1>5, <1>8, <2>2
    DEF CallStep, PlainStep, SideWorks, EventEnds, SideReturns, SideFails, AnswerStep,
        AnswerChain, RefuseChain, batchVars
  <2> QED
    BY <2>1, <2>2
<1>9. CASE RejectInvalid \/ AnswerBatch \/ RejectBatch \/ Quiet \/ UNCHANGED allVars
  BY <1>5, <1>9
  DEF RejectInvalid, AnswerBatch, RejectBatch, Quiet, allVars, batchVars
<1>10. ASSUME NEW h \in Ctx, RequestFails(h)
       PROVE  Conserved(g)'
  BY <1>4, <1>6, <1>10, ChainAssumption DEF WorksFor
<1> QED
  BY <1>4, <1>8, <1>9, <1>10, StepCases, StartConserves DEF HandlerStep

\* RInv holds in every state.
LEMMA ResultsInvariance == BatchSpec => []RInv
<1>1. BatchInit => RInv
  BY BatchInitInv DEF BatchInit, RInv, Conserved
<1>2. RInv /\ BInv' /\ [BatchNext]_allVars => RInv'
  BY ConservedStep DEF RInv
<1> QED
  BY BatchInvariance, <1>1, <1>2, PTL DEF BatchSpec

\* A group whose function returned has answered its requests in the order
\* groupDependsOn made, each once and none besides: whichever failed, were
\* skipped after a failure or ran into a refused transaction.
THEOREM ResultsInOrder ==
  BatchSpec => [](\A g \in Ctx : group[g] = "done" =>
                    /\ Len(results[g]) = Len(OrderOf(g))
                    /\ \A i \in 1..Len(results[g]) : results[g][i].id = OrderOf(g)[i])
<1>1. ASSUME RInv, NEW g \in Ctx, group[g] = "done"
      PROVE  /\ Len(results[g]) = Len(OrderOf(g))
             /\ \A i \in 1..Len(results[g]) : results[g][i].id = OrderOf(g)[i]
  <2>1. /\ todo[g] = <<>> /\ results[g] \in Seq(Range(results[g]))
        /\ Len(results[g]) + Len(todo[g]) = Len(OrderOf(g))
        /\ \A i \in 1..Len(results[g]) : results[g][i].id = OrderOf(g)[i]
    BY <1>1 DEF RInv, Conserved, BInv, GroupInv, FailedIsKnown
  <2> QED
    BY <2>1
<1>2. RInv => \A g \in Ctx : group[g] = "done" =>
                /\ Len(results[g]) = Len(OrderOf(g))
                /\ \A i \in 1..Len(results[g]) : results[g][i].id = OrderOf(g)[i]
  BY <1>1
<1> QED
  BY ResultsInvariance, <1>2, PTL

\* So the answer of a batch, however many groups it has and whatever their
\* requests depend on, has exactly one result for each request that is not
\* bare.
THEOREM OneResultEachHolds == BatchSpec => []OneResultEach
<1>1. ASSUME RInv, NEW g \in Ctx, group[g] = "done"
      PROVE  LET ids == Ids(bundle[g]) \ Bare(bundle[g])
             IN  /\ Len(results[g]) = Cardinality(ids)
                 /\ {res.id : res \in Range(results[g])} = ids
  <2>1. /\ todo[g] = <<>> /\ results[g] \in Seq(Range(results[g]))
        /\ Len(results[g]) + Len(todo[g]) = Len(OrderOf(g))
        /\ \A i \in 1..Len(results[g]) : results[g][i].id = OrderOf(g)[i]
    BY <1>1 DEF RInv, Conserved, BInv, GroupInv, FailedIsKnown
  <2>2. /\ OrderOf(g) \in Seq(Ids(bundle[g]))
        /\ Len(OrderOf(g)) = Cardinality(Ids(bundle[g]) \ Bare(bundle[g]))
        /\ Range(OrderOf(g)) = Ids(bundle[g]) \ Bare(bundle[g])
    BY <1>1, OrderLists DEF RInv, Conserved
  <2>3. /\ DOMAIN results[g] = 1..Len(results[g]) /\ Len(results[g]) = Len(OrderOf(g))
        /\ DOMAIN OrderOf(g) = 1..Len(OrderOf(g))
    BY <2>1, <2>2
  <2>4. {res.id : res \in Range(results[g])} = Range(OrderOf(g))
    BY <2>1, <2>3 DEF Range
  <2> QED
    BY <2>2, <2>3, <2>4
<1>2. RInv => OneResultEach
  BY <1>1 DEF OneResultEach, RInv, Groups
<1> QED
  BY ResultsInvariance, <1>2, PTL
=============================================================================
