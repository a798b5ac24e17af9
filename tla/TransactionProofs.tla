------------------------- MODULE TransactionProofs -------------------------
(***************************************************************************)
(* What holds of the transaction store for every set of contexts, tasks    *)
(* and runners, every pool size, every choice of faults: first for callers *)
(* disciplined or not, then for callers that take turns.                   *)
(***************************************************************************)
EXTENDS Transaction, TLAPS

\* A task that is opening a transaction has a runner nobody else has, which
\* holds what the two awaits so far have given it.
Opening(t) == pc[t] \in {"connecting", "beginning"}

OpenersAlone ==
  \A t \in Task : Opening(t) =>
    /\ qr[t] # None
    /\ owner[qr[t]] = ctx[t] /\ ctx[t] # None
    /\ dbtx[qr[t]] = "none"
    /\ phase[qr[t]] = IF pc[t] = "connecting" THEN "created" ELSE "connected"
    /\ \A u \in Task : u # t => qr[u] # qr[t]

\* An entry, and a runner handed out, belongs to its context and has begun.
StoredShape ==
  \A c \in Ctx : storage[c] # None =>
    /\ owner[storage[c]] = c
    /\ dbtx[storage[c]] # "none"
    /\ phase[storage[c]] \in {"connected", "released"}

HandedShape ==
  \A t \in Task : ~Opening(t) /\ qr[t] # None =>
    /\ owner[qr[t]] = ctx[t] /\ ctx[t] # None
    /\ dbtx[qr[t]] # "none"
    /\ phase[qr[t]] \in {"connected", "released"}

\* A task between an accepted COMMIT or ROLLBACK and the end of its call has
\* a runner whose transaction is over.
EndersOver ==
  \A t \in Task : pc[t] \in {"ending", "releasing", "deleting"} =>
    qr[t] # None /\ dbtx[qr[t]] \in Over

\* A runner that was never created has neither transaction nor owner.
UnusedFresh == \A r \in Runner : phase[r] = "unused" => dbtx[r] = "none" /\ owner[r] = None

IInv == /\ TypeOK /\ UnusedFresh /\ OpenersAlone /\ StoredShape /\ HandedShape
        /\ EndersOver /\ ReleasedIsOver

----------------------------------------------------------------------------
\* IInv holds when the process starts, with an empty store.
LEMMA InitInv == Init => IInv
  BY CtxAssumption
  DEF Init, IInv, TypeOK, UnusedFresh, OpenersAlone, Opening, StoredShape, HandedShape,
      EndersOver, ReleasedIsOver, Over

\* getOrCreateTransaction that finds an entry keeps IInv.
LEMMA GetHitInv ==
  ASSUME IInv, NEW t \in Task, NEW c \in Ctx, GetHit(t, c)
  PROVE  IInv'
<1>1. TypeOK'
  BY DEF IInv, GetHit, TypeOK
<1>2. UnusedFresh'
  BY DEF IInv, GetHit, UnusedFresh
<1>3. OpenersAlone'
  BY DEF IInv, GetHit, OpenersAlone, StoredShape, Opening, Free
<1>4. StoredShape'
  BY DEF IInv, GetHit, StoredShape
<1>5. HandedShape'
  BY CtxAssumption DEF IInv, GetHit, TypeOK, HandedShape, StoredShape, Opening
<1>6. EndersOver'
  BY DEF IInv, GetHit, EndersOver, Free
<1>7. ReleasedIsOver'
  BY DEF IInv, GetHit, ReleasedIsOver
<1> QED
  BY <1>1, <1>2, <1>3, <1>4, <1>5, <1>6, <1>7 DEF IInv

\* getOrCreateTransaction that creates a runner keeps IInv.
LEMMA GetMissInv ==
  ASSUME IInv, NEW t \in Task, NEW c \in Ctx, GetMiss(t, c)
  PROVE  IInv'
<1> PICK r \in Runner :
     /\ phase[r] = "unused"
     /\ phase' = [phase EXCEPT ![r] = "created"]
     /\ owner' = [owner EXCEPT ![r] = c]
     /\ qr' = [qr EXCEPT ![t] = r]
  BY DEF GetMiss
<1>1. /\ dbtx[r] = "none"
      /\ \A d \in Ctx : storage[d] # r
      /\ \A u \in Task : qr[u] # r
  BY RunnerAssumption DEF IInv, UnusedFresh, OpenersAlone, StoredShape, HandedShape
<1>2. TypeOK'
  BY DEF IInv, GetMiss, TypeOK
<1>3. UnusedFresh'
  BY DEF IInv, TypeOK, GetMiss, UnusedFresh
<1>4. OpenersAlone'
  <2> SUFFICES ASSUME NEW u \in Task, Opening(u)'
               PROVE  /\ qr'[u] # None
                      /\ owner'[qr'[u]] = ctx'[u] /\ ctx'[u] # None
                      /\ dbtx'[qr'[u]] = "none"
                      /\ phase'[qr'[u]] = IF pc'[u] = "connecting" THEN "created"
                                         ELSE "connected"
                      /\ \A v \in Task : v # u => qr'[v] # qr'[u]
    BY DEF OpenersAlone
  <2>1. CASE u = t
    BY RunnerAssumption, CtxAssumption
    DEF IInv, GetMiss, TypeOK, UnusedFresh, OpenersAlone, HandedShape, Opening
  <2>2. CASE u # t
    BY RunnerAssumption, CtxAssumption
    DEF IInv, GetMiss, TypeOK, UnusedFresh, OpenersAlone, HandedShape, Opening
  <2> QED
    BY <2>1, <2>2
<1>5. StoredShape'
  BY DEF IInv, GetMiss, StoredShape
<1>6. HandedShape'
  BY DEF IInv, GetMiss, TypeOK, HandedShape, Opening
<1>7. EndersOver'
  BY DEF IInv, GetMiss, EndersOver, Free
<1>8. ReleasedIsOver'
  BY DEF IInv, GetMiss, ReleasedIsOver
<1> QED
  BY <1>2, <1>3, <1>4, <1>5, <1>6, <1>7, <1>8 DEF IInv

\* connect() that is answered keeps IInv.
LEMMA ConnectInv ==
  ASSUME IInv, NEW t \in Task, Connect(t)
  PROVE  IInv'
<1>1. TypeOK'
  BY DEF IInv, Connect, TypeOK
<1>2. UnusedFresh'
  BY DEF IInv, Connect, UnusedFresh
<1>3. OpenersAlone'
  BY DEF IInv, Connect, TypeOK, OpenersAlone, Opening
<1>4. StoredShape'
  BY DEF IInv, Connect, StoredShape
<1>5. HandedShape'
  BY DEF IInv, Connect, HandedShape, Opening
<1>6. EndersOver'
  BY DEF IInv, Connect, EndersOver
<1>7. ReleasedIsOver'
  BY DEF IInv, Connect, ReleasedIsOver
<1> QED
  BY <1>1, <1>2, <1>3, <1>4, <1>5, <1>6, <1>7 DEF IInv

\* startTransaction() that is answered, with the runner stored, keeps IInv.
LEMMA BeginInv ==
  ASSUME IInv, NEW t \in Task, Begin(t)
  PROVE  IInv'
<1>1. TypeOK'
  BY DEF IInv, Begin, TypeOK
<1>2. UnusedFresh'
  BY DEF IInv, Begin, UnusedFresh, OpenersAlone, Opening
<1>3. OpenersAlone'
  BY DEF IInv, Begin, TypeOK, OpenersAlone, Opening
<1>4. StoredShape'
  BY DEF IInv, Begin, TypeOK, StoredShape, OpenersAlone, Opening
<1>5. HandedShape'
  BY DEF IInv, Begin, TypeOK, HandedShape, OpenersAlone, Opening
<1>6. EndersOver'
  BY DEF IInv, Begin, EndersOver, OpenersAlone, Opening
<1>7. ReleasedIsOver'
  BY DEF IInv, Begin, ReleasedIsOver, OpenersAlone, Opening
<1> QED
  BY <1>1, <1>2, <1>3, <1>4, <1>5, <1>6, <1>7 DEF IInv

\* connect() or startTransaction() that rejects keeps IInv.
LEMMA OpenFailsInv ==
  ASSUME IInv, NEW t \in Task, OpenFails(t)
  PROVE  IInv'
<1>1. TypeOK'
  BY DEF IInv, OpenFails, TypeOK
<1>2. UnusedFresh'
  BY DEF IInv, OpenFails, UnusedFresh
<1>3. OpenersAlone'
  BY DEF IInv, OpenFails, TypeOK, OpenersAlone, Opening
<1>4. StoredShape'
  BY DEF IInv, OpenFails, StoredShape
<1>5. HandedShape'
  BY DEF IInv, OpenFails, TypeOK, HandedShape, Opening
<1>6. EndersOver'
  BY DEF IInv, OpenFails, EndersOver
<1>7. ReleasedIsOver'
  BY DEF IInv, OpenFails, ReleasedIsOver
<1> QED
  BY <1>1, <1>2, <1>3, <1>4, <1>5, <1>6, <1>7 DEF IInv

\* A statement keeps IInv.
LEMMA WriteInv ==
  ASSUME IInv, NEW t \in Task, Write(t)
  PROVE  IInv'
<1>1. TypeOK'
  BY DEF IInv, Write, TypeOK
<1>2. UnusedFresh'
  BY DEF IInv, Write, UnusedFresh
<1>3. OpenersAlone'
  BY DEF IInv, Write, OpenersAlone, Opening
<1>4. StoredShape'
  BY DEF IInv, Write, StoredShape
<1>5. HandedShape'
  BY DEF IInv, Write, HandedShape, Opening, Free
<1>6. EndersOver'
  BY DEF IInv, Write, EndersOver
<1>7. ReleasedIsOver'
  BY DEF IInv, Write, ReleasedIsOver
<1> QED
  BY <1>1, <1>2, <1>3, <1>4, <1>5, <1>6, <1>7 DEF IInv

\* A statement that a released runner refuses keeps IInv.
LEMMA WriteThrowsInv ==
  ASSUME IInv, NEW t \in Task, WriteThrows(t)
  PROVE  IInv'
<1>1. TypeOK'
  BY DEF IInv, WriteThrows, TypeOK
<1>2. UnusedFresh'
  BY DEF IInv, WriteThrows, UnusedFresh
<1>3. OpenersAlone'
  BY DEF IInv, WriteThrows, OpenersAlone, Opening
<1>4. StoredShape'
  BY DEF IInv, WriteThrows, StoredShape
<1>5. HandedShape'
  BY DEF IInv, WriteThrows, HandedShape, Opening, Free
<1>6. EndersOver'
  BY DEF IInv, WriteThrows, EndersOver
<1>7. ReleasedIsOver'
  BY DEF IInv, WriteThrows, ReleasedIsOver
<1> QED
  BY <1>1, <1>2, <1>3, <1>4, <1>5, <1>6, <1>7 DEF IInv

\* COMMIT or ROLLBACK that the database accepts keeps IInv.
LEMMA EndCallInv ==
  ASSUME IInv, NEW t \in Task, NEW c \in Ctx, NEW fate \in Over, EndCall(t, c, fate)
  PROVE  IInv'
<1>1. TypeOK'
  BY DEF IInv, EndCall, TypeOK
<1>2. UnusedFresh'
  BY DEF IInv, EndCall, UnusedFresh
<1>3. OpenersAlone'
  BY DEF IInv, EndCall, OpenersAlone, StoredShape, Opening, Free
<1>4. StoredShape'
  BY DEF IInv, EndCall, StoredShape, Over
<1>5. HandedShape'
  BY CtxAssumption DEF IInv, EndCall, TypeOK, HandedShape, StoredShape, Opening, Over
<1>6. EndersOver'
  BY DEF IInv, EndCall, TypeOK, EndersOver, StoredShape
<1>7. ReleasedIsOver'
  BY DEF IInv, EndCall, ReleasedIsOver
<1> QED
  BY <1>1, <1>2, <1>3, <1>4, <1>5, <1>6, <1>7 DEF IInv

\* COMMIT or ROLLBACK that the database refuses keeps IInv.
LEMMA EndCallRefusedInv ==
  ASSUME IInv, NEW t \in Task, NEW c \in Ctx, NEW fate \in Over, EndCallRefused(t, c, fate)
  PROVE  IInv'
<1>1. TypeOK'
  BY DEF IInv, EndCallRefused, TypeOK, Over
<1>2. UnusedFresh'
  BY DEF IInv, EndCallRefused, TypeOK, UnusedFresh
<1>3. OpenersAlone'
  BY DEF IInv, EndCallRefused, TypeOK, OpenersAlone, StoredShape, Opening
<1>4. StoredShape'
  BY DEF IInv, EndCallRefused, TypeOK, StoredShape
<1>5. HandedShape'
  BY CtxAssumption DEF IInv, EndCallRefused, TypeOK, HandedShape, StoredShape, Opening
<1>6. EndersOver'
  BY DEF IInv, EndCallRefused, TypeOK, EndersOver, Over
<1>7. ReleasedIsOver'
  BY DEF IInv, EndCallRefused, TypeOK, ReleasedIsOver
<1> QED
  BY <1>1, <1>2, <1>3, <1>4, <1>5, <1>6, <1>7 DEF IInv

\* A commit or rollback of a transaction that has just ended keeps IInv.
LEMMA EndNotStartedInv ==
  ASSUME IInv, NEW t \in Task, NEW c \in Ctx, EndNotStarted(t, c)
  PROVE  IInv'
<1>1. TypeOK'
  BY DEF IInv, EndNotStarted, TypeOK
<1>2. UnusedFresh'
  BY DEF IInv, EndNotStarted, UnusedFresh
<1>3. OpenersAlone'
  BY DEF IInv, EndNotStarted, OpenersAlone, StoredShape, Opening, Free
<1>4. StoredShape'
  BY DEF IInv, EndNotStarted, StoredShape
<1>5. HandedShape'
  BY CtxAssumption DEF IInv, EndNotStarted, TypeOK, HandedShape, StoredShape, Opening
<1>6. EndersOver'
  BY DEF IInv, EndNotStarted, EndersOver, Free
<1>7. ReleasedIsOver'
  BY DEF IInv, EndNotStarted, ReleasedIsOver
<1> QED
  BY <1>1, <1>2, <1>3, <1>4, <1>5, <1>6, <1>7 DEF IInv

\* A commit or rollback that finds a released runner keeps IInv.
LEMMA EndReleasedInv ==
  ASSUME IInv, NEW t \in Task, NEW c \in Ctx, EndReleased(t, c)
  PROVE  IInv'
<1>1. TypeOK'
  BY DEF IInv, EndReleased, TypeOK
<1>2. UnusedFresh'
  BY DEF IInv, EndReleased, UnusedFresh
<1>3. OpenersAlone'
  BY DEF IInv, EndReleased, OpenersAlone, Opening, Free
<1>4. StoredShape'
  BY DEF IInv, EndReleased, StoredShape
<1>5. HandedShape'
  BY CtxAssumption DEF IInv, EndReleased, TypeOK, HandedShape, StoredShape, Opening
<1>6. EndersOver'
  BY DEF IInv, EndReleased, EndersOver, Free
<1>7. ReleasedIsOver'
  BY DEF IInv, EndReleased, ReleasedIsOver
<1> QED
  BY <1>1, <1>2, <1>3, <1>4, <1>5, <1>6, <1>7 DEF IInv

\* A commit or rollback without an entry keeps IInv.
LEMMA EndMissInv ==
  ASSUME IInv, NEW t \in Task, NEW c \in Ctx, EndMiss(t, c)
  PROVE  IInv'
<1>1. TypeOK'
  BY DEF IInv, EndMiss, TypeOK
<1>2. UnusedFresh'
  BY DEF IInv, EndMiss, UnusedFresh
<1>3. OpenersAlone'
  BY DEF IInv, EndMiss, OpenersAlone, Opening
<1>4. StoredShape'
  BY DEF IInv, EndMiss, StoredShape
<1>5. HandedShape'
  BY DEF IInv, EndMiss, HandedShape, Opening, Free
<1>6. EndersOver'
  BY DEF IInv, EndMiss, EndersOver
<1>7. ReleasedIsOver'
  BY DEF IInv, EndMiss, ReleasedIsOver
<1> QED
  BY <1>1, <1>2, <1>3, <1>4, <1>5, <1>6, <1>7 DEF IInv

\* The answer to COMMIT or ROLLBACK keeps IInv.
LEMMA EndAnsweredInv ==
  ASSUME IInv, NEW t \in Task, EndAnswered(t)
  PROVE  IInv'
<1>1. TypeOK'
  BY DEF IInv, EndAnswered, TypeOK
<1>2. UnusedFresh'
  BY DEF IInv, EndAnswered, UnusedFresh
<1>3. OpenersAlone'
  BY DEF IInv, EndAnswered, OpenersAlone, Opening
<1>4. StoredShape'
  BY DEF IInv, EndAnswered, StoredShape
<1>5. HandedShape'
  BY DEF IInv, EndAnswered, HandedShape, Opening
<1>6. EndersOver'
  BY DEF IInv, EndAnswered, EndersOver
<1>7. ReleasedIsOver'
  BY DEF IInv, EndAnswered, ReleasedIsOver
<1> QED
  BY <1>1, <1>2, <1>3, <1>4, <1>5, <1>6, <1>7 DEF IInv

\* The refusal of COMMIT or ROLLBACK keeps IInv.
LEMMA EndThrowsInv ==
  ASSUME IInv, NEW t \in Task, EndThrows(t)
  PROVE  IInv'
<1>1. TypeOK'
  BY DEF IInv, EndThrows, TypeOK
<1>2. UnusedFresh'
  BY DEF IInv, EndThrows, UnusedFresh
<1>3. OpenersAlone'
  BY DEF IInv, EndThrows, OpenersAlone, Opening
<1>4. StoredShape'
  BY DEF IInv, EndThrows, StoredShape
<1>5. HandedShape'
  BY DEF IInv, EndThrows, HandedShape, Opening
<1>6. EndersOver'
  BY DEF IInv, EndThrows, EndersOver
<1>7. ReleasedIsOver'
  BY DEF IInv, EndThrows, ReleasedIsOver
<1> QED
  BY <1>1, <1>2, <1>3, <1>4, <1>5, <1>6, <1>7 DEF IInv

\* releaseTransaction keeps IInv.
LEMMA ReleaseInv ==
  ASSUME IInv, NEW t \in Task, Release(t)
  PROVE  IInv'
<1>1. TypeOK'
  BY DEF IInv, Release, TypeOK
<1>2. UnusedFresh'
  BY DEF IInv, Release, UnusedFresh
<1>3. OpenersAlone'
  BY DEF IInv, Release, OpenersAlone, Opening
<1>4. StoredShape'
  BY DEF IInv, Release, StoredShape
<1>5. HandedShape'
  BY DEF IInv, Release, HandedShape, Opening
<1>6. EndersOver'
  BY DEF IInv, Release, EndersOver
<1>7. ReleasedIsOver'
  BY DEF IInv, Release, ReleasedIsOver, EndersOver
<1> QED
  BY <1>1, <1>2, <1>3, <1>4, <1>5, <1>6, <1>7 DEF IInv

\* The deletion of the entry keeps IInv.
LEMMA DeleteInv ==
  ASSUME IInv, NEW t \in Task, Delete(t)
  PROVE  IInv'
<1>1. TypeOK'
  BY DEF IInv, Delete, TypeOK
<1>2. UnusedFresh'
  BY DEF IInv, Delete, UnusedFresh
<1>3. OpenersAlone'
  BY DEF IInv, Delete, OpenersAlone, Opening
<1>4. StoredShape'
  BY DEF IInv, Delete, StoredShape
<1>5. HandedShape'
  BY DEF IInv, Delete, HandedShape, Opening
<1>6. EndersOver'
  BY DEF IInv, Delete, EndersOver
<1>7. ReleasedIsOver'
  BY DEF IInv, Delete, ReleasedIsOver
<1> QED
  BY <1>1, <1>2, <1>3, <1>4, <1>5, <1>6, <1>7 DEF IInv

----------------------------------------------------------------------------
\* Every step of the store, and a step that leaves it alone, keeps IInv.
LEMMA NextInv ==
  ASSUME IInv, [Next]_vars
  PROVE  IInv'
<1>1. CASE Next
  <2> SUFFICES ASSUME NEW t \in Task,
                      \/ \E c \in Ctx : Get(t, c) \/ \E fate \in Over : End(t, c, fate)
                      \/ Write(t) \/ WriteThrows(t)
                      \/ Answer(t) \/ OpenFails(t)
               PROVE  IInv'
    BY <1>1 DEF Next
  <2>1. ASSUME NEW c \in Ctx, Get(t, c)
        PROVE  IInv'
    BY <2>1, GetHitInv, GetMissInv DEF Get
  <2>2. ASSUME NEW c \in Ctx, NEW fate \in Over, End(t, c, fate)
        PROVE  IInv'
    BY <2>2, EndCallInv, EndCallRefusedInv, EndNotStartedInv, EndReleasedInv, EndMissInv
    DEF End
  <2>3. CASE Write(t) \/ WriteThrows(t)
    BY <2>3, WriteInv, WriteThrowsInv
  <2>4. CASE Answer(t) \/ OpenFails(t)
    BY <2>4, ConnectInv, BeginInv, OpenFailsInv, EndAnsweredInv, EndThrowsInv, ReleaseInv,
       DeleteInv
    DEF Answer
  <2> QED
    BY <2>1, <2>2, <2>3, <2>4
<1>2. CASE UNCHANGED vars
  BY <1>2
  DEF vars, IInv, TypeOK, UnusedFresh, OpenersAlone, Opening, StoredShape, HandedShape,
      EndersOver, ReleasedIsOver
<1> QED
  BY <1>1, <1>2

\* IInv holds in every state of every behaviour of the store.
LEMMA Invariance == Spec => []IInv
<1>1. IInv /\ [Next]_vars => IInv'
  BY NextInv
<1> QED
  BY InitInv, <1>1, PTL DEF Spec

----------------------------------------------------------------------------
\* The variables of the store keep their types, whatever its callers do.
THEOREM TypeCorrect == Spec => []TypeOK
<1>1. IInv => TypeOK
  BY DEF IInv
<1> QED
  BY Invariance, <1>1, PTL

\* No context ever gets at the transaction of another one: what is stored
\* under a uuid, and what getOrCreateTransaction hands out for it, is a
\* runner created for that uuid.
THEOREM IsolationHolds == Spec => []Isolation
<1>1. IInv => Isolation
  BY DEF IInv, Isolation, StoredShape, HandedShape, OpenersAlone, Opening
<1> QED
  BY Invariance, <1>1, PTL

\* No statement of a context can run before START TRANSACTION was answered:
\* getOrCreateTransaction stores and returns a runner only after that.
THEOREM BegunBeforeUseHolds == Spec => []BegunBeforeUse
<1>1. IInv => BegunBeforeUse
  BY DEF IInv, BegunBeforeUse, StoredShape, HandedShape, Opening, Free
<1> QED
  BY Invariance, <1>1, PTL

\* A connection goes back to the pool only when its transaction is over:
\* releaseTransaction follows the awaited commit or rollback, also when two
\* calls end one context at the same time.
THEOREM ReleasedIsOverHolds == Spec => []ReleasedIsOver
<1>1. IInv => ReleasedIsOver
  BY DEF IInv
<1> QED
  BY Invariance, <1>1, PTL

-----------------------------------------------------------------------------
(* What holds when the callers of a context take turns and stop when its   *)
(* transaction is over (Disciplined); and that such callers see the store  *)
(* implement the contract of a transaction context: every step is a step   *)
(* of TransactionContract or leaves what it describes as it is.            *)

\* One call at a time is under way on a context.
TakeTurns ==
  \A t, u \in Task : ~Free(t) /\ ~Free(u) /\ ctx[t] = ctx[u] => t = u

\* A transaction that began is the stored one of its context, or is over.
BegunKnown ==
  \A r \in Runner : dbtx[r] # "none" => storage[owner[r]] = r \/ dbtx[r] \in Over

\* No transaction of a context has begun while one is being opened for it.
OpenersFresh ==
  \A t \in Task : Opening(t) =>
    \A r \in Runner : owner[r] = ctx[t] => dbtx[r] = "none"

\* Who ends a transaction has the stored runner of the context in its hands
\* until it deletes the entry, and has released it by then.
EndersKnown ==
  \A t \in Task : pc[t] \in {"ending", "refused", "releasing", "deleting"} =>
    /\ qr[t] # None /\ ctx[t] # None
    /\ storage[ctx[t]] = qr[t]
    /\ pc[t] = "deleting" => phase[qr[t]] = "released"

DInv == TakeTurns /\ BegunKnown /\ OpenersFresh /\ EndersKnown /\ SingleTransaction

----------------------------------------------------------------------------

\* getOrCreateTransaction that finds an entry keeps DInv.
LEMMA GetHitTurns ==
  ASSUME Disciplined, IInv, DInv, NEW t \in Task, NEW c \in Ctx, GetHit(t, c)
  PROVE  DInv'
<1>1. TakeTurns'
  BY DEF GetHit, DInv, TakeTurns, Free
<1>2. BegunKnown'
  BY DEF GetHit, DInv, BegunKnown
<1>3. OpenersFresh'
  BY DEF GetHit, DInv, OpenersFresh, Opening, Free
<1>4. EndersKnown'
  BY DEF GetHit, DInv, EndersKnown, Free
<1>5. SingleTransaction'
  BY DEF GetHit, DInv, SingleTransaction
<1> QED
  BY <1>1, <1>2, <1>3, <1>4, <1>5 DEF DInv

\* getOrCreateTransaction that creates a runner keeps DInv.
LEMMA GetMissTurns ==
  ASSUME Disciplined, IInv, DInv, NEW t \in Task, NEW c \in Ctx, GetMiss(t, c)
  PROVE  DInv'
<1>1. TakeTurns'
  BY DEF GetMiss, IInv, TypeOK, DInv, TakeTurns, Free, MayCall
<1>2. BegunKnown'
  BY DEF GetMiss, IInv, UnusedFresh, DInv, BegunKnown
<1>3. OpenersFresh'
  BY RunnerAssumption
  DEF GetMiss, IInv, TypeOK, UnusedFresh, Opening, DInv, BegunKnown, OpenersFresh, MayUse
<1>4. EndersKnown'
  BY DEF GetMiss, DInv, EndersKnown, Free
<1>5. SingleTransaction'
  BY RunnerAssumption DEF GetMiss, DInv, BegunKnown, SingleTransaction, MayUse
<1> QED
  BY <1>1, <1>2, <1>3, <1>4, <1>5 DEF DInv

\* connect() that is answered keeps DInv.
LEMMA ConnectTurns ==
  ASSUME Disciplined, IInv, DInv, NEW t \in Task, Connect(t)
  PROVE  DInv'
<1>1. TakeTurns'
  BY DEF Connect, DInv, TakeTurns, Free
<1>2. BegunKnown'
  BY DEF Connect, DInv, BegunKnown
<1>3. OpenersFresh'
  BY DEF Connect, DInv, OpenersFresh, Opening
<1>4. EndersKnown'
  BY DEF Connect, IInv, DInv, EndersKnown, Opening, OpenersAlone
<1>5. SingleTransaction'
  BY DEF Connect, DInv, SingleTransaction
<1> QED
  BY <1>1, <1>2, <1>3, <1>4, <1>5 DEF DInv

\* startTransaction() that is answered, with the runner stored, keeps DInv.
LEMMA BeginTurns ==
  ASSUME Disciplined, IInv, DInv, NEW t \in Task, Begin(t)
  PROVE  DInv'
<1>1. TakeTurns'
  BY DEF Begin, DInv, TakeTurns, Free
<1>2. BegunKnown'
  BY DEF Begin, IInv, TypeOK, OpenersAlone, Opening, DInv, BegunKnown, OpenersFresh
<1>3. OpenersFresh'
  BY DEF Begin, IInv, TypeOK, DInv, OpenersFresh, Opening, Free, OpenersAlone, TakeTurns
<1>4. EndersKnown'
  BY DEF Begin, DInv, EndersKnown, Free, TakeTurns
<1>5. SingleTransaction'
  BY DEF Begin, IInv, OpenersAlone, Opening, DInv, OpenersFresh, SingleTransaction
<1> QED
  BY <1>1, <1>2, <1>3, <1>4, <1>5 DEF DInv

\* connect() or startTransaction() that rejects keeps DInv.
LEMMA OpenFailsTurns ==
  ASSUME Disciplined, IInv, DInv, NEW t \in Task, OpenFails(t)
  PROVE  DInv'
<1>1. TakeTurns'
  BY DEF OpenFails, DInv, TakeTurns, Free
<1>2. BegunKnown'
  BY DEF OpenFails, DInv, BegunKnown
<1>3. OpenersFresh'
  BY DEF OpenFails, DInv, OpenersFresh, Opening
<1>4. EndersKnown'
  BY DEF OpenFails, DInv, EndersKnown
<1>5. SingleTransaction'
  BY DEF OpenFails, DInv, SingleTransaction
<1> QED
  BY <1>1, <1>2, <1>3, <1>4, <1>5 DEF DInv

\* A statement keeps DInv.
LEMMA WriteTurns ==
  ASSUME Disciplined, IInv, DInv, NEW t \in Task, Write(t)
  PROVE  DInv'
<1>1. TakeTurns'
  BY DEF Write, DInv, TakeTurns, Free
<1>2. BegunKnown'
  BY DEF Write, DInv, BegunKnown
<1>3. OpenersFresh'
  BY DEF Write, DInv, OpenersFresh, Opening
<1>4. EndersKnown'
  BY DEF Write, DInv, EndersKnown
<1>5. SingleTransaction'
  BY DEF Write, DInv, SingleTransaction
<1> QED
  BY <1>1, <1>2, <1>3, <1>4, <1>5 DEF DInv

\* A statement that a released runner refuses keeps DInv.
LEMMA WriteThrowsTurns ==
  ASSUME Disciplined, IInv, DInv, NEW t \in Task, WriteThrows(t)
  PROVE  DInv'
<1>1. TakeTurns'
  BY DEF WriteThrows, DInv, TakeTurns, Free
<1>2. BegunKnown'
  BY DEF WriteThrows, DInv, BegunKnown
<1>3. OpenersFresh'
  BY DEF WriteThrows, DInv, OpenersFresh, Opening
<1>4. EndersKnown'
  BY DEF WriteThrows, DInv, EndersKnown
<1>5. SingleTransaction'
  BY DEF WriteThrows, DInv, SingleTransaction
<1> QED
  BY <1>1, <1>2, <1>3, <1>4, <1>5 DEF DInv

\* COMMIT or ROLLBACK that the database accepts keeps DInv.
LEMMA EndCallTurns ==
  ASSUME Disciplined, IInv, DInv, NEW t \in Task, NEW c \in Ctx, NEW fate \in Over,
         EndCall(t, c, fate)
  PROVE  DInv'
<1>1. TakeTurns'
  BY DEF EndCall, IInv, TypeOK, DInv, TakeTurns, Free, MayCall
<1>2. BegunKnown'
  BY DEF EndCall, DInv, BegunKnown
<1>3. OpenersFresh'
  BY DEF EndCall, DInv, OpenersFresh, Opening, Free
<1>4. EndersKnown'
  BY CtxAssumption DEF EndCall, IInv, TypeOK, DInv, EndersKnown
<1>5. SingleTransaction'
  BY DEF EndCall, DInv, SingleTransaction
<1> QED
  BY <1>1, <1>2, <1>3, <1>4, <1>5 DEF DInv

\* COMMIT or ROLLBACK that the database refuses keeps DInv.
LEMMA EndCallRefusedTurns ==
  ASSUME Disciplined, IInv, DInv, NEW t \in Task, NEW c \in Ctx, NEW fate \in Over,
         EndCallRefused(t, c, fate)
  PROVE  DInv'
<1>1. TakeTurns'
  BY DEF EndCallRefused, IInv, TypeOK, DInv, TakeTurns, Free, MayCall
<1>2. BegunKnown'
  BY DEF EndCallRefused, IInv, TypeOK, DInv, BegunKnown, StoredShape
<1>3. OpenersFresh'
  BY DEF EndCallRefused, IInv, TypeOK, DInv, OpenersFresh, Opening
<1>4. EndersKnown'
  BY CtxAssumption DEF EndCallRefused, IInv, TypeOK, DInv, EndersKnown
<1>5. SingleTransaction'
  BY DEF EndCallRefused, IInv, TypeOK, DInv, SingleTransaction
<1> QED
  BY <1>1, <1>2, <1>3, <1>4, <1>5 DEF DInv

\* A commit or rollback of a transaction that has just ended keeps DInv.
LEMMA EndNotStartedTurns ==
  ASSUME Disciplined, IInv, DInv, NEW t \in Task, NEW c \in Ctx, EndNotStarted(t, c)
  PROVE  DInv'
<1>1. TakeTurns'
  BY DEF EndNotStarted, DInv, TakeTurns, Free
<1>2. BegunKnown'
  BY DEF EndNotStarted, DInv, BegunKnown
<1>3. OpenersFresh'
  BY DEF EndNotStarted, DInv, OpenersFresh, Opening, Free
<1>4. EndersKnown'
  BY DEF EndNotStarted, DInv, EndersKnown, Free
<1>5. SingleTransaction'
  BY DEF EndNotStarted, DInv, SingleTransaction
<1> QED
  BY <1>1, <1>2, <1>3, <1>4, <1>5 DEF DInv

\* A commit or rollback that finds a released runner keeps DInv.
LEMMA EndReleasedTurns ==
  ASSUME Disciplined, IInv, DInv, NEW t \in Task, NEW c \in Ctx, EndReleased(t, c)
  PROVE  DInv'
<1>1. TakeTurns'
  BY DEF EndReleased, DInv, TakeTurns, Free
<1>2. BegunKnown'
  BY DEF EndReleased, IInv, ReleasedIsOver, DInv, BegunKnown
<1>3. OpenersFresh'
  BY DEF EndReleased, DInv, OpenersFresh, Opening, Free
<1>4. EndersKnown'
  BY DEF EndReleased, DInv, EndersKnown, Free, MayCall
<1>5. SingleTransaction'
  BY DEF EndReleased, DInv, SingleTransaction
<1> QED
  BY <1>1, <1>2, <1>3, <1>4, <1>5 DEF DInv

\* A commit or rollback without an entry keeps DInv.
LEMMA EndMissTurns ==
  ASSUME Disciplined, IInv, DInv, NEW t \in Task, NEW c \in Ctx, EndMiss(t, c)
  PROVE  DInv'
<1>1. TakeTurns'
  BY DEF EndMiss, DInv, TakeTurns, Free
<1>2. BegunKnown'
  BY DEF EndMiss, DInv, BegunKnown
<1>3. OpenersFresh'
  BY DEF EndMiss, DInv, OpenersFresh, Opening
<1>4. EndersKnown'
  BY DEF EndMiss, DInv, EndersKnown
<1>5. SingleTransaction'
  BY DEF EndMiss, DInv, SingleTransaction
<1> QED
  BY <1>1, <1>2, <1>3, <1>4, <1>5 DEF DInv

\* The answer to COMMIT or ROLLBACK keeps DInv.
LEMMA EndAnsweredTurns ==
  ASSUME Disciplined, IInv, DInv, NEW t \in Task, EndAnswered(t)
  PROVE  DInv'
<1>1. TakeTurns'
  BY DEF EndAnswered, DInv, TakeTurns, Free
<1>2. BegunKnown'
  BY DEF EndAnswered, DInv, BegunKnown
<1>3. OpenersFresh'
  BY DEF EndAnswered, DInv, OpenersFresh, Opening
<1>4. EndersKnown'
  BY DEF EndAnswered, DInv, EndersKnown
<1>5. SingleTransaction'
  BY DEF EndAnswered, DInv, SingleTransaction
<1> QED
  BY <1>1, <1>2, <1>3, <1>4, <1>5 DEF DInv

\* The refusal of COMMIT or ROLLBACK keeps DInv.
LEMMA EndThrowsTurns ==
  ASSUME Disciplined, IInv, DInv, NEW t \in Task, EndThrows(t)
  PROVE  DInv'
<1>1. TakeTurns'
  BY DEF EndThrows, DInv, TakeTurns, Free
<1>2. BegunKnown'
  BY DEF EndThrows, DInv, BegunKnown
<1>3. OpenersFresh'
  BY DEF EndThrows, DInv, OpenersFresh, Opening
<1>4. EndersKnown'
  BY DEF EndThrows, DInv, EndersKnown
<1>5. SingleTransaction'
  BY DEF EndThrows, DInv, SingleTransaction
<1> QED
  BY <1>1, <1>2, <1>3, <1>4, <1>5 DEF DInv

\* releaseTransaction keeps DInv.
LEMMA ReleaseTurns ==
  ASSUME Disciplined, IInv, DInv, NEW t \in Task, Release(t)
  PROVE  DInv'
<1>1. TakeTurns'
  BY DEF Release, DInv, TakeTurns, Free
<1>2. BegunKnown'
  BY DEF Release, DInv, BegunKnown
<1>3. OpenersFresh'
  BY DEF Release, DInv, OpenersFresh, Opening
<1>4. EndersKnown'
  BY DEF Release, IInv, TypeOK, DInv, EndersKnown
<1>5. SingleTransaction'
  BY DEF Release, DInv, SingleTransaction
<1> QED
  BY <1>1, <1>2, <1>3, <1>4, <1>5 DEF DInv

\* The deletion of the entry keeps DInv.
LEMMA DeleteTurns ==
  ASSUME Disciplined, IInv, DInv, NEW t \in Task, Delete(t)
  PROVE  DInv'
<1>1. TakeTurns'
  BY DEF Delete, DInv, TakeTurns, Free
<1>2. BegunKnown'
  BY DEF Delete, IInv, ReleasedIsOver, DInv, BegunKnown, EndersKnown
<1>3. OpenersFresh'
  BY DEF Delete, DInv, OpenersFresh, Opening
<1>4. EndersKnown'
  BY DEF Delete, IInv, TypeOK, DInv, EndersKnown, Free, TakeTurns
<1>5. SingleTransaction'
  BY DEF Delete, DInv, SingleTransaction
<1> QED
  BY <1>1, <1>2, <1>3, <1>4, <1>5 DEF DInv

----------------------------------------------------------------------------
\* Every step of disciplined callers keeps DInv.
LEMMA NextTurns ==
  ASSUME Disciplined, IInv, DInv, [Next]_vars
  PROVE  DInv'
<1>1. CASE Next
  <2> SUFFICES ASSUME NEW t \in Task,
                      \/ \E c \in Ctx : Get(t, c) \/ \E fate \in Over : End(t, c, fate)
                      \/ Write(t) \/ WriteThrows(t)
                      \/ Answer(t) \/ OpenFails(t)
               PROVE  DInv'
    BY <1>1 DEF Next
  <2>1. ASSUME NEW c \in Ctx, Get(t, c)
        PROVE  DInv'
    BY <2>1, GetHitTurns, GetMissTurns DEF Get
  <2>2. ASSUME NEW c \in Ctx, NEW fate \in Over, End(t, c, fate)
        PROVE  DInv'
    BY <2>2, EndCallTurns, EndCallRefusedTurns, EndNotStartedTurns, EndReleasedTurns,
       EndMissTurns
    DEF End
  <2>3. CASE Write(t) \/ WriteThrows(t)
    BY <2>3, WriteTurns, WriteThrowsTurns
  <2>4. CASE Answer(t) \/ OpenFails(t)
    BY <2>4, ConnectTurns, BeginTurns, OpenFailsTurns, EndAnsweredTurns, EndThrowsTurns,
       ReleaseTurns, DeleteTurns
    DEF Answer
  <2> QED
    BY <2>1, <2>2, <2>3, <2>4
<1>2. CASE UNCHANGED vars
  BY <1>2
  DEF vars, DInv, TakeTurns, BegunKnown, OpenersFresh, Opening, EndersKnown,
      SingleTransaction, Free
<1> QED
  BY <1>1, <1>2

\* DInv holds when the process starts: no call is under way, nothing began.
LEMMA InitTurns == Init => DInv
  BY CtxAssumption
  DEF Init, DInv, TakeTurns, BegunKnown, OpenersFresh, Opening, EndersKnown,
      SingleTransaction, Free

\* DInv holds in every state that disciplined callers reach.
LEMMA TurnsInvariance ==
  ASSUME Disciplined
  PROVE  Spec => [](IInv /\ DInv)
<1>1. Init => IInv /\ DInv
  BY InitInv, InitTurns
<1>2. IInv /\ DInv /\ [Next]_vars => (IInv /\ DInv)'
  BY NextInv, NextTurns
<1> QED
  BY <1>1, <1>2, PTL DEF Spec

----------------------------------------------------------------------------
\* Callers that take turns on a context never get a second database transaction
\* for it out of getOrCreateTransaction (src/transaction.ts), whatever fails and
\* however the calls of different contexts overlap.
THEOREM SingleTransactionHolds ==
  ASSUME Disciplined
  PROVE  Spec => []SingleTransaction
<1>1. IInv /\ DInv => SingleTransaction
  BY DEF DInv
<1> QED
  BY TurnsInvariance, <1>1, PTL

----------------------------------------------------------------------------
\* Only a delete and a commit or rollback of a released runner take an entry
\* away; the opening of a transaction finds none to overwrite.
LEMMA ForgetStep ==
  ASSUME Disciplined, IInv, DInv, Next,
         NEW c \in Ctx, storage[c] # None, storage'[c] # storage[c]
  PROVE  phase[storage[c]] = "released"
<1> PICK t \in Task :
      \/ \E d \in Ctx : Get(t, d) \/ \E fate \in Over : End(t, d, fate)
      \/ Write(t) \/ WriteThrows(t)
      \/ Answer(t) \/ OpenFails(t)
  BY DEF Next
<1>1. CASE Begin(t)
  BY <1>1 DEF Begin, IInv, TypeOK, DInv, OpenersFresh, OpenersAlone, StoredShape, Opening
<1>2. CASE Delete(t)
  BY <1>2 DEF Delete, IInv, TypeOK, DInv, EndersKnown
<1>3. CASE \E d \in Ctx : EndReleased(t, d)
  BY <1>3 DEF EndReleased, IInv, TypeOK
<1> QED
  BY <1>1, <1>2, <1>3
  DEF Get, End, Answer, GetHit, GetMiss, Connect, OpenFails, Write, WriteThrows,
      EndCall, EndCallRefused, EndNotStarted, EndMiss, EndAnswered, EndThrows, Release

\* commitTransaction and rollbackTransaction never make the store forget a runner
\* that still holds a connection, when callers take turns.
THEOREM ForgetOnlyReleasedHolds ==
  ASSUME Disciplined
  PROVE  Spec => ForgetOnlyReleased
<1>1. IInv /\ DInv /\ [Next]_vars =>
        [\A c \in Ctx : storage[c] # None /\ storage'[c] # storage[c]
                          => phase[storage[c]] = "released"]_vars
  BY ForgetStep
<1> QED
  BY TurnsInvariance, <1>1, PTL DEF Spec, ForgetOnlyReleased

----------------------------------------------------------------------------
\* Every step leaves the connections that are taken within reach: Begin stores
\* its runner over no other, and Delete only forgets a runner it has released.
LEMMA NextKeepsConnections ==
  ASSUME Disciplined, "begin" \notin Faults, IInv, DInv, NoLostConnection, [Next]_vars
  PROVE  NoLostConnection'
<1>1. ASSUME NEW t \in Task, NEW c \in Ctx, GetHit(t, c)
      PROVE  NoLostConnection'
  BY <1>1 DEF GetHit, Held, NoLostConnection, IInv, TypeOK, Free
<1>2. ASSUME NEW t \in Task, NEW c \in Ctx, GetMiss(t, c)
      PROVE  NoLostConnection'
  BY <1>2 DEF GetMiss, Held, NoLostConnection, IInv, TypeOK, Free
<1>3. ASSUME NEW t \in Task, Connect(t)
      PROVE  NoLostConnection'
  BY <1>3 DEF Connect, Held, NoLostConnection, IInv, TypeOK, OpenersAlone, Opening, Free
<1>4. ASSUME NEW t \in Task, Begin(t)
      PROVE  NoLostConnection'
  <2>1. qr[t] \in Runner /\ ctx[t] \in Ctx /\ owner[qr[t]] = ctx[t]
    BY <1>4 DEF Begin, IInv, TypeOK, OpenersAlone, Opening
  <2>2. storage[ctx[t]] = None
    BY <1>4, <2>1 DEF Begin, IInv, TypeOK, StoredShape, DInv, OpenersFresh, Opening
  <2> SUFFICES ASSUME NEW r \in Runner, phase[r] = "connected"
               PROVE  \/ storage'[owner[r]] = r
                      \/ \E u \in Task : qr[u] = r /\ ~Free(u)'
    BY <1>4 DEF Begin, NoLostConnection, Held
  <2>3. CASE storage[owner[r]] = r
    BY <1>4, <2>1, <2>2, <2>3, RunnerAssumption DEF Begin, IInv, TypeOK
  <2>4. CASE \E u \in Task : qr[u] = r /\ ~Free(u)
    BY <1>4, <2>1, <2>4 DEF Begin, IInv, TypeOK, Free
  <2> QED
    BY <2>3, <2>4 DEF NoLostConnection, Held
<1>5. ASSUME NEW t \in Task, OpenFails(t)
      PROVE  NoLostConnection'
  BY <1>5 DEF OpenFails, Held, NoLostConnection, IInv, TypeOK, OpenersAlone, Opening, Free
<1>6. ASSUME NEW t \in Task, Write(t) \/ WriteThrows(t)
      PROVE  NoLostConnection'
  BY <1>6 DEF Write, WriteThrows, Held, NoLostConnection, IInv, TypeOK, Free
<1>7. ASSUME NEW t \in Task, NEW c \in Ctx, NEW fate \in Over,
             EndCall(t, c, fate) \/ EndCallRefused(t, c, fate)
      PROVE  NoLostConnection'
  BY <1>7 DEF EndCall, EndCallRefused, Held, NoLostConnection, IInv, TypeOK, Free
<1>8. ASSUME NEW t \in Task, NEW c \in Ctx, EndNotStarted(t, c) \/ EndMiss(t, c)
      PROVE  NoLostConnection'
  BY <1>8 DEF EndNotStarted, EndMiss, Held, NoLostConnection, IInv, TypeOK, Free
<1>9. ASSUME NEW t \in Task, NEW c \in Ctx, EndReleased(t, c)
      PROVE  NoLostConnection'
  BY <1>9 DEF EndReleased, Held, NoLostConnection, IInv, TypeOK, Free
<1>10. ASSUME NEW t \in Task, EndAnswered(t) \/ EndThrows(t)
       PROVE  NoLostConnection'
  BY <1>10
  DEF EndAnswered, EndThrows, Held, NoLostConnection, IInv, TypeOK, Free, HandedShape,
      Opening, DInv, EndersKnown
<1>11. ASSUME NEW t \in Task, Release(t)
       PROVE  NoLostConnection'
  BY <1>11 DEF Release, Held, NoLostConnection, IInv, TypeOK, Free
<1>12. ASSUME NEW t \in Task, Delete(t)
       PROVE  NoLostConnection'
  BY <1>12
  DEF Delete, Held, NoLostConnection, IInv, TypeOK, Free, DInv, EndersKnown
<1>13. CASE UNCHANGED vars
  BY <1>13 DEF vars, Held, NoLostConnection, Free
<1> QED
  BY <1>1, <1>2, <1>3, <1>4, <1>5, <1>6, <1>7, <1>8, <1>9, <1>10, <1>11, <1>12, <1>13
  DEF Next, Get, End, Answer

\* If no startTransaction() fails, a connection taken from the pool is always the
\* one of a stored runner or in the hands of a call: also after a COMMIT that
\* threw, the connection can still be given back by a rollback of its context.
THEOREM NoLostConnectionHolds ==
  ASSUME Disciplined, "begin" \notin Faults
  PROVE  Spec => []NoLostConnection
<1>1. Init => NoLostConnection
  BY DEF Init, NoLostConnection, Held
<1>2. IInv /\ DInv /\ NoLostConnection /\ [Next]_vars => NoLostConnection'
  BY NextKeepsConnections
<1> QED
  BY TurnsInvariance, <1>1, <1>2, PTL DEF Spec

----------------------------------------------------------------------------
\* Statements ran in a transaction that had begun, and inside it.
WroteInside ==
  \A r \in Runner :
    /\ "outside" \notin wrote[r]
    /\ dbtx[r] = "none" => wrote[r] = {}

CInv == IInv /\ DInv /\ WroteInside

\* No statement has run when the process starts.
LEMMA InitWrote == Init => WroteInside
  BY DEF Init, WroteInside

\* Only a statement of an open transaction adds to what a runner wrote: the
\* callers stop when the transaction is over, so the others leave nothing outside.
LEMMA NextWrote ==
  ASSUME Disciplined, CInv, [Next]_vars
  PROVE  WroteInside'
<1>1. ASSUME NEW t \in Task, Write(t)
      PROVE  WroteInside'
  BY <1>1
  DEF Write, CInv, WroteInside, IInv, TypeOK, HandedShape, Opening, Free, MayUse, Over
<1>2. ASSUME NEW t \in Task, Begin(t)
      PROVE  WroteInside'
  BY <1>2 DEF Begin, CInv, WroteInside, IInv, TypeOK
<1>3. ASSUME NEW t \in Task, NEW c \in Ctx, NEW fate \in Over, EndCall(t, c, fate)
      PROVE  WroteInside'
  BY <1>3 DEF EndCall, CInv, WroteInside, IInv, TypeOK, Over
<1>4. ASSUME NEW t \in Task, NEW c \in Ctx, NEW fate \in Over, EndCallRefused(t, c, fate)
      PROVE  WroteInside'
  BY <1>4 DEF EndCallRefused, CInv, WroteInside, IInv, TypeOK, Over
<1>5. ASSUME UNCHANGED <<dbtx, wrote>>
      PROVE  WroteInside'
  BY <1>5 DEF CInv, WroteInside
<1> QED
  BY <1>1, <1>2, <1>3, <1>4, <1>5
  DEF Next, vars, Get, End, Answer, GetHit, GetMiss, Connect, OpenFails, WriteThrows,
      EndNotStarted, EndReleased, EndMiss, EndAnswered, EndThrows, Release, Delete

\* CInv holds in every state that disciplined callers reach.
LEMMA ContractInvariance ==
  ASSUME Disciplined
  PROVE  Spec => []CInv
<1>1. Init => WroteInside
  BY InitWrote
<1>2. IInv /\ DInv /\ WroteInside /\ [Next]_vars => WroteInside'
  BY NextWrote DEF CInv
<1> QED
  BY TurnsInvariance, <1>1, <1>2, PTL DEF Spec, CInv

----------------------------------------------------------------------------
\* The fate of a context is that of the one runner that began for it.
LEMMA FateIs ==
  ASSUME SingleTransaction, NEW c \in Ctx, c # None,
         NEW r \in Runner, owner[r] = c, dbtx[r] # "none"
  PROVE  Begun(c) = {r} /\ FateOf(c) = dbtx[r]
<1>1. Begun(c) = {r}
  BY DEF Begun, SingleTransaction
<1> QED
  BY <1>1 DEF FateOf

\* The same in the state after a step.
LEMMA FateIsNext ==
  ASSUME SingleTransaction', NEW c \in Ctx, c # None,
         NEW r \in Runner, owner'[r] = c, dbtx'[r] # "none"
  PROVE  Begun(c)' = {r} /\ FateOf(c)' = dbtx'[r]
<1>1. Begun(c)' = {r}
  BY DEF Begun, SingleTransaction
<1> QED
  BY <1>1 DEF FateOf

\* A context none of whose runners changes keeps its place in the contract.
LEMMA SamePlace ==
  ASSUME NEW c \in Ctx,
         \A r \in Runner : (owner'[r] = c) = (owner[r] = c),
         \A r \in Runner : owner[r] = c => dbtx'[r] = dbtx[r] /\ wrote'[r] = wrote[r]
  PROVE  FateOf(c)' = FateOf(c) /\ DirtyIn(c)' = DirtyIn(c) /\ KeptIn(c)' = KeptIn(c)
<1>1. Begun(c)' = Begun(c)
  BY DEF Begun
<1>2. Begun(c) # {} => (CHOOSE r \in Begun(c) : TRUE) \in Begun(c)
  OBVIOUS
<1>3. FateOf(c)' = FateOf(c)
  BY <1>1, <1>2 DEF FateOf, Begun
<1>4. DirtyIn(c)' = DirtyIn(c)
  BY <1>1 DEF DirtyIn, Begun
<1>5. KeptIn(c)' = KeptIn(c)
  BY DEF KeptIn
<1> QED
  BY <1>3, <1>4, <1>5

\* startTransaction() that is answered is the opening of the task's context.
LEMMA BeginOpens ==
  ASSUME Disciplined, CInv, DInv', NEW t \in Task, Begin(t),
         NEW c, ctx[t] = c, NEW r, qr[t] = r
  PROVE  c \in Ctx /\ Contract!Open(c)
<1>1. c \in Ctx /\ c # None /\ r \in Runner /\ owner[r] = c /\ dbtx[r] = "none"
  BY CtxAssumption DEF Begin, CInv, IInv, TypeOK, OpenersAlone, Opening
<1>2. Begun(c) = {} /\ DirtyIn(c) = FALSE
  BY <1>1 DEF Begin, CInv, DInv, OpenersFresh, Opening, Begun, DirtyIn
<1>3. FateOf(c) = "none"
  BY <1>2 DEF FateOf
<1>4. dbtx' = [dbtx EXCEPT ![r] = "open"] /\ UNCHANGED <<owner, wrote>>
  BY DEF Begin
<1>5. dbtx'[r] = "open" /\ owner'[r] = c
  BY <1>1, <1>4 DEF CInv, IInv, TypeOK
<1>6. Begun(c)' = {r} /\ FateOf(c)' = "open"
  BY <1>1, <1>5, FateIsNext DEF DInv
<1>7. DirtyIn(c)' = FALSE
  BY <1>1, <1>4, <1>6 DEF DirtyIn, CInv, WroteInside
<1>8. KeptIn(c)' = KeptIn(c)
  BY <1>1, <1>2, <1>4 DEF KeptIn, CInv, WroteInside, IInv, TypeOK
<1>9. ASSUME NEW d \in Ctx, d # c
      PROVE  FateOf(d)' = FateOf(d) /\ DirtyIn(d)' = DirtyIn(d) /\ KeptIn(d)' = KeptIn(d)
  BY <1>1, <1>4, <1>9, SamePlace DEF CInv, IInv, TypeOK
<1> QED
  BY <1>1, <1>2, <1>3, <1>6, <1>7, <1>8, <1>9 DEF Contract!Open

\* A statement is work in the transaction of the task's context.
LEMMA WriteWorks ==
  ASSUME Disciplined, CInv, DInv', NEW t \in Task, Write(t),
         NEW c, ctx[t] = c, NEW r, qr[t] = r
  PROVE  c \in Ctx /\ Contract!Work(c)
<1>1. c \in Ctx /\ c # None /\ r \in Runner /\ owner[r] = c
  BY CtxAssumption DEF Write, CInv, IInv, TypeOK, HandedShape, Opening, Free
<1>2. dbtx[r] = "open"
  BY <1>1 DEF Write, CInv, IInv, TypeOK, HandedShape, Opening, Free, MayUse
<1>3. wrote' = [wrote EXCEPT ![r] = @ \cup {"inside"}] /\ UNCHANGED <<owner, dbtx>>
  BY <1>2 DEF Write
<1>4. Begun(c) = {r} /\ FateOf(c) = "open"
  BY <1>1, <1>2, FateIs DEF CInv, DInv
<1>5. Begun(c)' = {r} /\ FateOf(c)' = "open"
  BY <1>1, <1>2, <1>3, FateIsNext DEF DInv
<1>6. DirtyIn(c)' = TRUE
  BY <1>1, <1>2, <1>3, <1>5 DEF DirtyIn, CInv, IInv, TypeOK
<1>7. KeptIn(c) = FALSE
  BY <1>1, <1>2, <1>4 DEF KeptIn, Begun, CInv, WroteInside, IInv, TypeOK
<1>8. KeptIn(c)' = FALSE
  BY <1>1, <1>2, <1>3, <1>4 DEF KeptIn, Begun, CInv, WroteInside, IInv, TypeOK
<1>9. ASSUME NEW d \in Ctx, d # c
      PROVE  FateOf(d)' = FateOf(d) /\ DirtyIn(d)' = DirtyIn(d) /\ KeptIn(d)' = KeptIn(d)
  BY <1>1, <1>3, <1>9, SamePlace DEF CInv, IInv, TypeOK
<1> QED
  BY <1>1, <1>4, <1>5, <1>6, <1>7, <1>8, <1>9 DEF Contract!Work

\* A COMMIT or ROLLBACK that ends the transaction is the end of the context.
LEMMA EndFinishes ==
  ASSUME Disciplined, CInv, DInv', NEW c \in Ctx, NEW r, storage[c] = r, r # None,
         NEW fate \in Over, dbtx[r] = "open",
         dbtx' = [dbtx EXCEPT ![r] = fate], UNCHANGED <<owner, wrote>>
  PROVE  Contract!Finish(c, fate)
<1>1. c # None /\ r \in Runner /\ owner[r] = c
  BY CtxAssumption DEF CInv, IInv, TypeOK, StoredShape
<1>2. dbtx'[r] = fate /\ fate # "none" /\ fate # "open"
  BY <1>1 DEF CInv, IInv, TypeOK, Over
<1>3. Begun(c) = {r} /\ FateOf(c) = "open"
  BY <1>1, FateIs DEF CInv, DInv
<1>4. Begun(c)' = {r} /\ FateOf(c)' = fate
  BY <1>1, <1>2, FateIsNext DEF DInv
<1>5. DirtyIn(c) = (wrote[r] # {})
  BY <1>3 DEF DirtyIn
<1>6. DirtyIn(c)' = FALSE
  BY <1>2, <1>4 DEF DirtyIn
<1>7. KeptIn(c)' = (fate = "committed" /\ DirtyIn(c))
  <2>1. \A s \in Runner : "outside" \notin wrote'[s]
    BY DEF CInv, WroteInside
  <2>2. \A s \in Runner : owner'[s] = c /\ dbtx'[s] = "committed" => s = r
    BY <1>4 DEF Begun
  <2> QED
    BY <1>1, <1>2, <1>5, <2>1, <2>2 DEF KeptIn
<1>8. ASSUME NEW d \in Ctx, d # c
      PROVE  FateOf(d)' = FateOf(d) /\ DirtyIn(d)' = DirtyIn(d) /\ KeptIn(d)' = KeptIn(d)
  BY <1>1, <1>8, SamePlace DEF CInv, IInv, TypeOK
<1> QED
  BY <1>3, <1>4, <1>6, <1>7, <1>8 DEF Contract!Finish

\* What leaves owners, transactions and statements alone is a stutter.
LEMMA QuietStep ==
  ASSUME UNCHANGED <<owner, dbtx, wrote>>
  PROVE  UNCHANGED Contract!contractVars
<1>1. ASSUME NEW c \in Ctx
      PROVE  FateOf(c)' = FateOf(c) /\ DirtyIn(c)' = DirtyIn(c) /\ KeptIn(c)' = KeptIn(c)
  BY SamePlace
<1> QED
  BY <1>1 DEF Contract!contractVars

\* A runner that is created for a context has done nothing yet.
LEMMA MissStutters ==
  ASSUME CInv, NEW t \in Task, NEW c \in Ctx, GetMiss(t, c)
  PROVE  UNCHANGED Contract!contractVars
<1> PICK r \in Runner : phase[r] = "unused" /\ owner' = [owner EXCEPT ![r] = c]
  BY DEF GetMiss
<1>1. dbtx[r] = "none" /\ wrote[r] = {} /\ UNCHANGED <<dbtx, wrote>>
  BY DEF GetMiss, CInv, IInv, UnusedFresh, WroteInside
<1>2. ASSUME NEW d \in Ctx
      PROVE  FateOf(d)' = FateOf(d) /\ DirtyIn(d)' = DirtyIn(d) /\ KeptIn(d)' = KeptIn(d)
  <2>1. Begun(d)' = Begun(d)
    BY <1>1 DEF Begun, CInv, IInv, TypeOK
  <2>2. FateOf(d)' = FateOf(d)
    BY <1>1, <2>1 DEF FateOf
  <2>3. DirtyIn(d)' = DirtyIn(d)
    BY <1>1, <2>1 DEF DirtyIn
  <2>4. KeptIn(d)' = KeptIn(d)
    BY <1>1 DEF KeptIn, CInv, IInv, TypeOK
  <2> QED
    BY <2>2, <2>3, <2>4
<1> QED
  BY <1>2 DEF Contract!contractVars

\* An empty store is a contract of which no context has begun.
LEMMA InitMaps == Init => Contract!Init
<1> SUFFICES ASSUME Init
             PROVE  Contract!Init
  OBVIOUS
<1>1. ASSUME NEW c \in Ctx
      PROVE  FateOf(c) = "none" /\ DirtyIn(c) = FALSE /\ KeptIn(c) = FALSE
  BY DEF Init, FateOf, DirtyIn, KeptIn, Begun
<1> QED
  BY <1>1 DEF Contract!Init

\* Every step of the store opens, works in or finishes one transaction of the
\* contract, or changes nothing the contract speaks of.
LEMMA StepMaps ==
  ASSUME Disciplined, CInv, [Next]_vars
  PROVE  [Contract!Next]_(Contract!contractVars)
<1>1. DInv'
  BY NextTurns DEF CInv
<1>2. ASSUME NEW t \in Task, NEW c \in Ctx, GetMiss(t, c)
      PROVE  UNCHANGED Contract!contractVars
  BY <1>2, MissStutters
<1>3. ASSUME NEW t \in Task, Begin(t)
      PROVE  Contract!Next
  BY <1>1, <1>3, BeginOpens DEF Contract!Next
<1>4. ASSUME NEW t \in Task, Write(t)
      PROVE  Contract!Next
  BY <1>1, <1>4, WriteWorks DEF Contract!Next
<1>5. ASSUME NEW t \in Task, NEW c \in Ctx, NEW fate \in Over,
             EndCall(t, c, fate) \/ EndCallRefused(t, c, fate)
      PROVE  [Contract!Next]_(Contract!contractVars)
  <2>1. UNCHANGED <<owner, wrote>> /\ storage[c] # None
    BY <1>5 DEF EndCall, EndCallRefused
  <2>2. CASE UNCHANGED dbtx
    BY <2>1, <2>2, QuietStep
  <2>3. ASSUME NEW f \in Over, dbtx[storage[c]] = "open",
               dbtx' = [dbtx EXCEPT ![storage[c]] = f]
        PROVE  Contract!Next
    BY <1>1, <2>1, <2>3, EndFinishes DEF Contract!Next, Over
  <2>4. \/ UNCHANGED dbtx
        \/ /\ dbtx[storage[c]] = "open"
           /\ \E f \in Over : dbtx' = [dbtx EXCEPT ![storage[c]] = f]
    BY <1>5 DEF EndCall, EndCallRefused, CInv, IInv, TypeOK, Over
  <2> QED
    BY <2>2, <2>3, <2>4
<1>6. ASSUME UNCHANGED <<owner, dbtx, wrote>>
      PROVE  UNCHANGED Contract!contractVars
  BY <1>6, QuietStep
<1> QED
  BY <1>2, <1>3, <1>4, <1>5, <1>6
  DEF Next, vars, Get, End, Answer, GetHit, Connect, OpenFails, WriteThrows,
      EndNotStarted, EndReleased, EndMiss, EndAnswered, EndThrows, Release, Delete

\* The transaction store of src/transaction.ts, used by callers that take turns
\* on a context and stop when its transaction is over, implements the contract of
\* a transaction context: one transaction per context, work only while it is
\* open, one end, and what it wrote kept exactly when that end is a commit. It
\* holds for every number of contexts, tasks and runners, every pool size and
\* every choice of faults.
THEOREM ImplementsContractHolds ==
  ASSUME Disciplined
  PROVE  Spec => ImplementsContract
<1>1. Init => Contract!Init
  BY InitMaps
<1>2. CInv /\ [Next]_vars => [Contract!Next]_(Contract!contractVars)
  BY StepMaps
<1> QED
  BY ContractInvariance, <1>1, <1>2, PTL DEF Spec, ImplementsContract, Contract!Spec
=============================================================================
