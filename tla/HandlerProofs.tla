--------------------------- MODULE HandlerProofs ---------------------------
(***************************************************************************)
(* What holds of the request handler for every set of requests, children   *)
(* and event hooks, every pool size and every choice of faults.  The       *)
(* argument has two halves.  Every step of the handler is a step of the    *)
(* store, so all that is proved of the store's callers holds of this one.  *)
(* And while a request is being worked for, nobody but its own handler can *)
(* end its transaction, and nobody can start a second one: from the first  *)
(* statement to the end of the COMMIT or the ROLLBACK the runner in the    *)
(* handler's hands is the runner of the store.  Last, what the answer of a *)
(* request says, and who holds connections after it, while no hook and no  *)
(* failed child disturbs the request.                                      *)
(***************************************************************************)
EXTENDS RequestHandler, TransactionProofs

Working(q) == step[q] \in {"new", "executing", "joining"}

\* No side chain of the request is inside a call that opens or ends a
\* transaction.
Calm(q) == \A s \in SidesOf(q) : Free(s)

\* Every chain calls the store for the request it works for.
CallsOwn(q) ==
  /\ ctx[q] \in {None, q}
  /\ \A s \in SidesOf(q) : ctx[s] \in {None, q}

\* Until the handler ends it, the stored transaction is open, and typeorm
\* knows it is.
OpenWhileWorking(q) ==
  Working(q) /\ storage[q] # None =>
    dbtx[storage[q]] = "open" /\ txActive[storage[q]]

\* The handler's runner is the stored one; it opens a transaction only while
\* there is none, before its first statement.
OwnRunner(q) ==
  /\ Working(q) =>
       /\ pc[q] \in {"idle", "threw", "connecting", "beginning"}
       /\ Free(q) => qr[q] \in {None, storage[q]}
       /\ own[q] # {} => Free(q) /\ qr[q] # None
  /\ Opening(q) => step[q] = "executing" /\ storage[q] = None
  /\ own[q] \subseteq {"inside"}

\* Side chains are started after a statement, and find the open transaction.
SideRunners(q) ==
  \A s \in SidesOf(q) :
    /\ side[s] = "unborn" => qr[s] = None
    /\ side[s] # "running" => Free(s)
    /\ side[s] # "unborn" => own[q] # {} \/ ~Working(q)
    /\ Working(q) => Free(s) /\ qr[s] \in {None, storage[q]}

\* While a COMMIT or ROLLBACK of a request with statements goes on, or after
\* it was refused, the entry stays, so that the side chains only find it.
EndingRunner(q) ==
  step[q] \in {"committing", "rollingback"} /\ own[q] # {} =>
    /\ qr[q] # None
    /\ pc[q] # "idle" => storage[q] = qr[q] /\ Calm(q)
    /\ pc[q] \in {"refused", "threw"} /\ step[q] = "committing" =>
         txActive[qr[q]] /\ phase[qr[q]] # "released"

\* What the handler has told the database, and what came of it.
Fates(q) ==
  own[q] # {} =>
    /\ step[q] = "committing" =>
         dbtx[qr[q]] \in IF pc[q] \in {"refused", "threw"}
                         THEN {"open", "rolledback"} ELSE {"committed"}
    /\ step[q] = "rollingback" /\ pc[q] \notin {"refused", "threw"} =>
         dbtx[qr[q]] = "rolledback"
    /\ step[q] = "ended" => dbtx[qr[q]] = "committed"
    /\ step[q] = "errored" => dbtx[qr[q]] = "rolledback"
    /\ step[q] \in Finished => Free(q) /\ qr[q] # None

\* Until one of them fails, running children are being waited for and all
\* have the handler's runner.
ChildRunners(q) ==
  (\A k \in ChildrenOf(q) : side[k] # "failed") =>
    \A s \in ChildrenOf(q) :
      /\ side[s] = "running" => step[q] = "joining"
      /\ side[s] # "unborn" => own[q] # {}
      /\ qr[s] \in {None, qr[q]}

RequestInv(q) ==
  /\ CallsOwn(q) /\ OpenWhileWorking(q) /\ OwnRunner(q) /\ SideRunners(q)
  /\ EndingRunner(q) /\ Fates(q) /\ ChildRunners(q)

HInv == IInv /\ HandlerTypeOK /\ \A q \in Ctx : RequestInv(q)

----------------------------------------------------------------------------
(* A chain changes nothing of the requests it does not work for.           *)

WorksFor(t) == IF t \in Ctx THEN t ELSE ContextOf[t]

StoreStep(t, c) ==
  \/ Get(t, c) \/ \E fate \in Over : End(t, c, fate)
  \/ Write(t) \/ WriteThrows(t) \/ Answer(t) \/ OpenFails(t)

StoreUntouched(q) ==
  /\ storage'[q] = storage[q]
  /\ \A t \in SidesOf(q) \cup {q} :
       pc'[t] = pc[t] /\ ctx'[t] = ctx[t] /\ qr'[t] = qr[t]
  /\ \A r \in Runner : owner[r] = q =>
       /\ owner'[r] = q /\ phase'[r] = phase[r]
       /\ dbtx'[r] = dbtx[r] /\ txActive'[r] = txActive[r] /\ wrote'[r] = wrote[r]
  /\ \A r \in Runner : owner'[r] = q => owner[r] = q

HandlerUntouched(q) ==
  /\ step'[q] = step[q] /\ own'[q] = own[q]
  /\ \A s \in SidesOf(q) : side'[s] = side[s]

\* The chains that work for a request are its handler, its children, its hooks.
LEMMA SidesApart ==
  ASSUME NEW q \in Ctx
  PROVE  SidesOf(q) \subseteq Task \ Ctx /\ ChildrenOf(q) \subseteq SidesOf(q)
  BY ChainAssumption DEF SidesOf, ChildrenOf, Side

\* The context of a chain's latest call, and of the runner in its hands, is
\* the request the chain works for; a stored runner belongs to its context.
LEMMA OwnContext ==
  ASSUME HInv
  PROVE  /\ \A t \in Task :
              /\ WorksFor(t) \in Ctx
              /\ ctx[t] \in {None, WorksFor(t)}
              /\ qr[t] # None => owner[qr[t]] = WorksFor(t) /\ qr[t] \in Runner
         /\ \A c \in Ctx : storage[c] # None => owner[storage[c]] = c /\ storage[c] \in Runner
<1>1. \A t \in Task : WorksFor(t) \in Ctx /\ ctx[t] \in {None, WorksFor(t)}
  BY ChainAssumption DEF WorksFor, HInv, RequestInv, CallsOwn, SidesOf
<1>2. \A t \in Task : qr[t] # None => owner[qr[t]] = ctx[t] /\ ctx[t] # None
  BY DEF HInv, IInv, OpenersAlone, HandedShape
<1>3. \A c \in Ctx : storage[c] # None => owner[storage[c]] = c
  BY DEF HInv, IInv, StoredShape
<1> QED
  BY <1>1, <1>2, <1>3 DEF HInv, IInv, TypeOK

\* A step of a chain that works for another request leaves a request's
\* entry, chains and runners alone.
LEMMA StoreFrame ==
  ASSUME HInv, NEW t \in Task, StoreStep(t, WorksFor(t)),
         NEW q \in Ctx, q # WorksFor(t)
  PROVE  StoreUntouched(q)
<1> DEFINE c == WorksFor(t)
<1>1. /\ c \in Ctx /\ c # q /\ t \notin SidesOf(q) \cup {q}
      /\ ctx[t] \in {None, c}
      /\ qr[t] # None => owner[qr[t]] = c /\ qr[t] \in Runner
      /\ storage[c] # None => owner[storage[c]] = c /\ storage[c] \in Runner
  BY OwnContext, ChainAssumption DEF WorksFor, SidesOf
<1>2. SidesOf(q) \cup {q} \subseteq Task
  BY ChainAssumption DEF SidesOf
<1>3. /\ Opening(t) => qr[t] # None /\ ctx[t] # None
      /\ pc[t] \in {"ending", "releasing", "deleting"} => qr[t] # None /\ ctx[t] # None
  BY DEF HInv, IInv, OpenersAlone, EndersOver, HandedShape, Opening
<1> HIDE DEF c
<1> USE <1>1, <1>2, <1>3 DEF StoreUntouched, HInv, HandlerTypeOK, SideTypeOK, TypeOK
<1>4. CASE Get(t, c)
  BY <1>4, CtxAssumption DEF Get, GetHit, GetMiss, IInv, UnusedFresh
<1>5. ASSUME NEW fate \in Over, End(t, c, fate)
      PROVE  StoreUntouched(q)
  <2>1. CASE EndCall(t, c, fate)
    BY <2>1 DEF EndCall
  <2>2. CASE EndCallRefused(t, c, fate)
    BY <2>2 DEF EndCallRefused
  <2>3. CASE EndNotStarted(t, c) \/ EndReleased(t, c) \/ EndMiss(t, c)
    BY <2>3 DEF EndNotStarted, EndReleased, EndMiss
  <2> QED
    BY <1>5, <2>1, <2>2, <2>3 DEF End
<1>6. CASE Write(t) \/ WriteThrows(t)
  BY <1>6 DEF Write, WriteThrows
<1>7. CASE Answer(t) \/ OpenFails(t)
  BY <1>7 DEF Answer, Connect, Begin, EndAnswered, EndThrows, Release, Delete, OpenFails,
              Opening
<1> QED
  BY <1>4, <1>5, <1>6, <1>7 DEF StoreStep, c

\* What is left alone keeps its part of the invariant.
LEMMA FrameInv ==
  ASSUME HInv, NEW q \in Ctx,
         StoreUntouched(q), HandlerUntouched(q)
  PROVE  RequestInv(q)'
<1>0. /\ \A t \in SidesOf(q) \cup {q} :
           qr[t] # None => owner[qr[t]] = q /\ qr[t] \in Runner
      /\ storage[q] # None => owner[storage[q]] = q /\ storage[q] \in Runner
  BY OwnContext, ChainAssumption DEF WorksFor, SidesOf
<1>1. CallsOwn(q)'
  BY DEF HInv, RequestInv, CallsOwn, StoreUntouched
<1>2. OpenWhileWorking(q)'
  BY <1>0
  DEF HInv, RequestInv, OpenWhileWorking, Working, StoreUntouched, HandlerUntouched
<1>3. OwnRunner(q)'
  BY DEF HInv, RequestInv, OwnRunner, Working, Opening, Free, StoreUntouched,
         HandlerUntouched
<1>4. SideRunners(q)'
  BY DEF HInv, RequestInv, SideRunners, Working, Free, StoreUntouched, HandlerUntouched
<1>5. EndingRunner(q)'
  BY <1>0, ChainAssumption
  DEF HInv, RequestInv, EndingRunner, Calm, Free, StoreUntouched, HandlerUntouched
<1>6. Fates(q)'
  BY <1>0
  DEF HInv, RequestInv, Fates, EndingRunner, Free, Finished, StoreUntouched,
      HandlerUntouched
<1>7. ChildRunners(q)'
  <2>1. /\ step'[q] = step[q] /\ own'[q] = own[q] /\ qr'[q] = qr[q]
        /\ \A s \in ChildrenOf(q) : side'[s] = side[s] /\ qr'[s] = qr[s]
    BY SidesApart DEF StoreUntouched, HandlerUntouched
  <2> QED
    BY <2>1 DEF HInv, RequestInv, ChildRunners, ChildrenOf
<1> QED
  BY <1>1, <1>2, <1>3, <1>4, <1>5, <1>6, <1>7 DEF RequestInv

----------------------------------------------------------------------------
(* The steps of the chains that work for a request, one by one.            *)

\* A service that finds the transaction.
LEMMA HandlerHitsInv ==
  ASSUME HInv, NEW q \in Ctx,
         step[q] = "executing", GetHit(q, q), UNCHANGED handlerVars
  PROVE  RequestInv(q)'
<1>1. CallsOwn(q)'
  BY DEF HInv, RequestInv, CallsOwn, GetHit
<1>2. OpenWhileWorking(q)'
  BY DEF HInv, RequestInv, OpenWhileWorking, Working, GetHit
<1>3. OwnRunner(q)'
  BY DEF HInv, RequestInv, OwnRunner, Working, Opening, Free, GetHit, handlerVars
<1>4. SideRunners(q)'
  BY SidesApart DEF HInv, RequestInv, SideRunners, Working, Free, GetHit, handlerVars
<1>5. EndingRunner(q)'
  BY DEF HInv, RequestInv, EndingRunner, handlerVars
<1>6. Fates(q)'
  BY DEF HInv, RequestInv, Fates, Finished, handlerVars
<1>7. ChildRunners(q)'
  BY DEF HInv, RequestInv, ChildRunners, OwnRunner, Working, GetHit, handlerVars
<1> QED
  BY <1>1, <1>2, <1>3, <1>4, <1>5, <1>6, <1>7 DEF RequestInv

\* A service that opens the transaction: nothing has been started yet.
LEMMA HandlerMissesInv ==
  ASSUME HInv, NEW q \in Ctx,
         step[q] = "executing", GetMiss(q, q), UNCHANGED handlerVars
  PROVE  RequestInv(q)'
<1>1. CallsOwn(q)'
  BY DEF HInv, RequestInv, CallsOwn, GetMiss
<1>2. OpenWhileWorking(q)'
  BY DEF HInv, RequestInv, OpenWhileWorking, GetMiss
<1>3. OwnRunner(q)'
  BY DEF HInv, RequestInv, HandlerTypeOK, SideTypeOK, TypeOK, OwnRunner, Working, Free, GetMiss,
         handlerVars
<1>4. SideRunners(q)'
  BY SidesApart DEF HInv, RequestInv, SideRunners, Working, Free, GetMiss, handlerVars
<1>5. EndingRunner(q)'
  BY DEF HInv, RequestInv, EndingRunner, handlerVars
<1>6. Fates(q)'
  BY DEF HInv, RequestInv, Fates, Finished, handlerVars
<1>7. ChildRunners(q)'
  BY DEF HInv, RequestInv, ChildRunners, OwnRunner, Working, GetMiss, handlerVars
<1> QED
  BY <1>1, <1>2, <1>3, <1>4, <1>5, <1>6, <1>7 DEF RequestInv

\* A side chain that finds the transaction.
LEMMA SideHitsInv ==
  ASSUME HInv, NEW q \in Ctx,
         NEW s \in SidesOf(q), side[s] = "running", GetHit(s, q), UNCHANGED handlerVars
  PROVE  RequestInv(q)'
<1>0. s \in Task /\ s # q /\ q \in Task
  BY SidesApart, ChainAssumption
<1>1. CallsOwn(q)'
  BY DEF HInv, RequestInv, CallsOwn, GetHit
<1>2. OpenWhileWorking(q)'
  BY DEF HInv, RequestInv, OpenWhileWorking, Working, GetHit, handlerVars
<1>3. OwnRunner(q)'
  BY DEF HInv, RequestInv, OwnRunner, Working, Opening, Free, GetHit, handlerVars
<1>4. SideRunners(q)'
  BY DEF HInv, RequestInv, SideRunners, Working, Free, GetHit, handlerVars
<1>5. EndingRunner(q)'
  BY DEF HInv, RequestInv, EndingRunner, Calm, Free, GetHit, handlerVars
<1>6. Fates(q)'
  BY SidesApart DEF HInv, RequestInv, Fates, Free, GetHit, handlerVars
<1>7. ChildRunners(q)'
  BY SidesApart
  DEF HInv, RequestInv, ChildRunners, OwnRunner, Working, GetHit, handlerVars
<1> QED
  BY <1>1, <1>2, <1>3, <1>4, <1>5, <1>6, <1>7 DEF RequestInv

\* A side chain that finds none any more and opens one of its own.
LEMMA SideMissesInv ==
  ASSUME HInv, NEW q \in Ctx,
         NEW s \in SidesOf(q), side[s] = "running", GetMiss(s, q), UNCHANGED handlerVars
  PROVE  RequestInv(q)'
<1>0. s \in Task /\ s # q /\ q \in Task
  BY SidesApart, ChainAssumption
<1>1. CallsOwn(q)'
  BY DEF HInv, RequestInv, CallsOwn, GetMiss
<1>2. OpenWhileWorking(q)'
  BY DEF HInv, RequestInv, OpenWhileWorking, GetMiss
<1>3. OwnRunner(q)'
  BY SidesApart
  DEF HInv, RequestInv, OwnRunner, Working, Opening, Free, GetMiss, handlerVars
<1>4. SideRunners(q)'
  BY DEF HInv, RequestInv, SideRunners, OwnRunner, Working, Free, GetMiss, handlerVars
<1>5. EndingRunner(q)'
  BY SidesApart DEF HInv, RequestInv, EndingRunner, GetMiss, handlerVars
<1>6. Fates(q)'
  BY SidesApart DEF HInv, RequestInv, Fates, Free, GetMiss, handlerVars
<1>7. ChildRunners(q)'
  BY SidesApart
  DEF HInv, RequestInv, ChildRunners, OwnRunner, Working, GetMiss, handlerVars
<1> QED
  BY <1>1, <1>2, <1>3, <1>4, <1>5, <1>6, <1>7 DEF RequestInv

\* A statement of a side chain, or one that its released runner refuses.
LEMMA SideWritesInv ==
  ASSUME HInv, NEW q \in Ctx,
         NEW s \in SidesOf(q), side[s] = "running", Write(s) \/ WriteThrows(s), UNCHANGED handlerVars
  PROVE  RequestInv(q)'
<1>0. s \in Task /\ s # q /\ q \in Task
  BY SidesApart, ChainAssumption
<1>1. CallsOwn(q)'
  BY DEF HInv, RequestInv, CallsOwn, Write, WriteThrows
<1>2. OpenWhileWorking(q)'
  BY DEF HInv, RequestInv, OpenWhileWorking, Working, Write, WriteThrows, handlerVars
<1>3. OwnRunner(q)'
  BY <1>0
  DEF HInv, RequestInv, HandlerTypeOK, SideTypeOK, TypeOK, OwnRunner, Working, Opening, Free, Write,
      WriteThrows, handlerVars
<1>4. SideRunners(q)'
  BY SidesApart
  DEF HInv, RequestInv, HandlerTypeOK, SideTypeOK, TypeOK, SideRunners, Working, Free, Write,
      WriteThrows, handlerVars
<1>5. EndingRunner(q)'
  BY <1>0, SidesApart
  DEF HInv, RequestInv, HandlerTypeOK, SideTypeOK, TypeOK, EndingRunner, Calm, Free, Write,
      WriteThrows, handlerVars
<1>6. Fates(q)'
  BY <1>0
  DEF HInv, RequestInv, HandlerTypeOK, SideTypeOK, TypeOK, Fates, Free, Write, WriteThrows,
      handlerVars
<1>7. ChildRunners(q)'
  BY DEF HInv, RequestInv, ChildRunners, Write, WriteThrows, handlerVars
<1> QED
  BY <1>1, <1>2, <1>3, <1>4, <1>5, <1>6, <1>7 DEF RequestInv

\* connect() that is answered.
LEMMA ConnectOwnInv ==
  ASSUME HInv, NEW q \in Ctx,
         NEW t \in SidesOf(q) \cup {q}, Connect(t), UNCHANGED handlerVars
  PROVE  RequestInv(q)'
<1>1. CallsOwn(q)'
  BY DEF HInv, RequestInv, CallsOwn, Connect
<1>2. OpenWhileWorking(q)'
  BY DEF HInv, RequestInv, OpenWhileWorking, Working, Connect, handlerVars
<1>3. OwnRunner(q)'
  BY DEF HInv, RequestInv, OwnRunner, Working, Opening, Free, Connect, handlerVars
<1>4. SideRunners(q)'
  BY DEF HInv, RequestInv, SideRunners, Working, Free, Connect, handlerVars
<1>5. EndingRunner(q)'
  BY DEF HInv, RequestInv, EndingRunner, Calm, Free, Connect, handlerVars
<1>6. Fates(q)'
  BY DEF HInv, RequestInv, Fates, Free, Connect, handlerVars
<1>7. ChildRunners(q)'
  BY DEF HInv, RequestInv, ChildRunners, Connect, handlerVars
<1> QED
  BY <1>1, <1>2, <1>3, <1>4, <1>5, <1>6, <1>7 DEF RequestInv

\* startTransaction() that is answered.
LEMMA BeginOwnInv ==
  ASSUME HInv, NEW q \in Ctx,
         NEW t \in SidesOf(q) \cup {q}, Begin(t), UNCHANGED handlerVars
  PROVE  RequestInv(q)'
<1>0. /\ t \in Task /\ q \in Task
      /\ t # q => ~Working(q) /\ ~Opening(q)
      /\ ctx[t] = q /\ qr[t] # None /\ qr[t] \in Runner
      /\ \A u \in Task : u # t => qr[u] # qr[t]
  <2>1. t \in Task /\ q \in Task /\ Opening(t)
    BY SidesApart, ChainAssumption DEF Begin, Opening
  <2>2. /\ ctx[t] = q /\ qr[t] # None /\ qr[t] \in Runner
        /\ \A u \in Task : u # t => qr[u] # qr[t]
    BY <2>1 DEF HInv, IInv, TypeOK, OpenersAlone, RequestInv, CallsOwn
  <2>3. t # q => ~Working(q) /\ ~Opening(q)
    BY <2>1 DEF HInv, RequestInv, SideRunners, OwnRunner, Working, Opening, Free
  <2> QED
    BY <2>1, <2>2, <2>3
<1>1. CallsOwn(q)'
  BY DEF HInv, RequestInv, CallsOwn, Begin
<1>2. OpenWhileWorking(q)'
  BY <1>0 DEF HInv, RequestInv, HandlerTypeOK, SideTypeOK, TypeOK, OpenWhileWorking, Begin
<1>3. OwnRunner(q)'
  BY <1>0
  DEF HInv, RequestInv, HandlerTypeOK, SideTypeOK, TypeOK, OwnRunner, Working, Opening, Begin,
      handlerVars
<1>4. SideRunners(q)'
  BY DEF HInv, RequestInv, SideRunners, OwnRunner, Working, Free, Begin, handlerVars
<1>5. EndingRunner(q)'
  BY CtxAssumption DEF HInv, RequestInv, EndingRunner, Calm, Free, Begin, handlerVars
<1>6. Fates(q)'
  BY <1>0 DEF HInv, RequestInv, Fates, OwnRunner, Opening, Free, Begin, handlerVars
<1>7. ChildRunners(q)'
  BY DEF HInv, RequestInv, ChildRunners, Begin, handlerVars
<1> QED
  BY <1>1, <1>2, <1>3, <1>4, <1>5, <1>6, <1>7 DEF RequestInv

\* connect() or startTransaction() that rejects.
LEMMA OpenFailsOwnInv ==
  ASSUME HInv, NEW q \in Ctx,
         NEW t \in SidesOf(q) \cup {q}, OpenFails(t), UNCHANGED handlerVars
  PROVE  RequestInv(q)'
<1>1. CallsOwn(q)'
  BY DEF HInv, RequestInv, CallsOwn, OpenFails
<1>2. OpenWhileWorking(q)'
  BY DEF HInv, RequestInv, OpenWhileWorking, Working, OpenFails, handlerVars
<1>3. OwnRunner(q)'
  BY DEF HInv, RequestInv, HandlerTypeOK, SideTypeOK, TypeOK, OwnRunner, Working, Opening, Free,
         OpenFails, handlerVars
<1>4. SideRunners(q)'
  BY DEF HInv, RequestInv, SideRunners, Working, Free, OpenFails, handlerVars
<1>5. EndingRunner(q)'
  BY DEF HInv, RequestInv, EndingRunner, OwnRunner, Calm, Opening, Free, OpenFails,
         handlerVars
<1>6. Fates(q)'
  BY DEF HInv, RequestInv, Fates, OwnRunner, Opening, Free, OpenFails, handlerVars
<1>7. ChildRunners(q)'
  BY DEF HInv, RequestInv, ChildRunners, ChildrenOf, OwnRunner, SideRunners, Working,
         SidesOf, Side, Opening, OpenFails, handlerVars
<1> QED
  BY <1>1, <1>2, <1>3, <1>4, <1>5, <1>6, <1>7 DEF RequestInv

\* COMMIT or ROLLBACK that is answered.
LEMMA EndAnsweredOwnInv ==
  ASSUME HInv, NEW q \in Ctx,
         NEW t \in SidesOf(q) \cup {q}, EndAnswered(t), UNCHANGED handlerVars
  PROVE  RequestInv(q)'
<1>1. CallsOwn(q)'
  BY DEF HInv, RequestInv, CallsOwn, EndAnswered
<1>2. OpenWhileWorking(q)'
  BY DEF HInv, RequestInv, OpenWhileWorking, OwnRunner, SideRunners, Working, Free,
         EndAnswered, handlerVars
<1>3. OwnRunner(q)'
  BY DEF HInv, RequestInv, OwnRunner, Working, Opening, Free, EndAnswered, handlerVars
<1>4. SideRunners(q)'
  BY DEF HInv, RequestInv, SideRunners, Working, Free, EndAnswered, handlerVars
<1>5. EndingRunner(q)'
  BY DEF HInv, RequestInv, EndingRunner, Calm, Free, EndAnswered, handlerVars
<1>6. Fates(q)'
  BY DEF HInv, RequestInv, Fates, Free, EndAnswered, handlerVars
<1>7. ChildRunners(q)'
  BY DEF HInv, RequestInv, ChildRunners, EndAnswered, handlerVars
<1> QED
  BY <1>1, <1>2, <1>3, <1>4, <1>5, <1>6, <1>7 DEF RequestInv

\* COMMIT or ROLLBACK that is refused.
LEMMA EndThrowsOwnInv ==
  ASSUME HInv, NEW q \in Ctx,
         NEW t \in SidesOf(q) \cup {q}, EndThrows(t), UNCHANGED handlerVars
  PROVE  RequestInv(q)'
<1>1. CallsOwn(q)'
  BY DEF HInv, RequestInv, CallsOwn, EndThrows
<1>2. OpenWhileWorking(q)'
  BY DEF HInv, RequestInv, OpenWhileWorking, Working, EndThrows, handlerVars
<1>3. OwnRunner(q)'
  BY DEF HInv, RequestInv, OwnRunner, Working, Opening, Free, EndThrows, handlerVars
<1>4. SideRunners(q)'
  BY DEF HInv, RequestInv, SideRunners, Working, Free, EndThrows, handlerVars
<1>5. EndingRunner(q)'
  BY DEF HInv, RequestInv, EndingRunner, Calm, Free, EndThrows, handlerVars
<1>6. Fates(q)'
  BY DEF HInv, RequestInv, Fates, Free, EndThrows, handlerVars
<1>7. ChildRunners(q)'
  BY DEF HInv, RequestInv, ChildRunners, EndThrows, handlerVars
<1> QED
  BY <1>1, <1>2, <1>3, <1>4, <1>5, <1>6, <1>7 DEF RequestInv

\* The connection goes back to the pool.
LEMMA ReleaseOwnInv ==
  ASSUME HInv, NEW q \in Ctx,
         NEW t \in SidesOf(q) \cup {q}, Release(t), UNCHANGED handlerVars
  PROVE  RequestInv(q)'
<1>1. CallsOwn(q)'
  BY DEF HInv, RequestInv, CallsOwn, Release
<1>2. OpenWhileWorking(q)'
  BY DEF HInv, RequestInv, OpenWhileWorking, Working, Release, handlerVars
<1>3. OwnRunner(q)'
  BY DEF HInv, RequestInv, OwnRunner, Working, Opening, Free, Release, handlerVars
<1>4. SideRunners(q)'
  BY DEF HInv, RequestInv, SideRunners, Working, Free, Release, handlerVars
<1>5. EndingRunner(q)'
  BY DEF HInv, RequestInv, EndingRunner, Calm, Free, Release, handlerVars
<1>6. Fates(q)'
  BY DEF HInv, RequestInv, Fates, Free, Release, handlerVars
<1>7. ChildRunners(q)'
  BY DEF HInv, RequestInv, ChildRunners, Release, handlerVars
<1> QED
  BY <1>1, <1>2, <1>3, <1>4, <1>5, <1>6, <1>7 DEF RequestInv

\* The entry is deleted.
LEMMA DeleteOwnInv ==
  ASSUME HInv, NEW q \in Ctx,
         NEW t \in SidesOf(q) \cup {q}, Delete(t), UNCHANGED handlerVars
  PROVE  RequestInv(q)'
<1>0. /\ t \in Task /\ q \in Task
      /\ ctx[t] \in {None, q}
      /\ t # q => t \in SidesOf(q) /\ ~Working(q) /\ ~Free(t)
  BY SidesApart, ChainAssumption
  DEF Delete, HInv, RequestInv, CallsOwn, SideRunners, Working, Free
<1>1. CallsOwn(q)'
  BY DEF HInv, RequestInv, CallsOwn, Delete
<1>2. OpenWhileWorking(q)'
  BY DEF HInv, RequestInv, OpenWhileWorking, Working, Delete, handlerVars
<1>3. OwnRunner(q)'
  BY DEF HInv, RequestInv, OwnRunner, SideRunners, Working, Opening, Free, Delete,
         handlerVars
<1>4. SideRunners(q)'
  BY DEF HInv, RequestInv, SideRunners, OwnRunner, Working, Free, Delete, handlerVars
<1>5. EndingRunner(q)'
  BY <1>0
  DEF HInv, RequestInv, HandlerTypeOK, SideTypeOK, TypeOK, EndingRunner, Calm, Delete, handlerVars
<1>6. Fates(q)'
  BY DEF HInv, RequestInv, Fates, Free, Delete, handlerVars
<1>7. ChildRunners(q)'
  BY DEF HInv, RequestInv, ChildRunners, Delete, handlerVars
<1> QED
  BY <1>1, <1>2, <1>3, <1>4, <1>5, <1>6, <1>7 DEF RequestInv

\* The handler starts.
LEMMA StartInv ==
  ASSUME HInv, NEW q \in Ctx,
         Start(q)
  PROVE  RequestInv(q)'
<1>1. CallsOwn(q)'
  BY DEF HInv, RequestInv, CallsOwn, Start, vars
<1>2. OpenWhileWorking(q)'
  BY DEF HInv, RequestInv, OpenWhileWorking, Working, Start, vars
<1>3. OwnRunner(q)'
  BY DEF HInv, RequestInv, OwnRunner, Working, Opening, Free, Start, vars
<1>4. SideRunners(q)'
  BY DEF HInv, RequestInv, SideRunners, Working, Free, Start, vars
<1>5. EndingRunner(q)'
  BY DEF HInv, RequestInv, EndingRunner, Start, Goto
<1>6. Fates(q)'
  BY DEF HInv, RequestInv, Fates, Finished, Start, Goto
<1>7. ChildRunners(q)'
  BY DEF HInv, RequestInv, ChildRunners, Start, vars
<1> QED
  BY <1>1, <1>2, <1>3, <1>4, <1>5, <1>6, <1>7 DEF RequestInv

\* The children of a deep insert are started.
LEMMA InsertChildrenInv ==
  ASSUME HInv, NEW q \in Ctx,
         InsertChildren(q)
  PROVE  RequestInv(q)'
<1>1. CallsOwn(q)'
  BY DEF HInv, RequestInv, CallsOwn, InsertChildren, StartChains, vars
<1>2. OpenWhileWorking(q)'
  BY DEF HInv, RequestInv, OpenWhileWorking, Working, InsertChildren, StartChains, vars
<1>3. OwnRunner(q)'
  BY DEF HInv, RequestInv, OwnRunner, Working, Opening, Free, InsertChildren, StartChains, vars
<1>4. SideRunners(q)'
  BY DEF HInv, RequestInv, SideRunners, SidesOf, Working, Free, InsertChildren, StartChains, vars
<1>5. EndingRunner(q)'
  BY DEF HInv, RequestInv, EndingRunner, InsertChildren, StartChains, Goto
<1>6. Fates(q)'
  BY DEF HInv, RequestInv, Fates, Finished, InsertChildren, StartChains, Goto
<1>7. ChildRunners(q)'
  BY DEF HInv, RequestInv, HandlerTypeOK, SideTypeOK, ChildRunners, InsertChildren, StartChains, Goto, vars
<1> QED
  BY <1>1, <1>2, <1>3, <1>4, <1>5, <1>6, <1>7 DEF RequestInv

\* All children have returned.
LEMMA JoinInv ==
  ASSUME HInv, NEW q \in Ctx,
         Join(q)
  PROVE  RequestInv(q)'
<1>1. CallsOwn(q)'
  BY DEF HInv, RequestInv, CallsOwn, Join, vars
<1>2. OpenWhileWorking(q)'
  BY DEF HInv, RequestInv, OpenWhileWorking, Working, Join, vars
<1>3. OwnRunner(q)'
  BY DEF HInv, RequestInv, OwnRunner, Working, Opening, Free, Join, vars
<1>4. SideRunners(q)'
  BY DEF HInv, RequestInv, SideRunners, Working, Free, Join, vars
<1>5. EndingRunner(q)'
  BY DEF HInv, RequestInv, EndingRunner, Join, Goto
<1>6. Fates(q)'
  BY DEF HInv, RequestInv, Fates, Finished, Join, Goto
<1>7. ChildRunners(q)'
  BY DEF HInv, RequestInv, ChildRunners, Join, vars
<1> QED
  BY <1>1, <1>2, <1>3, <1>4, <1>5, <1>6, <1>7 DEF RequestInv

\* The result is sent.
LEMMA FinishInv ==
  ASSUME HInv, NEW q \in Ctx,
         Finish(q)
  PROVE  RequestInv(q)'
<1>1. CallsOwn(q)'
  BY DEF HInv, RequestInv, CallsOwn, Finish, vars
<1>2. OpenWhileWorking(q)'
  BY DEF HInv, RequestInv, OpenWhileWorking, Working, Finish, Goto
<1>3. OwnRunner(q)'
  BY DEF HInv, RequestInv, OwnRunner, Working, Opening, Finish, Goto, vars
<1>4. SideRunners(q)'
  BY DEF HInv, RequestInv, SideRunners, Working, Free, Finish, Goto, vars
<1>5. EndingRunner(q)'
  BY DEF HInv, RequestInv, EndingRunner, Finish, vars
<1>6. Fates(q)'
  BY DEF HInv, RequestInv, Fates, EndingRunner, Free, Finish, Goto, vars
<1>7. ChildRunners(q)'
  BY DEF HInv, RequestInv, ChildRunners, Finish, vars
<1> QED
  BY <1>1, <1>2, <1>3, <1>4, <1>5, <1>6, <1>7 DEF RequestInv

\* The error handler answers, or nobody does.
LEMMA AfterRollbackInv ==
  ASSUME HInv, NEW q \in Ctx,
         AfterRollback(q) \/ RollbackThrew(q)
  PROVE  RequestInv(q)'
<1>0. /\ UNCHANGED <<storage, phase, owner, txActive, dbtx, wrote, pc, ctx, qr, own, side>>
      /\ step[q] = "rollingback"
      /\ \/ pc[q] = "idle" /\ Goto(q, "errored")
         \/ pc[q] = "threw" /\ Goto(q, "hung")
  BY DEF AfterRollback, RollbackThrew, vars
<1>1. CallsOwn(q)'
  BY <1>0 DEF HInv, RequestInv, CallsOwn
<1>2. OpenWhileWorking(q)'
  BY <1>0 DEF HInv, RequestInv, HandlerTypeOK, OpenWhileWorking, Working, Goto
<1>3. OwnRunner(q)'
  BY <1>0 DEF HInv, RequestInv, HandlerTypeOK, OwnRunner, Working, Opening, Goto
<1>4. SideRunners(q)'
  BY <1>0 DEF HInv, RequestInv, HandlerTypeOK, SideRunners, Working, Free, Goto
<1>5. EndingRunner(q)'
  BY <1>0 DEF HInv, RequestInv, HandlerTypeOK, EndingRunner, Goto
<1>6. Fates(q)'
  BY <1>0 DEF HInv, RequestInv, HandlerTypeOK, Fates, EndingRunner, Free, Goto
<1>7. ChildRunners(q)'
  BY <1>0
  DEF HInv, RequestInv, HandlerTypeOK, ChildRunners, ChildrenOf, SideRunners, SidesOf,
      Side, Goto
<1> QED
  BY <1>1, <1>2, <1>3, <1>4, <1>5, <1>6, <1>7 DEF RequestInv

\* An event hook is started.
LEMMA TriggerEventInv ==
  ASSUME HInv, NEW q \in Ctx,
         NEW s \in Event, TriggerEvent(q, s)
  PROVE  RequestInv(q)'
<1>0. s \notin ChildrenOf(q)
  BY ChainAssumption DEF ChildrenOf
<1>1. CallsOwn(q)'
  BY DEF HInv, RequestInv, CallsOwn, TriggerEvent, StartChains, vars
<1>2. OpenWhileWorking(q)'
  BY DEF HInv, RequestInv, OpenWhileWorking, Working, TriggerEvent, StartChains, vars
<1>3. OwnRunner(q)'
  BY DEF HInv, RequestInv, OwnRunner, Working, Opening, Free, TriggerEvent, StartChains, vars
<1>4. SideRunners(q)'
  BY DEF HInv, RequestInv, SideRunners, SidesOf, Working, Free, TriggerEvent, StartChains,
         vars
<1>5. EndingRunner(q)'
  BY DEF HInv, RequestInv, EndingRunner, TriggerEvent, StartChains
<1>6. Fates(q)'
  BY DEF HInv, RequestInv, Fates, Finished, TriggerEvent, StartChains
<1>7. ChildRunners(q)'
  BY <1>0
  DEF HInv, RequestInv, ChildRunners, ChildrenOf, Side, TriggerEvent, StartChains, vars
<1> QED
  BY <1>1, <1>2, <1>3, <1>4, <1>5, <1>6, <1>7 DEF RequestInv

\* A side chain returns.
LEMMA SideReturnsInv ==
  ASSUME HInv, NEW q \in Ctx,
         NEW s \in SidesOf(q), SideReturns(s)
  PROVE  RequestInv(q)'
<1>1. CallsOwn(q)'
  BY DEF HInv, RequestInv, CallsOwn, SideReturns, ChainReturns, vars
<1>2. OpenWhileWorking(q)'
  BY DEF HInv, RequestInv, OpenWhileWorking, Working, SideReturns, ChainReturns, vars
<1>3. OwnRunner(q)'
  BY DEF HInv, RequestInv, OwnRunner, Working, Opening, Free, SideReturns, ChainReturns, vars
<1>4. SideRunners(q)'
  BY DEF HInv, RequestInv, SideRunners, Working, Free, SideReturns, ChainReturns, vars
<1>5. EndingRunner(q)'
  BY DEF HInv, RequestInv, EndingRunner, Calm, Free, SideReturns, ChainReturns, vars
<1>6. Fates(q)'
  BY DEF HInv, RequestInv, Fates, Free, SideReturns, ChainReturns, vars
<1>7. ChildRunners(q)'
  BY DEF HInv, RequestInv, ChildRunners, SideReturns, ChainReturns, vars
<1> QED
  BY <1>1, <1>2, <1>3, <1>4, <1>5, <1>6, <1>7 DEF RequestInv

\* A side chain fails.
LEMMA SideFailsInv ==
  ASSUME HInv, NEW q \in Ctx,
         NEW s \in SidesOf(q), SideFails(s)
  PROVE  RequestInv(q)'
<1>1. CallsOwn(q)'
  BY DEF HInv, RequestInv, CallsOwn, SideFails, ChainFails, vars
<1>2. OpenWhileWorking(q)'
  BY DEF HInv, RequestInv, OpenWhileWorking, Working, SideFails, ChainFails, vars
<1>3. OwnRunner(q)'
  BY DEF HInv, RequestInv, OwnRunner, Working, Opening, Free, SideFails, ChainFails, vars
<1>4. SideRunners(q)'
  BY DEF HInv, RequestInv, SideRunners, Working, Free, SideFails, ChainFails, vars
<1>5. EndingRunner(q)'
  BY DEF HInv, RequestInv, EndingRunner, Calm, Free, SideFails, ChainFails, vars
<1>6. Fates(q)'
  BY DEF HInv, RequestInv, Fates, Free, SideFails, ChainFails, vars
<1>7. ChildRunners(q)'
  BY DEF HInv, RequestInv, ChildRunners, SideFails, ChainFails, vars
<1> QED
  BY <1>1, <1>2, <1>3, <1>4, <1>5, <1>6, <1>7 DEF RequestInv

\* A statement of a service runs inside the transaction.
LEMMA RunStatementInv ==
  ASSUME HInv, NEW q \in Ctx,
         RunStatement(q)
  PROVE  RequestInv(q)'
<1>1. CallsOwn(q)'
  BY DEF HInv, RequestInv, CallsOwn, RunStatement, Write
<1>2. OpenWhileWorking(q)'
  BY DEF HInv, RequestInv, OpenWhileWorking, Working, RunStatement, Write
<1>3. OwnRunner(q)'
  BY DEF HInv, RequestInv, OwnRunner, OpenWhileWorking, Working, Opening, Free,
         RunStatement, Write
<1>4. SideRunners(q)'
  BY DEF HInv, RequestInv, SideRunners, Working, Free, RunStatement, Write
<1>5. EndingRunner(q)'
  BY DEF HInv, RequestInv, EndingRunner, RunStatement
<1>6. Fates(q)'
  BY DEF HInv, RequestInv, Fates, Finished, RunStatement
<1>7. ChildRunners(q)'
  BY DEF HInv, RequestInv, ChildRunners, RunStatement, Write
<1> QED
  BY <1>1, <1>2, <1>3, <1>4, <1>5, <1>6, <1>7 DEF RequestInv

\* A hook that ends a transaction of a request that is over.
LEMMA EventEndsInv ==
  ASSUME HInv, NEW q \in Ctx,
         NEW s \in SidesOf(q), EventEnds(s)
  PROVE  RequestInv(q)'
<1>0. /\ s \in Task /\ s # q /\ q \in Task /\ s \notin ChildrenOf(q)
      /\ step[q] \in Finished
      /\ ~Opening(s)' /\ ctx'[s] \in {q, ctx[s]}
      /\ \A t \in SidesOf(q) \cup {q} : t # s =>
           pc'[t] = pc[t] /\ ctx'[t] = ctx[t] /\ qr'[t] = qr[t]
      /\ \A r \in Runner : dbtx[r] \in Over => dbtx'[r] = dbtx[r]
      /\ side[s] = "running" /\ UNCHANGED handlerVars
  <2>1. s \in Task /\ s # q /\ q \in Task /\ s \notin ChildrenOf(q) /\ ContextOf[s] = q
    BY SidesApart, ChainAssumption DEF EventEnds, ChainEnds, ChildrenOf, SidesOf
  <2>2. PICK fate \in Over : End(s, q, fate)
    BY <2>1 DEF EventEnds, ChainEnds
  <2> QED
    BY <2>1, <2>2, SidesApart
    DEF EventEnds, ChainEnds, handlerVars, HInv, HandlerTypeOK, TypeOK, Opening, Over, Free,
        End, EndCall, EndCallRefused, EndNotStarted, EndReleased, EndMiss
<1>1. CallsOwn(q)'
  BY <1>0 DEF HInv, RequestInv, CallsOwn
<1>2. OpenWhileWorking(q)'
  BY DEF HInv, RequestInv, OpenWhileWorking, Working, EventEnds, ChainEnds, Finished, SidesOf,
         handlerVars
<1>3. OwnRunner(q)'
  BY <1>0 DEF HInv, RequestInv, OwnRunner, Working, Opening, Finished, handlerVars
<1>4. SideRunners(q)'
  BY SidesApart
  DEF HInv, RequestInv, HandlerTypeOK, SideTypeOK, TypeOK, SideRunners, SidesOf, Working, Free,
      EventEnds, ChainEnds, Finished, End, EndCall, EndCallRefused, EndNotStarted, EndReleased,
      EndMiss, handlerVars
<1>5. EndingRunner(q)'
  BY DEF HInv, RequestInv, EndingRunner, SidesOf, EventEnds, ChainEnds, Finished, handlerVars
<1>6. Fates(q)'
  BY <1>0
  DEF HInv, RequestInv, HandlerTypeOK, SideTypeOK, TypeOK, Fates, Free, Finished, handlerVars
<1>7. ChildRunners(q)'
  BY <1>0 DEF HInv, RequestInv, ChildRunners, ChildrenOf, SidesOf, Side, handlerVars
<1> QED
  BY <1>1, <1>2, <1>3, <1>4, <1>5, <1>6, <1>7 DEF RequestInv

----------------------------------------------------------------------------
(* The handler ends its transaction.                                       *)

\* What a commitTransaction or rollbackTransaction of the handler does: when
\* statements were run, it finds their runner and its open transaction.
LEMMA HandlerEnds ==
  ASSUME HInv, NEW q \in Ctx, NEW fate \in Over, End(q, q, fate),
         \/ step[q] \in {"executing", "joining"}
         \/ step[q] = "committing" /\ pc[q] = "threw"
  PROVE  /\ pc'[q] \in {"idle", "threw", "ending", "refused"}
         /\ ctx'[q] \in {None, q}
         /\ \A s \in SidesOf(q) : pc'[s] = pc[s] /\ ctx'[s] = ctx[s] /\ qr'[s] = qr[s]
         /\ own[q] # {} =>
              /\ Calm(q)
              /\ qr[q] # None /\ qr[q] \in Runner
              /\ storage[q] = qr[q] /\ storage'[q] = qr[q] /\ qr'[q] = qr[q]
              /\ txActive'[qr[q]] /\ phase'[qr[q]] # "released"
              /\ dbtx[qr[q]] \in {"open", "rolledback"}
              /\ step[q] # "committing" => dbtx[qr[q]] = "open"
              /\ \/ /\ pc'[q] = "ending"
                    /\ dbtx'[qr[q]] = IF dbtx[qr[q]] = "open" THEN fate ELSE dbtx[qr[q]]
                 \/ pc'[q] = "refused" /\ dbtx'[qr[q]] \in {"open", "rolledback"}
<1>0. SidesOf(q) \subseteq Task \ Ctx /\ q \in Task
  BY SidesApart, ChainAssumption
<1>1. /\ pc'[q] \in {"idle", "threw", "ending", "refused"}
      /\ ctx'[q] \in {None, q}
      /\ \A s \in SidesOf(q) : pc'[s] = pc[s] /\ ctx'[s] = ctx[s] /\ qr'[s] = qr[s]
  BY <1>0
  DEF HInv, RequestInv, HandlerTypeOK, SideTypeOK, TypeOK, CallsOwn,
      End, EndCall, EndCallRefused, EndNotStarted, EndReleased, EndMiss
<1>2. ASSUME own[q] # {}
      PROVE  /\ Calm(q)
             /\ qr[q] # None /\ qr[q] \in Runner /\ storage[q] = qr[q]
             /\ phase[qr[q]] # "released" /\ txActive[qr[q]]
             /\ dbtx[qr[q]] \in {"open", "rolledback"}
             /\ step[q] # "committing" => dbtx[qr[q]] = "open"
  <2>1. Calm(q) /\ qr[q] # None /\ storage[q] = qr[q] /\ qr[q] \in Runner
    BY <1>0, <1>2
    DEF HInv, RequestInv, HandlerTypeOK, SideTypeOK, TypeOK, OwnRunner, SideRunners, EndingRunner, Calm,
        Working
  <2>2. dbtx[qr[q]] \in {"open", "rolledback"} /\ (step[q] # "committing" => dbtx[qr[q]] = "open")
    BY <2>1, <1>2 DEF HInv, RequestInv, OpenWhileWorking, Fates, Working
  <2>3. txActive[qr[q]]
    BY <2>1, <1>2 DEF HInv, RequestInv, OpenWhileWorking, EndingRunner, Working
  <2>4. phase[qr[q]] # "released"
    BY <2>1, <2>2, <1>2
    DEF HInv, IInv, RequestInv, ReleasedIsOver, EndingRunner, Working, Over
  <2> QED
    BY <2>1, <2>2, <2>3, <2>4
<1>3. ASSUME own[q] # {}
      PROVE  /\ storage'[q] = qr[q] /\ qr'[q] = qr[q]
             /\ txActive'[qr[q]] /\ phase'[qr[q]] # "released"
             /\ \/ /\ pc'[q] = "ending"
                   /\ dbtx'[qr[q]] = IF dbtx[qr[q]] = "open" THEN fate ELSE dbtx[qr[q]]
                \/ pc'[q] = "refused" /\ dbtx'[qr[q]] \in {"open", "rolledback"}
  BY <1>0, <1>2, <1>3
  DEF HInv, HandlerTypeOK, SideTypeOK, TypeOK,
      End, EndCall, EndCallRefused, EndNotStarted, EndReleased, EndMiss
<1> QED
  BY <1>1, <1>2, <1>3

\* The handler commits.
LEMMA ReplyInv ==
  ASSUME HInv, NEW q \in Ctx,
         Reply(q)
  PROVE  RequestInv(q)'
<1>0. /\ q \in Task /\ ~Opening(q)'
      /\ pc'[q] \in {"idle", "threw", "ending", "refused"}
      /\ ctx'[q] \in {None, q}
      /\ \A s \in SidesOf(q) : pc'[s] = pc[s] /\ ctx'[s] = ctx[s] /\ qr'[s] = qr[s]
      /\ own[q] # {} =>
           /\ Calm(q)
           /\ qr[q] # None /\ qr[q] \in Runner
           /\ storage[q] = qr[q] /\ storage'[q] = qr[q] /\ qr'[q] = qr[q]
           /\ txActive'[qr[q]] /\ phase'[qr[q]] # "released"
           /\ \/ pc'[q] = "ending" /\ dbtx'[qr[q]] = "committed"
              \/ pc'[q] = "refused" /\ dbtx'[qr[q]] \in {"open", "rolledback"}
  <2>1. /\ End(q, q, "committed") /\ "committed" \in Over
        /\ step[q] \in {"executing", "joining"}
    BY DEF Reply, Over
  <2>2. step[q] = "committing" => "committed" = "rolledback"
    BY <2>1
  <2>3. /\ pc'[q] \in {"idle", "threw", "ending", "refused"}
        /\ own[q] # {} => (step[q] # "committing" => dbtx[qr[q]] = "open")
                          /\ dbtx[qr[q]] \in {"open", "rolledback"}
    BY <2>1, <2>2, HandlerEnds
  <2>4. q \in Task /\ ~Opening(q)'
    BY <2>3, ChainAssumption DEF Opening
  <2>5. own[q] # {} =>
          (IF dbtx[qr[q]] = "open" THEN "committed" ELSE dbtx[qr[q]]) = "committed"
    BY <2>1, <2>2, <2>3
  <2> QED
    BY <2>1, <2>2, <2>3, <2>4, <2>5, HandlerEnds
<1>1. CallsOwn(q)'
  BY <1>0 DEF HInv, RequestInv, CallsOwn
<1>2. OpenWhileWorking(q)'
  BY DEF HInv, RequestInv, HandlerTypeOK, SideTypeOK, OpenWhileWorking, Working, Reply, Goto
<1>3. OwnRunner(q)'
  BY <1>0 DEF HInv, RequestInv, HandlerTypeOK, SideTypeOK, OwnRunner, Working, Reply, Goto
<1>4. SideRunners(q)'
  BY <1>0 DEF HInv, RequestInv, SideRunners, Working, Free, Reply
<1>5. EndingRunner(q)'
  BY <1>0 DEF HInv, RequestInv, EndingRunner, Calm, Free, Reply
<1>6. Fates(q)'
  BY <1>0 DEF HInv, RequestInv, Fates, Finished, Reply, Goto
<1>7. ChildRunners(q)'
  BY <1>0
  DEF HInv, RequestInv, ChildRunners, ChildrenOf, SideRunners, SidesOf, Side, Reply
<1> QED
  BY <1>1, <1>2, <1>3, <1>4, <1>5, <1>6, <1>7 DEF RequestInv

\* The handler rolls back.
LEMMA ThrowInv ==
  ASSUME HInv, NEW q \in Ctx,
         Throw(q)
  PROVE  RequestInv(q)'
<1>0. /\ q \in Task /\ ~Opening(q)'
      /\ pc'[q] \in {"idle", "threw", "ending", "refused"}
      /\ ctx'[q] \in {None, q}
      /\ \A s \in SidesOf(q) : pc'[s] = pc[s] /\ ctx'[s] = ctx[s] /\ qr'[s] = qr[s]
      /\ own[q] # {} =>
           /\ Calm(q)
           /\ qr[q] # None /\ qr[q] \in Runner
           /\ storage[q] = qr[q] /\ storage'[q] = qr[q] /\ qr'[q] = qr[q]
           /\ txActive'[qr[q]] /\ phase'[qr[q]] # "released"
           /\ \/ pc'[q] = "ending" /\ dbtx'[qr[q]] = "rolledback"
              \/ pc'[q] = "refused" /\ dbtx'[qr[q]] \in {"open", "rolledback"}
  <2>1. /\ End(q, q, "rolledback") /\ "rolledback" \in Over
        /\ step[q] \in {"executing", "joining"}
    BY DEF Throw, Over
  <2>2. step[q] = "committing" => "rolledback" = "rolledback"
    BY <2>1
  <2>3. /\ pc'[q] \in {"idle", "threw", "ending", "refused"}
        /\ own[q] # {} => (step[q] # "committing" => dbtx[qr[q]] = "open")
                          /\ dbtx[qr[q]] \in {"open", "rolledback"}
    BY <2>1, <2>2, HandlerEnds
  <2>4. q \in Task /\ ~Opening(q)'
    BY <2>3, ChainAssumption DEF Opening
  <2>5. own[q] # {} =>
          (IF dbtx[qr[q]] = "open" THEN "rolledback" ELSE dbtx[qr[q]]) = "rolledback"
    BY <2>1, <2>2, <2>3
  <2> QED
    BY <2>1, <2>2, <2>3, <2>4, <2>5, HandlerEnds
<1>1. CallsOwn(q)'
  BY <1>0 DEF HInv, RequestInv, CallsOwn
<1>2. OpenWhileWorking(q)'
  BY DEF HInv, RequestInv, HandlerTypeOK, SideTypeOK, OpenWhileWorking, Working, Throw, Goto
<1>3. OwnRunner(q)'
  BY <1>0 DEF HInv, RequestInv, HandlerTypeOK, SideTypeOK, OwnRunner, Working, Throw, Goto
<1>4. SideRunners(q)'
  BY <1>0 DEF HInv, RequestInv, SideRunners, Working, Free, Throw
<1>5. EndingRunner(q)'
  BY <1>0 DEF HInv, RequestInv, EndingRunner, Calm, Free, Throw
<1>6. Fates(q)'
  BY <1>0 DEF HInv, RequestInv, Fates, Finished, Throw, Goto
<1>7. ChildRunners(q)'
  BY <1>0
  DEF HInv, RequestInv, ChildRunners, ChildrenOf, SideRunners, SidesOf, Side, Throw
<1> QED
  BY <1>1, <1>2, <1>3, <1>4, <1>5, <1>6, <1>7 DEF RequestInv

\* The handler rolls back after a COMMIT that was refused.
LEMMA CommitThrewInv ==
  ASSUME HInv, NEW q \in Ctx,
         CommitThrew(q)
  PROVE  RequestInv(q)'
<1>0. /\ q \in Task /\ ~Opening(q)'
      /\ pc'[q] \in {"idle", "threw", "ending", "refused"}
      /\ ctx'[q] \in {None, q}
      /\ \A s \in SidesOf(q) : pc'[s] = pc[s] /\ ctx'[s] = ctx[s] /\ qr'[s] = qr[s]
      /\ own[q] # {} =>
           /\ Calm(q)
           /\ qr[q] # None /\ qr[q] \in Runner
           /\ storage[q] = qr[q] /\ storage'[q] = qr[q] /\ qr'[q] = qr[q]
           /\ txActive'[qr[q]] /\ phase'[qr[q]] # "released"
           /\ \/ pc'[q] = "ending" /\ dbtx'[qr[q]] = "rolledback"
              \/ pc'[q] = "refused" /\ dbtx'[qr[q]] \in {"open", "rolledback"}
  <2>1. /\ End(q, q, "rolledback") /\ "rolledback" \in Over
        /\ step[q] = "committing" /\ pc[q] = "threw"
    BY DEF CommitThrew, Over
  <2>2. step[q] = "committing" => "rolledback" = "rolledback"
    BY <2>1
  <2>3. /\ pc'[q] \in {"idle", "threw", "ending", "refused"}
        /\ own[q] # {} => (step[q] # "committing" => dbtx[qr[q]] = "open")
                          /\ dbtx[qr[q]] \in {"open", "rolledback"}
    BY <2>1, <2>2, HandlerEnds
  <2>4. q \in Task /\ ~Opening(q)'
    BY <2>3, ChainAssumption DEF Opening
  <2>5. own[q] # {} =>
          (IF dbtx[qr[q]] = "open" THEN "rolledback" ELSE dbtx[qr[q]]) = "rolledback"
    BY <2>1, <2>2, <2>3
  <2> QED
    BY <2>1, <2>2, <2>3, <2>4, <2>5, HandlerEnds
<1>1. CallsOwn(q)'
  BY <1>0 DEF HInv, RequestInv, CallsOwn
<1>2. OpenWhileWorking(q)'
  BY DEF HInv, RequestInv, OpenWhileWorking, Working, CommitThrew, Goto
<1>3. OwnRunner(q)'
  BY <1>0 DEF HInv, RequestInv, OwnRunner, Working, CommitThrew, Goto
<1>4. SideRunners(q)'
  BY <1>0 DEF HInv, RequestInv, SideRunners, Working, Free, CommitThrew, Goto
<1>5. EndingRunner(q)'
  BY <1>0 DEF HInv, RequestInv, EndingRunner, Calm, Free, CommitThrew
<1>6. Fates(q)'
  BY <1>0 DEF HInv, RequestInv, HandlerTypeOK, SideTypeOK, Fates, Finished, CommitThrew, Goto
<1>7. ChildRunners(q)'
  BY <1>0
  DEF HInv, RequestInv, ChildRunners, ChildrenOf, SideRunners, SidesOf, Side,
      CommitThrew
<1> QED
  BY <1>1, <1>2, <1>3, <1>4, <1>5, <1>6, <1>7 DEF RequestInv

----------------------------------------------------------------------------
(* Every step of the handler.                                              *)

\* Every step of the handler, of a side chain, of the database or the pool
\* is a step of the store, or leaves the store alone.
LEMMA StepIsStoreStep ==
  ASSUME [HandlerNext]_allVars
  PROVE  [Next]_vars
<1> USE DEF vars
<1>1. ASSUME NEW q \in Ctx, HandlerStep(q)
      PROVE  [Next]_vars
  <2>1. q \in Task
    BY ChainAssumption
  <2>2. CASE \/ Start(q) \/ InsertChildren(q) \/ Join(q) \/ Finish(q) \/ AfterRollback(q) \/ RollbackThrew(q)
             \/ \E s \in Event : TriggerEvent(q, s)
    BY <2>2 DEF Start, InsertChildren, StartChains, Join, Finish, AfterRollback, RollbackThrew, TriggerEvent, StartChains
  <2>3. CASE UseTransaction(q) \/ RunStatement(q)
    BY <2>1, <2>3 DEF UseTransaction, RunStatement, Next
  <2>4. CASE Reply(q) \/ Throw(q) \/ CommitThrew(q)
    BY <2>1, <2>4 DEF Reply, Throw, CommitThrew, Next, Over
  <2> QED
    BY <1>1, <2>2, <2>3, <2>4 DEF HandlerStep
<1>2. ASSUME NEW s \in Side, SideStep(s)
      PROVE  [Next]_vars
  <2>1. s \in Task /\ ContextOf[s] \in Ctx
    BY ChainAssumption
  <2>2. CASE SideWorks(s) \/ EventEnds(s)
    BY <2>1, <2>2 DEF SideWorks, ChainWorks, EventEnds, ChainEnds, Next
  <2>3. CASE SideReturns(s) \/ SideFails(s)
    BY <2>3 DEF SideReturns, ChainReturns, SideFails, ChainFails
  <2> QED
    BY <1>2, <2>2, <2>3 DEF SideStep
<1>3. ASSUME NEW t \in Task, AnswerChain(t) \/ RefuseChain(t)
      PROVE  [Next]_vars
  BY <1>3 DEF AnswerChain, RefuseChain, Next
<1>4. CASE Quiet \/ UNCHANGED allVars
  BY <1>4 DEF Quiet, allVars
<1> QED
  BY <1>1, <1>2, <1>3, <1>4 DEF HandlerNext

\* A handler, or a side chain, or an answer to either, leaves the requests
\* it does not work for alone.
LEMMA StepFrame ==
  ASSUME HInv, NEW q \in Ctx,
         \/ \E p \in Ctx \ {q} : HandlerStep(p)
         \/ \E s \in Side \ SidesOf(q) : SideStep(s)
         \/ \E t \in Task \ (SidesOf(q) \cup {q}) : AnswerChain(t) \/ RefuseChain(t)
  PROVE  StoreUntouched(q) /\ HandlerUntouched(q)
<1>1. ASSUME UNCHANGED vars
      PROVE  StoreUntouched(q)
  BY <1>1 DEF vars, StoreUntouched
<1>2. ASSUME NEW p \in Ctx \ {q}, HandlerStep(p)
      PROVE  StoreUntouched(q) /\ HandlerUntouched(q)
  <2>1. HandlerUntouched(q)
    BY <1>2, ChainAssumption
    DEF HInv, HandlerTypeOK, SideTypeOK, HandlerUntouched, HandlerStep, Goto, SidesOf, ChildrenOf, Side,
        handlerVars, Start, UseTransaction, RunStatement, InsertChildren, StartChains, Join, TriggerEvent, StartChains,
        Reply, Throw, Finish, CommitThrew, AfterRollback, RollbackThrew
  <2>2. p \in Task /\ WorksFor(p) = p
    BY ChainAssumption DEF WorksFor
  <2>3. CASE \/ Start(p) \/ InsertChildren(p) \/ Join(p) \/ Finish(p) \/ AfterRollback(p) \/ RollbackThrew(p)
             \/ \E s \in Event : TriggerEvent(p, s)
    BY <1>1, <2>1, <2>3 DEF Start, InsertChildren, StartChains, Join, Finish, AfterRollback, RollbackThrew, TriggerEvent, StartChains
  <2>4. CASE \/ UseTransaction(p) \/ RunStatement(p)
             \/ Reply(p) \/ Throw(p) \/ CommitThrew(p)
    <3>1. StoreStep(p, p)
      BY <2>4 DEF UseTransaction, RunStatement, Reply, Throw, CommitThrew, StoreStep, Over
    <3> QED
      BY <2>1, <2>2, <3>1, StoreFrame
  <2> QED
    BY <1>2, <2>3, <2>4 DEF HandlerStep
<1>3. ASSUME NEW s \in Side \ SidesOf(q), SideStep(s)
      PROVE  StoreUntouched(q) /\ HandlerUntouched(q)
  <2>1. HandlerUntouched(q)
    BY <1>3
    DEF HInv, HandlerTypeOK, SideTypeOK, HandlerUntouched, SideStep, SidesOf, handlerVars, SideWorks, ChainWorks,
        EventEnds, ChainEnds, SideReturns, ChainReturns, SideFails, ChainFails
  <2>2. s \in Task /\ WorksFor(s) = ContextOf[s] /\ ContextOf[s] # q
    BY ChainAssumption DEF WorksFor, SidesOf
  <2>3. CASE SideReturns(s) \/ SideFails(s)
    BY <1>1, <2>1, <2>3 DEF SideReturns, ChainReturns, SideFails, ChainFails
  <2>4. CASE SideWorks(s) \/ EventEnds(s)
    <3>1. StoreStep(s, ContextOf[s])
      BY <2>4 DEF SideWorks, ChainWorks, EventEnds, ChainEnds, StoreStep
    <3> QED
      BY <2>1, <2>2, <3>1, StoreFrame
  <2> QED
    BY <1>3, <2>3, <2>4 DEF SideStep
<1>4. ASSUME NEW t \in Task \ (SidesOf(q) \cup {q}), AnswerChain(t) \/ RefuseChain(t)
      PROVE  StoreUntouched(q) /\ HandlerUntouched(q)
  <2>1. HandlerUntouched(q)
    BY <1>4 DEF AnswerChain, RefuseChain, handlerVars, HandlerUntouched
  <2>2. WorksFor(t) # q
    BY <1>4, ChainAssumption DEF WorksFor, SidesOf
  <2>3. StoreStep(t, WorksFor(t))
    BY <1>4 DEF AnswerChain, RefuseChain, StoreStep
  <2> QED
    BY <2>1, <2>2, <2>3, StoreFrame
<1> QED
  BY <1>2, <1>3, <1>4

\* Every step keeps every request's part of the invariant.
LEMMA RequestStep ==
  ASSUME HInv, [HandlerNext]_allVars, NEW q \in Ctx
  PROVE  RequestInv(q)'
<1>1. CASE \/ \E p \in Ctx \ {q} : HandlerStep(p)
           \/ \E s \in Side \ SidesOf(q) : SideStep(s)
           \/ \E t \in Task \ (SidesOf(q) \cup {q}) : AnswerChain(t) \/ RefuseChain(t)
  BY <1>1, StepFrame, FrameInv
<1>2. CASE HandlerStep(q)
  <2>1. CASE Start(q) \/ InsertChildren(q) \/ Join(q) \/ \E s \in Event : TriggerEvent(q, s)
    BY <2>1, StartInv, InsertChildrenInv, JoinInv, TriggerEventInv
  <2>2. CASE UseTransaction(q)
    BY <2>2, HandlerHitsInv, HandlerMissesInv DEF UseTransaction, Get
  <2>3. CASE RunStatement(q) \/ Reply(q) \/ Throw(q)
    BY <2>3, RunStatementInv, ReplyInv, ThrowInv
  <2>4. CASE Finish(q) \/ CommitThrew(q) \/ AfterRollback(q) \/ RollbackThrew(q)
    BY <2>4, FinishInv, CommitThrewInv, AfterRollbackInv
  <2> QED
    BY <1>2, <2>1, <2>2, <2>3, <2>4 DEF HandlerStep
<1>3. ASSUME NEW s \in SidesOf(q), SideStep(s)
      PROVE  RequestInv(q)'
  <2>1. CASE SideWorks(s)
    <3>1. ContextOf[s] = q
      BY DEF SidesOf
    <3> QED
      BY <2>1, <3>1, SideHitsInv, SideMissesInv, SideWritesInv
      DEF SideWorks, ChainWorks, Get, handlerVars
  <2>2. CASE EventEnds(s) \/ SideReturns(s) \/ SideFails(s)
    BY <2>2, EventEndsInv, SideReturnsInv, SideFailsInv
  <2> QED
    BY <1>3, <2>1, <2>2 DEF SideStep
<1>4. ASSUME NEW t \in SidesOf(q) \cup {q}, AnswerChain(t) \/ RefuseChain(t)
      PROVE  RequestInv(q)'
  BY <1>4, ConnectOwnInv, BeginOwnInv, OpenFailsOwnInv, EndAnsweredOwnInv, EndThrowsOwnInv,
     ReleaseOwnInv, DeleteOwnInv
  DEF AnswerChain, RefuseChain, Answer
<1>5. CASE Quiet \/ UNCHANGED allVars
  <2>1. StoreUntouched(q) /\ HandlerUntouched(q)
    BY <1>5 DEF Quiet, allVars, vars, handlerVars, StoreUntouched, HandlerUntouched
  <2> QED
    BY <2>1, FrameInv
<1> QED
  BY <1>1, <1>2, <1>3, <1>4, <1>5 DEF HandlerNext

\* Every step keeps the types of the handler's variables.
LEMMA HandlerTypeStep ==
  ASSUME HInv, [HandlerNext]_allVars, TypeOK'
  PROVE  HandlerTypeOK'
<1> USE DEF HandlerTypeOK, SideTypeOK, Finished
<1>1. ASSUME NEW q \in Ctx, HandlerStep(q)
      PROVE  HandlerTypeOK'
  <2>1. CASE Start(q) \/ UseTransaction(q)
    BY <2>1 DEF HInv, Goto, handlerVars, Start, UseTransaction
  <2>2. CASE RunStatement(q)
    BY <2>2 DEF HInv, RunStatement
  <2>3. CASE InsertChildren(q) \/ Join(q)
    BY <2>3 DEF HInv, Goto, InsertChildren, StartChains, Join
  <2>4. ASSUME NEW s \in Event, TriggerEvent(q, s)
        PROVE  HandlerTypeOK'
    BY <2>4 DEF HInv, Side, TriggerEvent, StartChains
  <2>5. CASE Reply(q) \/ Throw(q) \/ CommitThrew(q)
    BY <2>5 DEF HInv, Goto, Reply, Throw, CommitThrew
  <2>6. CASE Finish(q) \/ AfterRollback(q) \/ RollbackThrew(q)
    BY <2>6 DEF HInv, Goto, Finish, AfterRollback, RollbackThrew
  <2> QED
    BY <1>1, <2>1, <2>2, <2>3, <2>4, <2>5, <2>6 DEF HandlerStep
<1>2. ASSUME NEW s \in Side, SideStep(s)
      PROVE  HandlerTypeOK'
  BY <1>2 DEF HInv, SideStep, handlerVars, SideWorks, ChainWorks, EventEnds, ChainEnds, SideReturns, ChainReturns, SideFails, ChainFails
<1>3. CASE \/ \E t \in Task : AnswerChain(t) \/ RefuseChain(t)
           \/ Quiet \/ UNCHANGED allVars
  BY <1>3 DEF HInv, AnswerChain, RefuseChain, Quiet, allVars, handlerVars
<1> QED
  BY <1>1, <1>2, <1>3 DEF HandlerNext

\* HInv holds when the server starts.
LEMMA HandlerInitInv == HandlerInit => HInv
<1> SUFFICES ASSUME HandlerInit
             PROVE  HInv
  OBVIOUS
<1>1. IInv
  BY InitInv DEF HandlerInit
<1>2. HandlerTypeOK
  BY <1>1 DEF HandlerInit, SideInit, HandlerTypeOK, SideTypeOK, IInv
<1>3. ASSUME NEW q \in Ctx
      PROVE  RequestInv(q)
  BY SidesApart, ChainAssumption
  DEF HandlerInit, SideInit, Init, RequestInv, CallsOwn, OpenWhileWorking, OwnRunner, SideRunners,
      EndingRunner, Fates, ChildRunners, ChildrenOf, SidesOf, Side, Working, Opening, Free
<1> QED
  BY <1>1, <1>2, <1>3 DEF HInv

\* HInv holds in every state of every behaviour of the handler.
LEMMA HandlerInvariance == HandlerSpec => []HInv
<1>1. HInv /\ [HandlerNext]_allVars => HInv'
  <2> SUFFICES ASSUME HInv, [HandlerNext]_allVars
               PROVE  HInv'
    OBVIOUS
  <2>1. IInv'
    BY StepIsStoreStep, NextInv DEF HInv
  <2>2. HandlerTypeOK'
    BY <2>1, HandlerTypeStep DEF IInv
  <2>3. \A q \in Ctx : RequestInv(q)'
    BY RequestStep
  <2> QED
    BY <2>1, <2>2, <2>3 DEF HInv
<1> QED
  BY HandlerInitInv, <1>1, PTL DEF HandlerSpec

----------------------------------------------------------------------------
\* The handler, its side chains and the database together are callers of the
\* transaction store: all that is proved of Spec holds of every behaviour of
\* src/middlewares/request.ts, whatever the services do.
THEOREM HandlerRefinesStore == HandlerSpec => Spec
<1>1. HandlerInit => Init
  BY DEF HandlerInit
<1>2. [HandlerNext]_allVars => [Next]_vars
  BY StepIsStoreStep
<1> QED
  BY <1>1, <1>2, PTL DEF HandlerSpec, Spec

\* The handler's variables keep their types for any requests and chains.
THEOREM HandlerTypeCorrect == HandlerSpec => []HandlerTypeOK
<1>1. HInv => HandlerTypeOK
  BY DEF HInv
<1> QED
  BY HandlerInvariance, <1>1, PTL

\* Whatever children and hooks a request starts, and however long they
\* outlive it, a statement they make runs on a runner of their own request
\* and after its START TRANSACTION was answered.
THEOREM HandlerBegunBeforeUse == HandlerSpec => []BegunBeforeUse
  BY HandlerRefinesStore, BegunBeforeUseHolds, PTL

\* However many requests share the pool, a connection goes back to it only
\* when its transaction is over.
THEOREM HandlerReleasedIsOver == HandlerSpec => []ReleasedIsOver
  BY HandlerRefinesStore, ReleasedIsOverHolds, PTL

\* Whatever side chains a request starts, the handler's own statements are
\* inside its transaction, which is committed when the request ended well
\* and rolled back when it went to the error handler.
THEOREM HandlerKeepsItsWordHolds == HandlerSpec => []HandlerKeepsItsWord
<1>1. HInv => HandlerKeepsItsWord
  BY DEF HInv, HandlerKeepsItsWord, RequestInv, Fates, OwnRunner
<1> QED
  BY HandlerInvariance, <1>1, PTL

\* The children of a deep insert, however many, are in their parent's
\* transaction until one of them fails.
THEOREM ChildrenShareTransactionHolds == HandlerSpec => []ChildrenShareTransaction
<1>1. ASSUME HInv
      PROVE  ChildrenShareTransaction
  <2> SUFFICES ASSUME NEW s \in Child, qr[s] # None,
                      \A k \in ChildrenOf(ContextOf[s]) : side[k] # "failed"
               PROVE  qr[s] = qr[ContextOf[s]]
    BY DEF ChildrenShareTransaction
  <2>1. ContextOf[s] \in Ctx /\ s \in ChildrenOf(ContextOf[s])
    BY ChainAssumption DEF ChildrenOf, Side
  <2> QED
    BY <1>1, <2>1 DEF HInv, RequestInv, ChildRunners
<1>2. HInv => ChildrenShareTransaction
  BY <1>1
<1> QED
  BY HandlerInvariance, <1>2, PTL

----------------------------------------------------------------------------
(* The answer of a request that nothing disturbs: no hook was started on   *)
(* its transaction, and none of its children failed.  (A hook is not       *)
(* awaited, and Promise.all does not wait for the others once a child has  *)
(* failed: both may go on after the handler has ended the transaction.)    *)

Undisturbed(q) ==
  \A s \in SidesOf(q) : side[s] # "failed" /\ (s \in Event => side[s] = "unborn")

\* Only a connected runner runs statements, and whoever uses one owns it.
UsedRunners ==
  \A r \in Runner : /\ wrote[r] # {} => phase[r] \in {"connected", "released"}
                    /\ phase[r] # "unused" => owner[r] # None

\* All statements made for the request are in the handler's transaction, and
\* only the handler ends that.
WrittenInOwn(q) ==
  \A r \in Runner : owner[r] = q =>
    /\ wrote[r] # {} => wrote[r] = {"inside"} /\ own[q] # {} /\ r = qr[q]
    /\ Working(q) => dbtx[r] \notin Over

\* A connection of the request is the stored runner's or that of a START
\* TRANSACTION under way, and the entry outlives it.
HeldByOwn(q) ==
  /\ \A r \in Held : owner[r] = q =>
       storage[q] = r \/ (pc[q] = "beginning" /\ qr[q] = r)
  /\ step[q] \in {"committing", "rollingback"} =>
       /\ pc[q] \in {"ending", "refused", "releasing", "deleting"} => storage[q] = qr[q]
       /\ pc[q] = "deleting" => phase[qr[q]] = "released"
       /\ pc[q] = "idle" => storage[q] = None
  /\ step[q] \in Finished => Free(q)
  /\ step[q] \in {"ended", "errored"} => storage[q] = None

AnswerInv(q) ==
  Undisturbed(q) => WrittenInOwn(q) /\ ("begin" \notin Faults => HeldByOwn(q))

\* An empty answer follows the COMMIT, an error answer the ROLLBACK.
ToldAtEnd(q) ==
  /\ told[q] = "empty" => step[q] = "ended"
  /\ told[q] = "error" => step[q] = "errored"

AInv == /\ HInv /\ UsedRunners
        /\ \A q \in Ctx : AnswerInv(q) /\ ToldAtEnd(q)

\* The children of an undisturbed request are between two calls and have its
\* handler's runner; while one runs, that runner's transaction is open.
LEMMA UndisturbedSides ==
  ASSUME HInv, NEW q \in Ctx, Undisturbed(q), NEW s \in SidesOf(q)
  PROVE  /\ Free(s) /\ qr[s] \in {None, qr[q]}
         /\ side[s] = "running" =>
              /\ s \notin Event
              /\ step[q] = "joining" /\ own[q] # {} /\ Free(q)
              /\ qr[q] # None /\ storage[q] = qr[q] /\ dbtx[qr[q]] = "open"
<1>1. s \in Child => s \in ChildrenOf(q)
  BY DEF ChildrenOf, SidesOf
<1>2. s \in Child \/ s \in Event
  BY DEF SidesOf, Side
<1>3. \A k \in ChildrenOf(q) : side[k] # "failed"
  BY SidesApart DEF Undisturbed
<1>4. /\ side[s] = "running" => s \in Child /\ step[q] = "joining" /\ own[q] # {}
      /\ qr[s] \in {None, qr[q]}
  BY <1>1, <1>2, <1>3 DEF HInv, RequestInv, ChildRunners, SideRunners, Undisturbed
<1>5. Free(s)
  BY <1>4 DEF HInv, RequestInv, SideRunners, Working
<1>6. side[s] = "running" =>
        /\ Free(q) /\ qr[q] # None /\ storage[q] = qr[q] /\ dbtx[qr[q]] = "open"
  BY <1>4 DEF HInv, RequestInv, OwnRunner, OpenWhileWorking, Working
<1> QED
  BY <1>4, <1>5, <1>6, ChainAssumption

\* A request that is undisturbed after a step was so before it.
LEMMA UndisturbedBefore ==
  ASSUME HInv, [HandlerNext]_allVars, NEW q \in Ctx, Undisturbed(q)'
  PROVE  Undisturbed(q)
<1> SUFFICES ASSUME NEW s \in SidesOf(q)
             PROVE  /\ side[s] = "failed" => side'[s] = "failed"
                    /\ s \in Event /\ side[s] # "unborn" => side'[s] # "unborn"
  BY DEF Undisturbed
<1>0. s \in Side /\ (s \in Event => \A p \in Ctx : s \notin ChildrenOf(p))
  BY ChainAssumption DEF SidesOf, ChildrenOf
<1>1. ASSUME NEW p \in Ctx, HandlerStep(p)
      PROVE  /\ side[s] = "failed" => side'[s] = "failed"
             /\ s \in Event /\ side[s] # "unborn" => side'[s] # "unborn"
  <2>1. CASE InsertChildren(p)
    BY <1>0, <2>1 DEF InsertChildren, StartChains
  <2>2. CASE \E e \in Event : TriggerEvent(p, e)
    BY <1>0, <2>2 DEF TriggerEvent, StartChains, HInv, HandlerTypeOK, SideTypeOK
  <2> QED
    BY <1>1, <2>1, <2>2
    DEF HandlerStep, Start, UseTransaction, RunStatement, Join, Reply, Throw, Finish,
        CommitThrew, AfterRollback, RollbackThrew, handlerVars
<1>2. ASSUME NEW k \in Side, SideStep(k)
      PROVE  /\ side[s] = "failed" => side'[s] = "failed"
             /\ s \in Event /\ side[s] # "unborn" => side'[s] # "unborn"
  BY <1>0, <1>2
  DEF SideStep, SideWorks, ChainWorks, EventEnds, ChainEnds, SideReturns, ChainReturns, SideFails, ChainFails, handlerVars, HInv,
      HandlerTypeOK, SideTypeOK
<1> QED
  BY <1>1, <1>2 DEF HandlerNext, AnswerChain, RefuseChain, Quiet, allVars, handlerVars

\* A step of another request's chains leaves the answer alone.
LEMMA FrameAnswer ==
  ASSUME HInv, NEW q \in Ctx, AnswerInv(q), Undisturbed(q),
         StoreUntouched(q), HandlerUntouched(q)
  PROVE  WrittenInOwn(q)' /\ ("begin" \notin Faults => HeldByOwn(q)')
<1>0. /\ q \in Task
      /\ qr[q] # None => owner[qr[q]] = q /\ qr[q] \in Runner
      /\ storage[q] # None => owner[storage[q]] = q /\ storage[q] \in Runner
  BY OwnContext, ChainAssumption DEF WorksFor
<1>1. WrittenInOwn(q)'
  BY DEF AnswerInv, WrittenInOwn, Working, StoreUntouched, HandlerUntouched
<1>2. ASSUME "begin" \notin Faults
      PROVE  HeldByOwn(q)'
  <2>1. /\ storage'[q] = storage[q] /\ pc'[q] = pc[q] /\ qr'[q] = qr[q]
        /\ step'[q] = step[q]
        /\ \A r \in Runner : owner'[r] = q => owner[r] = q
        /\ \A r \in Runner : owner[r] = q => phase'[r] = phase[r]
    BY DEF StoreUntouched, HandlerUntouched
  <2>2. pc[q] = "deleting" => phase'[qr[q]] = phase[qr[q]]
    BY <1>0 DEF HInv, IInv, EndersOver, TypeOK, StoreUntouched
  <2>3. HeldByOwn(q)
    BY <1>2 DEF AnswerInv
  <2> QED
    BY <2>1, <2>2, <2>3 DEF HeldByOwn, Held, Free
<1> QED
  BY <1>1, <1>2

\* A step of the handler, or of a side chain, that leaves the store alone.
LEMMA StillAnswer ==
  ASSUME HInv, NEW q \in Ctx, AnswerInv(q), Undisturbed(q), UNCHANGED vars, own'[q] = own[q],
         \/ step'[q] = step[q]
         \/ Working(q) /\ step'[q] \in {"executing", "joining"}
         \/ Finish(q) \/ AfterRollback(q) \/ RollbackThrew(q)
  PROVE  WrittenInOwn(q)' /\ ("begin" \notin Faults => HeldByOwn(q)')
<1>1. WrittenInOwn(q)'
  BY DEF AnswerInv, WrittenInOwn, Working, Finish, AfterRollback, RollbackThrew, Goto, Finished, HInv,
         HandlerTypeOK, SideTypeOK, vars
<1>2. ASSUME "begin" \notin Faults
      PROVE  HeldByOwn(q)'
  BY <1>2
  DEF AnswerInv, HeldByOwn, Held, Free, Finish, AfterRollback, RollbackThrew, Goto, Finished, vars, HInv,
      HandlerTypeOK, SideTypeOK
<1> QED
  BY <1>1, <1>2

\* A service of the handler finds the transaction or opens it.
LEMMA UseAnswer ==
  ASSUME HInv, UsedRunners, NEW q \in Ctx, AnswerInv(q), Undisturbed(q), UseTransaction(q)
  PROVE  WrittenInOwn(q)' /\ ("begin" \notin Faults => HeldByOwn(q)')
<1>0. /\ step[q] = "executing" /\ pc[q] = "idle" /\ UNCHANGED handlerVars /\ q \in Task
      /\ own[q] # {} => qr[q] # None /\ storage[q] = qr[q]
  BY ChainAssumption
  DEF UseTransaction, HInv, RequestInv, OwnRunner, Working, Free
<1>1. CASE GetHit(q, q)
  BY <1>0, <1>1
  DEF GetHit, AnswerInv, WrittenInOwn, Working, HeldByOwn, Held, Finished, Free,
      handlerVars, HInv, HandlerTypeOK, SideTypeOK, TypeOK
<1>2. CASE GetMiss(q, q)
  BY <1>0, <1>2
  DEF GetMiss, AnswerInv, UsedRunners, WrittenInOwn, Working, HeldByOwn, Held, Finished,
      Free, Over, handlerVars, HInv, IInv, UnusedFresh, HandlerTypeOK, SideTypeOK, TypeOK
<1> QED
  BY <1>1, <1>2 DEF UseTransaction, Get

\* A service of the handler runs a statement.
LEMMA StatementAnswer ==
  ASSUME HInv, NEW q \in Ctx, AnswerInv(q), Undisturbed(q), RunStatement(q)
  PROVE  WrittenInOwn(q)' /\ ("begin" \notin Faults => HeldByOwn(q)')
<1>0. /\ step[q] = "executing" /\ pc[q] = "idle" /\ q \in Task
      /\ qr[q] \in Runner /\ dbtx[qr[q]] = "open"
  BY ChainAssumption
  DEF RunStatement, Write, HInv, RequestInv, HandlerTypeOK, SideTypeOK, TypeOK, OwnRunner,
      OpenWhileWorking, Working, Free
<1>1. WrittenInOwn(q)'
  BY <1>0
  DEF RunStatement, Write, AnswerInv, WrittenInOwn, Working, HInv, HandlerTypeOK, SideTypeOK, TypeOK
<1>2. ASSUME "begin" \notin Faults
      PROVE  HeldByOwn(q)'
  BY <1>0, <1>2
  DEF RunStatement, Write, AnswerInv, HeldByOwn, Held, Finished, HInv,
      HandlerTypeOK, SideTypeOK, TypeOK
<1> QED
  BY <1>1, <1>2

\* The handler calls commitTransaction or rollbackTransaction.
LEMMA EndAnswer ==
  ASSUME HInv, NEW q \in Ctx, AnswerInv(q), Undisturbed(q),
         Reply(q) \/ Throw(q) \/ CommitThrew(q)
  PROVE  WrittenInOwn(q)' /\ ("begin" \notin Faults => HeldByOwn(q)')
<1>1. PICK fate \in Over : End(q, q, fate)
  BY DEF Reply, Throw, CommitThrew, Over
<1>0. /\ q \in Task /\ Free(q) /\ UNCHANGED <<owner, wrote, phase, own>>
      /\ \/ step[q] \in {"executing", "joining"}
         \/ step[q] = "committing" /\ pc[q] = "threw"
      /\ step'[q] \in {"committing", "rollingback"}
  BY <1>1, ChainAssumption
  DEF Reply, Throw, CommitThrew, Goto, HInv, HandlerTypeOK, SideTypeOK,
      End, EndCall, EndCallRefused, EndNotStarted, EndReleased, EndMiss
<1>2. WrittenInOwn(q)'
  <2>1. own[q] # {} => qr'[q] = qr[q]
    BY <1>0, <1>1, HandlerEnds
  <2> QED
    BY <1>0, <2>1 DEF AnswerInv, WrittenInOwn, Working
<1>3. ASSUME "begin" \notin Faults
      PROVE  HeldByOwn(q)'
  <2>1. \A r \in Held : owner[r] = q => storage[q] = r
    BY <1>0, <1>3 DEF AnswerInv, HeldByOwn, Free
  <2>2. /\ pc'[q] \in {"ending", "refused", "threw", "idle"}
        /\ pc'[q] \in {"ending", "refused"} => storage'[q] = qr'[q]
        /\ pc'[q] = "idle" => storage'[q] = None
        /\ \/ storage'[q] = storage[q]
           \/ storage'[q] = None /\ (storage[q] # None => phase[storage[q]] = "released")
    BY <1>0, <1>1
    DEF HInv, HandlerTypeOK, SideTypeOK, TypeOK,
        End, EndCall, EndCallRefused, EndNotStarted, EndReleased, EndMiss
  <2> QED
    BY <1>0, <2>1, <2>2, RunnerAssumption DEF HeldByOwn, Held, Finished
<1> QED
  BY <1>2, <1>3

\* The database or the pool answers the handler.
LEMMA AnsweredAnswer ==
  ASSUME HInv, NEW q \in Ctx, AnswerInv(q), Undisturbed(q),
         AnswerChain(q) \/ RefuseChain(q)
  PROVE  WrittenInOwn(q)' /\ ("begin" \notin Faults => HeldByOwn(q)')
<1>0. /\ q \in Task /\ ~Free(q) /\ UNCHANGED handlerVars
      /\ Opening(q) => step[q] = "executing" /\ storage[q] = None /\ own[q] = {}
                       /\ qr[q] \in Runner /\ ctx[q] = q
      /\ ~Opening(q) => ~Working(q)
      /\ pc[q] \in {"ending", "releasing", "deleting"} => qr[q] \in Runner /\ ctx[q] = q
  <2>1. q \in Task /\ ~Free(q) /\ UNCHANGED handlerVars
    BY ChainAssumption
    DEF AnswerChain, RefuseChain, Answer, Connect, Begin, EndAnswered, EndThrows, Release,
        Delete, OpenFails, Free
  <2>2. /\ Opening(q) => step[q] = "executing" /\ storage[q] = None
        /\ own[q] # {} => ~Working(q)
        /\ ~Opening(q) => ~Working(q)
    BY <2>1 DEF HInv, RequestInv, OwnRunner, Opening, Free, Working
  <2>3. /\ Opening(q) => qr[q] # None
        /\ pc[q] \in {"ending", "releasing", "deleting"} => qr[q] # None
        /\ qr[q] # None => ctx[q] # None
    BY <2>1 DEF HInv, IInv, OpenersAlone, HandedShape, EndersOver
  <2>4. WorksFor(q) = q
    BY DEF WorksFor
  <2> QED
    BY <2>1, <2>2, <2>3, <2>4, OwnContext DEF Working
<1>1. CASE Connect(q)
  BY <1>0, <1>1, RunnerAssumption
  DEF Connect, AnswerInv, WrittenInOwn, Working, HeldByOwn, Held, Finished, Free, Opening,
      handlerVars, HInv, HandlerTypeOK, SideTypeOK, TypeOK
<1>2. CASE Begin(q)
  BY <1>0, <1>2, RunnerAssumption
  DEF Begin, AnswerInv, WrittenInOwn, Working, HeldByOwn, Held, Finished, Free, Opening,
      Over, handlerVars, HInv, HandlerTypeOK, SideTypeOK, TypeOK, RequestInv, CallsOwn
<1>3. CASE OpenFails(q)
  BY <1>0, <1>3, RunnerAssumption
  DEF OpenFails, AnswerInv, WrittenInOwn, Working, HeldByOwn, Held, Finished, Free, Opening,
      handlerVars, HInv, HandlerTypeOK, SideTypeOK, TypeOK
<1>4. CASE EndAnswered(q) \/ EndThrows(q)
  BY <1>0, <1>4
  DEF EndAnswered, EndThrows, AnswerInv, WrittenInOwn, Working, HeldByOwn, Held, Finished, Free,
      Opening, handlerVars, HInv, HandlerTypeOK, SideTypeOK, TypeOK
<1>5. CASE Release(q)
  BY <1>0, <1>5
  DEF Release, AnswerInv, WrittenInOwn, Working, HeldByOwn, Held, Finished, Free, Opening,
      handlerVars, HInv, HandlerTypeOK, SideTypeOK, TypeOK
<1>6. CASE Delete(q)
  BY <1>0, <1>6
  DEF Delete, AnswerInv, WrittenInOwn, Working, HeldByOwn, Held, Finished, Free, Opening,
      handlerVars, HInv, HandlerTypeOK, SideTypeOK, TypeOK
<1> QED
  BY <1>1, <1>2, <1>3, <1>4, <1>5, <1>6 DEF AnswerChain, RefuseChain, Answer

\* A child of the request works in its handler's transaction.
LEMMA ChildAnswer ==
  ASSUME HInv, NEW q \in Ctx, AnswerInv(q), Undisturbed(q), NEW s \in SidesOf(q),
         SideWorks(s)
  PROVE  WrittenInOwn(q)' /\ ("begin" \notin Faults => HeldByOwn(q)')
<1>0. /\ s \in Task /\ s # q /\ q \in Task /\ ContextOf[s] = q
      /\ UNCHANGED handlerVars
      /\ own[q] # {} /\ Free(q) /\ qr[q] # None /\ storage[q] = qr[q]
      /\ dbtx[qr[q]] = "open" /\ qr[s] \in {None, qr[q]} /\ qr[q] \in Runner
  BY SidesApart, ChainAssumption, UndisturbedSides
  DEF SideWorks, ChainWorks, handlerVars, SidesOf, HInv, HandlerTypeOK, TypeOK
<1>1. CASE GetHit(s, q) \/ WriteThrows(s)
  BY <1>0, <1>1
  DEF GetHit, WriteThrows, AnswerInv, WrittenInOwn, Working, HeldByOwn, Held, Finished, Free,
      handlerVars, HInv, HandlerTypeOK, SideTypeOK, TypeOK
<1>2. CASE Write(s)
  BY <1>0, <1>2
  DEF Write, AnswerInv, WrittenInOwn, Working, HeldByOwn, Held, Finished, Free,
      handlerVars, HInv, HandlerTypeOK, SideTypeOK, TypeOK
<1> QED
  BY <1>0, <1>1, <1>2 DEF SideWorks, ChainWorks, Get, GetMiss

\* Statements run on a runner that is, and stays, connected or released.
LEMMA UsedRunnersStep ==
  ASSUME IInv, UsedRunners, [Next]_vars
  PROVE  UsedRunners'
<1> USE DEF UsedRunners, IInv, TypeOK
<1>1. ASSUME NEW t \in Task, NEW c \in Ctx, Get(t, c) \/ \E fate \in Over : End(t, c, fate)
      PROVE  UsedRunners'
  BY <1>1, CtxAssumption
  DEF Get, GetHit, GetMiss, End, EndCall, EndCallRefused, EndNotStarted, EndReleased, EndMiss
<1>2. ASSUME NEW t \in Task, Write(t) \/ WriteThrows(t)
      PROVE  UsedRunners'
  BY <1>2 DEF Write, WriteThrows
<1>3. ASSUME NEW t \in Task, Answer(t) \/ OpenFails(t)
      PROVE  UsedRunners'
  BY <1>3
  DEF Answer, Connect, Begin, EndAnswered, EndThrows, Release, Delete, OpenFails,
      OpenersAlone, Opening, HandedShape, EndersOver
<1>4. CASE UNCHANGED vars
  BY <1>4 DEF vars
<1> QED
  BY <1>1, <1>2, <1>3, <1>4 DEF Next

\* Every step keeps every request's answer true.
LEMMA AnswerStep ==
  ASSUME AInv, [HandlerNext]_allVars, NEW q \in Ctx
  PROVE  AnswerInv(q)'
<1> SUFFICES ASSUME Undisturbed(q)'
             PROVE  WrittenInOwn(q)' /\ ("begin" \notin Faults => HeldByOwn(q)')
  BY DEF AnswerInv
<1> HInv /\ UsedRunners /\ AnswerInv(q) /\ Undisturbed(q)
  BY UndisturbedBefore DEF AInv
<1>1. CASE \/ \E p \in Ctx \ {q} : HandlerStep(p)
           \/ \E s \in Side \ SidesOf(q) : SideStep(s)
           \/ \E t \in Task \ (SidesOf(q) \cup {q}) : AnswerChain(t) \/ RefuseChain(t)
  BY <1>1, StepFrame, FrameAnswer
<1>2. CASE HandlerStep(q)
  <2>1. CASE Start(q) \/ InsertChildren(q) \/ Join(q)
    BY <2>1, StillAnswer DEF Start, InsertChildren, StartChains, Join, Working, Goto, HInv, HandlerTypeOK, SideTypeOK
  <2>2. CASE Finish(q) \/ AfterRollback(q) \/ RollbackThrew(q)
    BY <2>2, StillAnswer DEF Finish, AfterRollback, RollbackThrew
  <2>3. CASE \E s \in Event : TriggerEvent(q, s)
    BY <2>3, StillAnswer DEF TriggerEvent, StartChains
  <2>4. CASE UseTransaction(q) \/ RunStatement(q)
    BY <2>4, UseAnswer, StatementAnswer
  <2>5. CASE Reply(q) \/ Throw(q) \/ CommitThrew(q)
    BY <2>5, EndAnswer
  <2> QED
    BY <1>2, <2>1, <2>2, <2>3, <2>4, <2>5 DEF HandlerStep
<1>3. ASSUME NEW s \in SidesOf(q), SideStep(s)
      PROVE  WrittenInOwn(q)' /\ ("begin" \notin Faults => HeldByOwn(q)')
  <2>1. CASE SideWorks(s)
    BY <2>1, ChildAnswer
  <2>2. CASE SideReturns(s) \/ SideFails(s)
    BY <2>2, StillAnswer DEF SideReturns, ChainReturns, SideFails, ChainFails
  <2>3. ~EventEnds(s)
    BY UndisturbedSides DEF EventEnds, ChainEnds
  <2> QED
    BY <1>3, <2>1, <2>2, <2>3 DEF SideStep
<1>4. ASSUME NEW s \in SidesOf(q)
      PROVE  ~AnswerChain(s) /\ ~RefuseChain(s)
  BY UndisturbedSides
  DEF AnswerChain, RefuseChain, Answer, Connect, Begin, EndAnswered, EndThrows, Release,
      Delete, OpenFails, Free
<1>5. CASE AnswerChain(q) \/ RefuseChain(q)
  BY <1>5, AnsweredAnswer
<1>6. CASE Quiet \/ UNCHANGED allVars
  BY <1>6, StillAnswer DEF Quiet, allVars, handlerVars
<1> QED
  BY <1>1, <1>2, <1>3, <1>4, <1>5, <1>6 DEF HandlerNext

\* The client is told at the end, whatever disturbs the request.
LEMMA ToldStep ==
  ASSUME AInv, [HandlerNext]_allVars, NEW q \in Ctx
  PROVE  ToldAtEnd(q)'
<1> USE DEF ToldAtEnd, AInv, HInv, HandlerTypeOK, SideTypeOK
<1>1. ASSUME NEW p \in Ctx, HandlerStep(p)
      PROVE  ToldAtEnd(q)'
  <2>1. CASE \/ Start(p) \/ UseTransaction(p) \/ RunStatement(p) \/ InsertChildren(p)
             \/ Join(p) \/ \E s \in Event : TriggerEvent(p, s)
    BY <2>1
    DEF Start, UseTransaction, RunStatement, InsertChildren, Join, TriggerEvent, Goto,
        handlerVars
  <2>2. CASE Reply(p) \/ Throw(p) \/ CommitThrew(p)
    BY <2>2 DEF Reply, Throw, CommitThrew, Goto
  <2>3. CASE Finish(p) \/ AfterRollback(p) \/ RollbackThrew(p)
    BY <2>3 DEF Finish, AfterRollback, RollbackThrew, Goto
  <2> QED
    BY <1>1, <2>1, <2>2, <2>3 DEF HandlerStep
<1>2. ASSUME NEW s \in Side, SideStep(s)
      PROVE  ToldAtEnd(q)'
  BY <1>2 DEF SideStep, SideWorks, EventEnds, SideReturns, SideFails
<1> QED
  BY <1>1, <1>2 DEF HandlerNext, AnswerChain, RefuseChain, Quiet, allVars, handlerVars

\* AInv holds in every state of every behaviour of the handler.
LEMMA AnswerInvariance == HandlerSpec => []AInv
<1>1. HandlerInit => AInv
  <2> SUFFICES ASSUME HandlerInit
               PROVE  AInv
    OBVIOUS
  <2>1. HInv
    BY HandlerInitInv
  <2>2. UsedRunners
    BY DEF HandlerInit, Init, UsedRunners
  <2>3. ASSUME NEW q \in Ctx
        PROVE  AnswerInv(q) /\ ToldAtEnd(q)
    BY DEF HandlerInit, Init, ToldAtEnd, AnswerInv, WrittenInOwn, HeldByOwn, Held, Finished, Over
  <2> QED
    BY <2>1, <2>2, <2>3 DEF AInv
<1>2. AInv /\ HInv' /\ [HandlerNext]_allVars => AInv'
  <2> SUFFICES ASSUME AInv, HInv', [HandlerNext]_allVars
               PROVE  AInv'
    OBVIOUS
  <2>1. UsedRunners'
    BY StepIsStoreStep, UsedRunnersStep DEF AInv, HInv
  <2>2. \A q \in Ctx : AnswerInv(q)' /\ ToldAtEnd(q)'
    BY AnswerStep, ToldStep
  <2> QED
    BY <2>1, <2>2 DEF AInv
<1> QED
  BY HandlerInvariance, <1>1, <1>2, PTL DEF HandlerSpec

\* Whatever the other requests do, the client of a request that started no
\* hook and whose children did not fail is told the truth: all the statements
\* made for it, its children's too, are kept when it got the empty answer,
\* none of them when it got an error, and all of them when it got a body,
\* unless the COMMIT behind that was refused (Misled).
THEOREM UndisturbedAnsweredTruly ==
  HandlerSpec => [](\A q \in Ctx : Undisturbed(q) => AnswersTruly(q))
<1>1. ASSUME AInv, NEW q \in Ctx, Undisturbed(q)
      PROVE  AnswersTruly(q)
  BY <1>1
  DEF AInv, HInv, RequestInv, AnswerInv, ToldAtEnd, WrittenInOwn, Fates, AnswersTruly,
      Misled, Finished
<1>2. AInv => \A q \in Ctx : Undisturbed(q) => AnswersTruly(q)
  BY <1>1
<1> QED
  BY AnswerInvariance, <1>2, PTL

\* So AnswerIsTrue lasts, for any number of requests, until a hook is started
\* or a child fails.
THEOREM AnswerIsTrueUntilDisturbed ==
  HandlerSpec => []((\A q \in Ctx : Undisturbed(q)) => AnswerIsTrue)
<1>1. (\A q \in Ctx : Undisturbed(q) => AnswersTruly(q))
        => ((\A q \in Ctx : Undisturbed(q)) => AnswerIsTrue)
  BY DEF AnswerIsTrue
<1> QED
  BY UndisturbedAnsweredTruly, <1>1, PTL

\* And as long as START TRANSACTION is not refused, the requests answered so
\* far hold no connection of the pool, also when a COMMIT was refused.
THEOREM NothingHeldUntilDisturbed ==
  ASSUME "begin" \notin Faults
  PROVE  HandlerSpec => []((\A q \in Ctx : Undisturbed(q)) => NothingHeldAfterAnswer)
<1>1. ASSUME AInv, \A q \in Ctx : Undisturbed(q)
      PROVE  NothingHeldAfterAnswer
  <2> SUFFICES ASSUME NEW r \in Held, step[owner[r]] \in {"ended", "errored"}
               PROVE  FALSE
    BY DEF NothingHeldAfterAnswer
  <2>1. r \in Runner /\ owner[r] \in Ctx
    BY <1>1 DEF Held, AInv, UsedRunners, HInv, HandlerTypeOK, SideTypeOK, TypeOK
  <2>2. HeldByOwn(owner[r])
    BY <1>1, <2>1 DEF AInv, AnswerInv
  <2> QED
    BY <2>1, <2>2, RunnerAssumption DEF HeldByOwn, Free, Finished
<1>2. AInv => ((\A q \in Ctx : Undisturbed(q)) => NothingHeldAfterAnswer)
  BY <1>1
<1> QED
  BY AnswerInvariance, <1>2, PTL

----------------------------------------------------------------------------
(* Undisturbed requests take turns.  RequestHandler does not assume it of  *)
(* the callers (there Disciplined is FALSE), but until a hook is started   *)
(* or a child fails every step is one of the store with disciplined        *)
(* callers, so that what is proved of those holds of the requests.         *)

Turns == INSTANCE TransactionProofs WITH Disciplined <- TRUE

\* All the calls an undisturbed request is in the middle of are its
\* handler's; while it works, none of its transactions is over.
LEMMA CallsInTurn ==
  ASSUME AInv, NEW q \in Ctx, Undisturbed(q)
  PROVE  /\ Free(q) => Turns!MayCall(q)
         /\ Working(q) => Turns!MayUse(q)
<1>1. ASSUME Free(q), NEW u \in Task, ctx[u] = q
      PROVE  Free(u)
  <2>1. u = q \/ u \in SidesOf(q)
    BY <1>1, OwnContext, ChainAssumption, CtxAssumption DEF AInv, WorksFor, SidesOf
  <2> QED
    BY <1>1, <2>1, UndisturbedSides DEF AInv
<1>2. Working(q) => \A r \in Runner : owner[r] = q => dbtx[r] \notin Over
  BY DEF AInv, AnswerInv, WrittenInOwn
<1> QED
  BY <1>1, <1>2 DEF Turns!MayCall, Turns!MayUse, Turns!Free, Turns!Over, Free, Over

\* Until a request is disturbed, every step is one of disciplined callers.
LEMMA TurnsStep ==
  ASSUME AInv, \A q \in Ctx : Undisturbed(q), [HandlerNext]_allVars
  PROVE  [Turns!Next]_(Turns!vars)
<1> USE DEF vars, Turns!vars
<1>1. ASSUME NEW t \in Task, NEW c \in Ctx, Free(c), Working(c), Get(t, c)
      PROVE  Turns!Next
  <2>1. Turns!MayCall(c) /\ Turns!MayUse(c)
    BY <1>1, CallsInTurn
  <2>2. Turns!Get(t, c)
    BY <1>1, <2>1
    DEF Get, GetHit, GetMiss, Free, Turns!Get, Turns!GetHit, Turns!GetMiss, Turns!Free,
         NewRunner, Turns!NewRunner
  <2> QED
    BY <2>2 DEF Turns!Next
<1>2. ASSUME NEW t \in Task, Working(WorksFor(t)), Write(t) \/ WriteThrows(t)
      PROVE  Turns!Next
  <2>1. ctx[t] = WorksFor(t) /\ WorksFor(t) \in Ctx
    BY <1>2, OwnContext
    DEF AInv, HInv, IInv, OpenersAlone, HandedShape, Write, WriteThrows
  <2>2. Turns!MayUse(ctx[t])
    BY <1>2, <2>1, CallsInTurn
  <2>3. Turns!Write(t) \/ Turns!WriteThrows(t)
    BY <1>2, <2>2
    DEF Write, WriteThrows, Free, Turns!Write, Turns!WriteThrows, Turns!Free
  <2> QED
    BY <2>3 DEF Turns!Next
<1>3. ASSUME NEW q \in Ctx, NEW fate \in Over, End(q, q, fate)
      PROVE  Turns!Next
  <2>1. Turns!MayCall(q)
    BY <1>3, CallsInTurn
    DEF End, EndCall, EndCallRefused, EndNotStarted, EndReleased, EndMiss
  <2>2. Turns!End(q, q, fate) /\ fate \in Turns!Over /\ q \in Task
    BY <1>3, <2>1, ChainAssumption
    DEF End, EndCall, EndCallRefused, EndNotStarted, EndReleased, EndMiss, Free, Over,
        Turns!End, Turns!EndCall, Turns!EndCallRefused, Turns!EndNotStarted,
        Turns!EndReleased, Turns!EndMiss, Turns!Free, Turns!Over
  <2> QED
    BY <2>2 DEF Turns!Next
<1>4. ASSUME NEW q \in Ctx, HandlerStep(q)
      PROVE  [Turns!Next]_(Turns!vars)
  <2>1. CASE \/ Start(q) \/ InsertChildren(q) \/ Join(q) \/ Finish(q) \/ AfterRollback(q) \/ RollbackThrew(q)
             \/ \E s \in Event : TriggerEvent(q, s)
    BY <2>1 DEF Start, InsertChildren, StartChains, Join, Finish, AfterRollback, RollbackThrew, TriggerEvent, StartChains
  <2>2. CASE UseTransaction(q) \/ RunStatement(q)
    <3>1. q \in Task /\ WorksFor(q) = q /\ Working(q) /\ Free(q)
      BY <2>2, ChainAssumption DEF UseTransaction, RunStatement, WorksFor, Working, Free
    <3> QED
      BY <1>1, <1>2, <2>2, <3>1 DEF UseTransaction, RunStatement
  <2>3. CASE Reply(q) \/ Throw(q) \/ CommitThrew(q)
    BY <1>3, <2>3 DEF Reply, Throw, CommitThrew, Over
  <2> QED
    BY <1>4, <2>1, <2>2, <2>3 DEF HandlerStep
<1>5. ASSUME NEW s \in Side, SideStep(s)
      PROVE  [Turns!Next]_(Turns!vars)
  <2>1. CASE SideReturns(s) \/ SideFails(s)
    BY <2>1 DEF SideReturns, ChainReturns, SideFails, ChainFails
  <2>2. CASE SideWorks(s) \/ EventEnds(s)
    <3>1. /\ s \in Task /\ WorksFor(s) = ContextOf[s] /\ ContextOf[s] \in Ctx
          /\ s \in SidesOf(ContextOf[s]) /\ side[s] = "running"
      BY <2>2, ChainAssumption DEF SideWorks, ChainWorks, EventEnds, ChainEnds, WorksFor, SidesOf
    <3>2. s \notin Event /\ Free(ContextOf[s]) /\ Working(ContextOf[s])
      BY <3>1, UndisturbedSides DEF AInv, Working
    <3> QED
      BY <1>1, <1>2, <2>2, <3>1, <3>2 DEF SideWorks, ChainWorks, EventEnds, ChainEnds
  <2> QED
    BY <1>5, <2>1, <2>2 DEF SideStep
<1>6. ASSUME NEW t \in Task, AnswerChain(t) \/ RefuseChain(t)
      PROVE  Turns!Next
  <2>1. Turns!Cardinality(Held) = Cardinality(Held)
    BY Zenon DEF Cardinality, Turns!Cardinality
  <2>2. Turns!Answer(t) \/ Turns!OpenFails(t)
    BY <1>6, <2>1
    DEF AnswerChain, RefuseChain, Answer, Connect, Begin, EndAnswered, EndThrows, Release,
        Delete, OpenFails, Held, Turns!Answer, Turns!Connect, Turns!Begin,
        Turns!EndAnswered, Turns!EndThrows, Turns!Release, Turns!Delete, Turns!OpenFails,
        Turns!Held
  <2> QED
    BY <2>2 DEF Turns!Next
<1>7. CASE Quiet \/ UNCHANGED allVars
  BY <1>7 DEF Quiet, allVars
<1> QED
  BY <1>4, <1>5, <1>6, <1>7 DEF HandlerNext

\* Requests that nothing disturbs are callers that take turns.
THEOREM UndisturbedTakeTurns ==
  HandlerSpec /\ [](\A q \in Ctx : Undisturbed(q)) => Turns!Spec
<1>1. HandlerInit => Turns!Init
  BY DEF HandlerInit, Init, Turns!Init
<1>2. AInv /\ (\A q \in Ctx : Undisturbed(q)) /\ [HandlerNext]_allVars
        => [Turns!Next]_(Turns!vars)
  BY TurnsStep
<1> QED
  BY AnswerInvariance, <1>1, <1>2, PTL DEF HandlerSpec, Turns!Spec

\* So a request has one database transaction, however many services and
\* children ask for it.
THEOREM UndisturbedSingleTransaction ==
  HandlerSpec /\ [](\A q \in Ctx : Undisturbed(q)) => []SingleTransaction
<1>1. Turns!SingleTransaction => SingleTransaction
  BY DEF SingleTransaction, Turns!SingleTransaction
<1>2. Turns!Spec => []Turns!SingleTransaction
  BY Turns!SingleTransactionHolds, RunnerAssumption, CtxAssumption, PoolAssumption,
     FaultsAssumption
<1> QED
  BY UndisturbedTakeTurns, <1>1, <1>2, PTL

\* Its entry stays until the connection has been given back.
THEOREM UndisturbedForgetOnlyReleased ==
  HandlerSpec /\ [](\A q \in Ctx : Undisturbed(q)) => ForgetOnlyReleased
<1>1. Turns!Spec => Turns!ForgetOnlyReleased
  BY Turns!ForgetOnlyReleasedHolds, RunnerAssumption, CtxAssumption, PoolAssumption,
     FaultsAssumption
<1>2. Turns!ForgetOnlyReleased => ForgetOnlyReleased
  BY DEF ForgetOnlyReleased, Turns!ForgetOnlyReleased, vars, Turns!vars
<1> QED
  BY UndisturbedTakeTurns, <1>1, <1>2, PTL

\* Unless START TRANSACTION is refused, every connection it took can still be
\* given back, in particular after a COMMIT that threw.
THEOREM UndisturbedNoLostConnection ==
  ASSUME "begin" \notin Faults
  PROVE  HandlerSpec /\ [](\A q \in Ctx : Undisturbed(q)) => []NoLostConnection
<1>1. Turns!Spec => []Turns!NoLostConnection
  BY Turns!NoLostConnectionHolds, RunnerAssumption, CtxAssumption, PoolAssumption,
     FaultsAssumption
<1>2. Turns!NoLostConnection => NoLostConnection
  BY DEF NoLostConnection, Held, Free, Turns!NoLostConnection, Turns!Held, Turns!Free
<1> QED
  BY UndisturbedTakeTurns, <1>1, <1>2, PTL

\* And the services of the request see what a transaction context promises:
\* one transaction, whose work is kept exactly when it is committed.
THEOREM UndisturbedImplementsContract ==
  HandlerSpec /\ [](\A q \in Ctx : Undisturbed(q)) => ImplementsContract
<1>1. Turns!Spec => Turns!ImplementsContract
  BY Turns!ImplementsContractHolds, RunnerAssumption, CtxAssumption, PoolAssumption,
     FaultsAssumption
<1>2. /\ \A c \in Ctx : Turns!FateOf(c) = FateOf(c)
      /\ \A c \in Ctx : Turns!DirtyIn(c) = DirtyIn(c)
      /\ \A c \in Ctx : Turns!KeptIn(c) = KeptIn(c)
  BY DEF FateOf, DirtyIn, KeptIn, Begun, Turns!FateOf, Turns!DirtyIn, Turns!KeptIn,
         Turns!Begun
<1>3. Turns!Contract!Init => Contract!Init
  BY <1>2 DEF Contract!Init, Turns!Contract!Init
<1>4. [Turns!Contract!Next]_(Turns!Contract!contractVars)
        => [Contract!Next]_(Contract!contractVars)
  BY DEF Contract!Next, Contract!contractVars, Contract!Open, Contract!Work,
         Contract!Finish, Turns!Contract!Next, Turns!Contract!contractVars,
         Turns!Contract!Open, Turns!Contract!Work, Turns!Contract!Finish,
         FateOf, DirtyIn, KeptIn, Begun, Turns!FateOf, Turns!DirtyIn, Turns!KeptIn,
         Turns!Begun
<1> QED
  BY UndisturbedTakeTurns, <1>1, <1>3, <1>4, PTL
  DEF ImplementsContract, Turns!ImplementsContract, Contract!Spec, Turns!Contract!Spec
=============================================================================
