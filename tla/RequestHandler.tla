--------------------------- MODULE RequestHandler ---------------------------
(***************************************************************************)
(* The request handler of src/middlewares/request.ts on the transaction    *)
(* store.  Every request has a transaction context of its own, so a        *)
(* request, its context and the call chain of its handler share one name   *)
(* (Ctx).  The services it calls may start side chains on that context;    *)
(* those of one deep insert are awaited together.  Nothing here assumes    *)
(* Disciplined: whether the handler takes turns is what the properties     *)
(* ask.                                                                    *)
(***************************************************************************)
EXTENDS SideChains

VARIABLES
  step,    \* where the handler of each request is
  told,    \* what the client of each request was sent
  own      \* where the handler's own statements ran, as in wrote

handlerVars == <<step, told, own, side>>
allVars == <<vars, handlerVars>>

\* "errored": next(err) was called; "hung": the handler's promise rejected,
\* next() was never called.
Finished == {"ended", "errored", "hung"}

HandlerTypeOK ==
  /\ TypeOK /\ SideTypeOK
  /\ step \in [Ctx -> {"new", "executing", "joining", "committing",
                       "rollingback"} \cup Finished]
  /\ told \in [Ctx -> {"nothing", "result", "empty", "error"}]
  /\ own \in [Ctx -> SUBSET {"inside", "outside"}]

HandlerInit ==
  /\ Init /\ SideInit
  /\ step = [q \in Ctx |-> "new"]
  /\ told = [q \in Ctx |-> "nothing"]
  /\ own = [q \in Ctx |-> {}]

Goto(q, where) == step' = [step EXCEPT ![q] = where]

----------------------------------------------------------------------------
\* The handler and the services it awaits

\* createTransactionContext and createProcessor.
Start(q) ==
  /\ step[q] = "new"
  /\ Goto(q, "executing")
  /\ UNCHANGED <<vars, told, own, side>>

\* A service asks for the request's query runner.
UseTransaction(q) ==
  /\ step[q] = "executing" /\ pc[q] = "idle"
  /\ Get(q, q)
  /\ UNCHANGED handlerVars

\* Mutant: the service commits what it wrote.
RunStatementCommits(q) ==
  /\ step[q] = "executing" /\ pc[q] = "idle"
  /\ \E fate \in {"committed"} : End(q, q, fate)
  /\ UNCHANGED handlerVars

\* A service runs a statement.
RunStatement(q) ==
  /\ step[q] = "executing" /\ pc[q] = "idle"
  /\ Write(q)
  /\ own' = [own EXCEPT ![q] =
               @ \cup {IF dbtx[qr[q]] = "open" THEN "inside" ELSE "outside"}]
  /\ UNCHANGED <<step, told, side>>

\* _deepInsert: the parent row is in, all children start together.
InsertChildren(q) ==
  /\ step[q] = "executing" /\ pc[q] = "idle" /\ own[q] # {}
  /\ ChildrenOf(q) # {} /\ \A s \in ChildrenOf(q) : side[s] = "unborn"
  /\ StartChains(ChildrenOf(q))
  /\ Goto(q, "joining")
  /\ UNCHANGED <<vars, told, own>>

\* Mutant: the first child is enough.
JoinFirst(q) ==
  /\ step[q] = "joining"
  /\ \E s \in ChildrenOf(q) : side[s] = "done"
  /\ Goto(q, "executing")
  /\ UNCHANGED <<vars, told, own, side>>

\* Promise.all resolves when the last child has.
Join(q) ==
  /\ step[q] = "joining"
  /\ \A s \in ChildrenOf(q) : side[s] = "done"
  /\ Goto(q, "executing")
  /\ UNCHANGED <<vars, told, own, side>>

\* executeHooks after a statement: the event's execute() is called, its
\* promise only gets a catch.
TriggerEvent(q, s) ==
  /\ step[q] = "executing" /\ pc[q] = "idle" /\ own[q] # {}
  /\ s \in Event /\ ContextOf[s] = q /\ side[s] = "unborn"
  /\ StartChains({s})
  /\ UNCHANGED <<vars, step, told, own>>

\* Mutant: an empty result is answered before commitTransaction as well.
ReplyEnds(q) ==
  /\ step[q] = "executing" /\ pc[q] = "idle"
  /\ \E sent \in {"result", "empty"} : told' = [told EXCEPT ![q] = sent]
  /\ End(q, q, "committed")
  /\ Goto(q, "committing")
  /\ UNCHANGED <<own, side>>

\* execute() resolves.  A body is sent at once (res.json, res.send), then
\* commitTransaction is called; an empty result (PATCH, DELETE) is answered
\* only by the res.end behind it.
Reply(q) ==
  /\ step[q] = "executing" /\ pc[q] = "idle"
  /\ \E sent \in {"result", "nothing"} : told' = [told EXCEPT ![q] = sent]
  /\ End(q, q, "committed")
  /\ Goto(q, "committing")
  /\ UNCHANGED <<own, side>>

\* Mutant: the catch block commits.
ThrowCommits(q) ==
  /\ \/ step[q] = "executing"
     \/ step[q] = "joining" /\ \E s \in ChildrenOf(q) : side[s] = "failed"
  /\ End(q, q, "committed")
  /\ Goto(q, "rollingback")
  /\ UNCHANGED <<told, own, side>>

\* execute() rejects: a service threw, or Promise.all rejected with the
\* first child that failed, whatever the other children are doing.
Throw(q) ==
  /\ \/ step[q] = "executing"
     \/ step[q] = "joining" /\ \E s \in ChildrenOf(q) : side[s] = "failed"
  /\ End(q, q, "rolledback")
  /\ Goto(q, "rollingback")
  /\ UNCHANGED <<told, own, side>>

\* commitTransaction returned: res.end.
Finish(q) ==
  /\ step[q] = "committing" /\ pc[q] = "idle"
  /\ told' = [told EXCEPT ![q] = IF @ = "nothing" THEN "empty" ELSE @]
  /\ Goto(q, "ended")
  /\ UNCHANGED <<vars, own, side>>

\* Mutant: no rollback is tried after a failed commit.
CommitThrewOnly(q) ==
  /\ step[q] = "committing" /\ pc[q] = "threw"
  /\ Goto(q, "errored")
  /\ UNCHANGED <<vars, told, own, side>>

\* commitTransaction threw: the catch block rolls back.
CommitThrew(q) ==
  /\ step[q] = "committing" /\ pc[q] = "threw"
  /\ End(q, q, "rolledback")
  /\ Goto(q, "rollingback")
  /\ UNCHANGED <<told, own, side>>

\* rollbackTransaction threw: nothing more happens to the request.
RollbackThrew(q) ==
  /\ step[q] = "rollingback" /\ pc[q] = "threw"
  /\ Goto(q, "hung")
  /\ UNCHANGED <<vars, told, own, side>>

\* rollbackTransaction returned: next(err).  The error handler answers only
\* a client that has been sent nothing (res.headersSent): one that has its
\* result keeps it, though the COMMIT behind it was refused.
AfterRollback(q) ==
  /\ step[q] = "rollingback" /\ pc[q] = "idle"
  /\ told' = [told EXCEPT ![q] = IF @ = "nothing" THEN "error" ELSE @]
  /\ Goto(q, "errored")
  /\ UNCHANGED <<vars, own, side>>

----------------------------------------------------------------------------
\* The side chains

SideWorks(s) == ChainWorks(s) /\ UNCHANGED <<step, told, own>>

\* A hook ends a transaction only when it has outlived its request.
EventEnds(s) ==
  /\ step[ContextOf[s]] \in Finished
  /\ ChainEnds(s)
  /\ UNCHANGED <<step, told, own>>

SideReturns(s) == ChainReturns(s) /\ UNCHANGED <<step, told, own>>
SideFails(s) == ChainFails(s) /\ UNCHANGED <<step, told, own>>

\* The database or the pool answers any chain, or refuses it.
AnswerChain(t) == Answer(t) /\ UNCHANGED handlerVars
RefuseChain(t) == OpenFails(t) /\ UNCHANGED handlerVars

----------------------------------------------------------------------------
HandlerStep(q) ==
  \/ Start(q) \/ UseTransaction(q) \/ RunStatement(q)
  \/ InsertChildren(q) \/ Join(q) \/ \E s \in Event : TriggerEvent(q, s)
  \/ Reply(q) \/ Throw(q) \/ Finish(q) \/ CommitThrew(q)
  \/ AfterRollback(q) \/ RollbackThrew(q)

SideStep(s) == SideWorks(s) \/ EventEnds(s) \/ SideReturns(s) \/ SideFails(s)

\* All requests and all the chains they started are over.
Quiet ==
  /\ \A q \in Ctx : step[q] \in Finished
  /\ \A s \in Side : side[s] # "running"
  /\ UNCHANGED allVars

HandlerNext ==
  \/ \E q \in Ctx : HandlerStep(q)
  \/ \E s \in Side : SideStep(s)
  \/ \E t \in Task : AnswerChain(t) \/ RefuseChain(t)
  \/ Quiet

\* Settled promises run their continuations, the database answers, a free
\* connection goes to a waiting chain, and services and hooks return or throw
\* after finitely many calls (repeating one changes nothing here, so a chain
\* that keeps taking steps gets past them).  No failure is owed.
Fairness ==
  /\ \A q \in Ctx : WF_allVars(HandlerStep(q))
  /\ \A s \in Side : WF_allVars(SideStep(s))
  /\ \A t \in Task : WF_allVars(AnswerChain(t))

HandlerSpec == HandlerInit /\ [][HandlerNext]_allVars /\ Fairness

----------------------------------------------------------------------------
\* The client has its result and the request went to the error handler, or
\* nowhere: COMMIT was refused after the body was sent.  The code allows it,
\* and the properties below name it.
Misled(q) == told[q] = "result" /\ step[q] \in {"errored", "hung"}

\* What the client is told is true of the data: all the work done for a
\* request answered with an empty result, which is sent after the COMMIT, is
\* kept; so is that of a request whose body was sent before it, unless the
\* client is misled; and no work is kept of one answered with an error, or
\* of a misled one (request.ts:84-106, error.ts:12).
AnswersTruly(q) ==
  \A r \in Runner :
    owner[r] = q /\ wrote[r] # {} =>
      /\ told[q] = "empty" => dbtx[r] = "committed" /\ wrote[r] = {"inside"}
      /\ told[q] = "result" /\ step[q] \in Finished /\ ~Misled(q)
           => dbtx[r] = "committed" /\ wrote[r] = {"inside"}
      /\ told[q] = "error" \/ (Misled(q) /\ step[q] = "errored")
           => dbtx[r] # "committed" /\ wrote[r] = {"inside"}

AnswerIsTrue == \A q \in Ctx : AnswersTruly(q)

\* A request that has been answered holds no connection of the pool: the
\* commit or the rollback, tried again as a rollback when the commit threw,
\* gave back whatever its services took.
NothingHeldAfterAnswer ==
  \A r \in Held : step[owner[r]] \notin {"ended", "errored"}

\* Whatever side chains outlive the request, the handler's own statements
\* are inside its transaction, which was committed when the request ended
\* well and rolled back when it went to the error handler.
HandlerKeepsItsWord ==
  \A q \in Ctx :
    own[q] # {} =>
      /\ own[q] = {"inside"}
      /\ step[q] = "ended" => dbtx[qr[q]] = "committed"
      /\ step[q] = "errored" => dbtx[qr[q]] = "rolledback"

\* The children of a deep insert are in their parent's transaction, until
\* one of them fails: Promise.all keeps the handler from ending it earlier.
ChildrenShareTransaction ==
  \A s \in Child :
    /\ qr[s] # None
    /\ \A k \in ChildrenOf(ContextOf[s]) : side[k] # "failed"
    => qr[s] = qr[ContextOf[s]]

\* Every request gets an answer, also when there are fewer connections than
\* requests, unless a ROLLBACK failed: that request never gets one, nor may
\* those that wait for the connection it keeps.
EveryRequestAnswered ==
  \A q \in Ctx :
    step[q] = "executing" ~> \/ step[q] \in {"ended", "errored"}
                             \/ \E p \in Ctx : step[p] = "hung"
=============================================================================
