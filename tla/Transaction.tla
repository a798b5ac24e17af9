---------------------------- MODULE Transaction ----------------------------
(***************************************************************************)
(* The transaction store of src/transaction.ts: a process-wide map from    *)
(* the uuid of a transaction context to the query runner (one connection   *)
(* of the pool) that carries its database transaction.                     *)
(*                                                                         *)
(* Asynchronous call chains ("tasks": a request handler, the child of a    *)
(* deep insert, an event hook) call getOrCreateTransaction,                *)
(* commitTransaction and rollbackTransaction and query on the runner they  *)
(* were handed.  JavaScript runs one task at a time, and another may run   *)
(* at every await: an action below is the code between two awaits.         *)
(*                                                                         *)
(* The query runner is typeorm's and is modelled as the calls of           *)
(* transaction.ts use it.  A connection executes statements in the order   *)
(* they are sent, so a statement takes effect in the step that sends it    *)
(* and its answer arrives in a later step.                                 *)
(***************************************************************************)
EXTENDS Integers, FiniteSets

CONSTANTS
  Ctx,          \* transaction contexts, each with its uuid
  Task,         \* asynchronous call chains
  Runner,       \* query runners that can be created (bounds the behaviours)
  PoolSize,     \* connections of the driver's pool
  Faults,       \* which calls to the database may fail
  Disciplined,  \* TRUE: the callers of one context take turns
  None          \* no runner, no context

ASSUME RunnerAssumption == None \notin Runner
ASSUME CtxAssumption == None \notin Ctx
ASSUME PoolAssumption == PoolSize \in Nat \ {0}
ASSUME FaultsAssumption == Faults \subseteq {"connect", "begin", "end"}
ASSUME DisciplineAssumption == Disciplined \in BOOLEAN

VARIABLES
  storage,   \* transactionStorage: the runner stored for each context
  phase,     \* each runner: unused, created, holding a connection, released
  owner,     \* the context each runner was created for
  txActive,  \* the runner's own view: isTransactionActive
  dbtx,      \* the database's view of the runner's transaction
  wrote,     \* whether statements ran "inside" or "outside" that transaction
  pc,        \* where each task is
  ctx,       \* the context of the task's latest call
  qr         \* the runner in the task's hands

vars == <<storage, phase, owner, txActive, dbtx, wrote, pc, ctx, qr>>

Over == {"committed", "rolledback"}

TypeOK ==
  /\ storage \in [Ctx -> Runner \cup {None}]
  /\ phase \in [Runner -> {"unused", "created", "connected", "released"}]
  /\ owner \in [Runner -> Ctx \cup {None}]
  /\ txActive \in [Runner -> BOOLEAN]
  /\ dbtx \in [Runner -> {"none", "open"} \cup Over]
  /\ wrote \in [Runner -> SUBSET {"inside", "outside"}]
  /\ pc \in [Task -> {"idle", "threw", "connecting", "beginning",
                      "ending", "refused", "releasing", "deleting"}]
  /\ ctx \in [Task -> Ctx \cup {None}]
  /\ qr \in [Task -> Runner \cup {None}]

Init ==
  /\ storage = [c \in Ctx |-> None]
  /\ phase = [r \in Runner |-> "unused"]
  /\ owner = [r \in Runner |-> None]
  /\ txActive = [r \in Runner |-> FALSE]
  /\ dbtx = [r \in Runner |-> "none"]
  /\ wrote = [r \in Runner |-> {}]
  /\ pc = [t \in Task |-> "idle"]
  /\ ctx = [t \in Task |-> None]
  /\ qr = [t \in Task |-> None]

Held == {r \in Runner : phase[r] = "connected"}

\* A task whose latest call has returned or thrown may make another.
Free(t) == pc[t] \in {"idle", "threw"}

\* The discipline a careful caller keeps: one call on a context at a time,
\* and no new work for a context whose transaction is over.
MayCall(c) == Disciplined => \A u \in Task : ctx[u] = c => Free(u)
MayUse(c) == Disciplined =>
               \A r \in Runner : owner[r] = c => dbtx[r] \notin Over

----------------------------------------------------------------------------
\* getOrCreateTransaction

\* The context has an entry: its runner is returned without waiting,
\* whatever has become of it.
GetHit(t, c) ==
  /\ Free(t) /\ MayCall(c) /\ MayUse(c)
  /\ storage[c] # None
  /\ pc' = [pc EXCEPT ![t] = "idle"]
  /\ ctx' = [ctx EXCEPT ![t] = c]
  /\ qr' = [qr EXCEPT ![t] = storage[c]]
  /\ UNCHANGED <<storage, phase, owner, txActive, dbtx, wrote>>

\* createQueryRunner() makes a new runner; which name it has makes no
\* difference.
NewRunner == CHOOSE r \in Runner : phase[r] = "unused"

\* No entry: a runner is created and its connect() awaited.
GetMiss(t, c) ==
  /\ Free(t) /\ MayCall(c) /\ MayUse(c)
  /\ storage[c] = None
  /\ \E r \in Runner :
       /\ phase[r] = "unused" /\ r = NewRunner
       /\ phase' = [phase EXCEPT ![r] = "created"]
       /\ owner' = [owner EXCEPT ![r] = c]
       /\ qr' = [qr EXCEPT ![t] = r]
  /\ pc' = [pc EXCEPT ![t] = "connecting"]
  /\ ctx' = [ctx EXCEPT ![t] = c]
  /\ UNCHANGED <<storage, txActive, dbtx, wrote>>

\* Mutant: the runner is stored before the transaction is started.
ConnectStores(t) ==
  /\ pc[t] = "connecting"
  /\ Cardinality(Held) < PoolSize
  /\ phase' = [phase EXCEPT ![qr[t]] = "connected"]
  /\ storage' = [storage EXCEPT ![ctx[t]] = qr[t]]
  /\ pc' = [pc EXCEPT ![t] = "beginning"]
  /\ UNCHANGED <<owner, txActive, dbtx, wrote, ctx, qr>>

\* The pool grants a connection (the caller waits while there is none).
Connect(t) ==
  /\ pc[t] = "connecting"
  /\ Cardinality(Held) < PoolSize
  /\ phase' = [phase EXCEPT ![qr[t]] = "connected"]
  /\ pc' = [pc EXCEPT ![t] = "beginning"]
  /\ UNCHANGED <<storage, owner, txActive, dbtx, wrote, ctx, qr>>

\* Mutant: startTransaction() is forgotten.
BeginForgotten(t) ==
  /\ pc[t] = "beginning"
  /\ txActive' = [txActive EXCEPT ![qr[t]] = TRUE]
  /\ storage' = [storage EXCEPT ![ctx[t]] = qr[t]]
  /\ pc' = [pc EXCEPT ![t] = "idle"]
  /\ UNCHANGED <<phase, owner, dbtx, wrote, ctx, qr>>

\* startTransaction() is answered; only now the runner is stored.
Begin(t) ==
  /\ pc[t] = "beginning"
  /\ txActive' = [txActive EXCEPT ![qr[t]] = TRUE]
  /\ dbtx' = [dbtx EXCEPT ![qr[t]] = "open"]
  /\ storage' = [storage EXCEPT ![ctx[t]] = qr[t]]
  /\ pc' = [pc EXCEPT ![t] = "idle"]
  /\ UNCHANGED <<phase, owner, wrote, ctx, qr>>

\* connect() or startTransaction() rejects: the caller gets the error and
\* nobody keeps the runner; after a failed start it still has a connection.
OpenFails(t) ==
  /\ \/ pc[t] = "connecting" /\ "connect" \in Faults
     \/ pc[t] = "beginning" /\ "begin" \in Faults
  /\ pc' = [pc EXCEPT ![t] = "threw"]
  /\ qr' = [qr EXCEPT ![t] = None]
  /\ UNCHANGED <<storage, phase, owner, txActive, dbtx, wrote, ctx>>

----------------------------------------------------------------------------
\* What a service does with the runner it was handed

\* A statement runs in the transaction while that is open and commits on its
\* own afterwards.
Write(t) ==
  /\ Free(t) /\ qr[t] # None /\ MayUse(ctx[t])
  /\ phase[qr[t]] = "connected"
  /\ wrote' = [wrote EXCEPT ![qr[t]] =
                 @ \cup {IF dbtx[qr[t]] = "open" THEN "inside" ELSE "outside"}]
  /\ pc' = [pc EXCEPT ![t] = "idle"]
  /\ UNCHANGED <<storage, phase, owner, txActive, dbtx, ctx, qr>>

\* A released runner refuses every statement.
WriteThrows(t) ==
  /\ Free(t) /\ qr[t] # None
  /\ phase[qr[t]] = "released"
  /\ pc' = [pc EXCEPT ![t] = "threw"]
  /\ UNCHANGED <<storage, phase, owner, txActive, dbtx, wrote, ctx, qr>>

----------------------------------------------------------------------------
\* commitTransaction and rollbackTransaction

\* COMMIT or ROLLBACK is sent and the database accepts it.
EndCall(t, c, fate) ==
  /\ Free(t) /\ MayCall(c)
  /\ storage[c] # None
  /\ phase[storage[c]] # "released" /\ txActive[storage[c]]
  /\ dbtx' = [dbtx EXCEPT ![storage[c]] = IF @ = "open" THEN fate ELSE @]
  /\ pc' = [pc EXCEPT ![t] = "ending"]
  /\ ctx' = [ctx EXCEPT ![t] = c]
  /\ qr' = [qr EXCEPT ![t] = storage[c]]
  /\ UNCHANGED <<storage, phase, owner, txActive, wrote>>

\* COMMIT or ROLLBACK is sent and the database refuses it: a refused COMMIT
\* may have rolled the transaction back, or left it open.
EndCallRefused(t, c, fate) ==
  /\ Free(t) /\ MayCall(c)
  /\ storage[c] # None
  /\ phase[storage[c]] # "released" /\ txActive[storage[c]]
  /\ "end" \in Faults \/ dbtx[storage[c]] # "open"
  /\ \/ UNCHANGED dbtx
     \/ /\ fate = "committed" /\ dbtx[storage[c]] = "open"
        /\ dbtx' = [dbtx EXCEPT ![storage[c]] = "rolledback"]
  /\ pc' = [pc EXCEPT ![t] = "refused"]
  /\ ctx' = [ctx EXCEPT ![t] = c]
  /\ qr' = [qr EXCEPT ![t] = storage[c]]
  /\ UNCHANGED <<storage, phase, owner, txActive, wrote>>

\* The stored runner is connected but another call has just ended its
\* transaction: typeorm throws TransactionNotStartedError.
EndNotStarted(t, c) ==
  /\ Free(t) /\ MayCall(c)
  /\ storage[c] # None
  /\ phase[storage[c]] # "released" /\ ~txActive[storage[c]]
  /\ pc' = [pc EXCEPT ![t] = "threw"]
  /\ ctx' = [ctx EXCEPT ![t] = c]
  /\ qr' = [qr EXCEPT ![t] = storage[c]]
  /\ UNCHANGED <<storage, phase, owner, txActive, dbtx, wrote>>

\* The stored runner is already released: only the entry is deleted.
EndReleased(t, c) ==
  /\ Free(t) /\ MayCall(c)
  /\ storage[c] # None /\ phase[storage[c]] = "released"
  /\ storage' = [storage EXCEPT ![c] = None]
  /\ pc' = [pc EXCEPT ![t] = "idle"]
  /\ ctx' = [ctx EXCEPT ![t] = c]
  /\ qr' = [qr EXCEPT ![t] = storage[c]]
  /\ UNCHANGED <<phase, owner, txActive, dbtx, wrote>>

\* No entry: the call does nothing and returns.
EndMiss(t, c) ==
  /\ Free(t) /\ MayCall(c)
  /\ storage[c] = None
  /\ pc' = [pc EXCEPT ![t] = "idle"]
  /\ UNCHANGED <<storage, phase, owner, txActive, dbtx, wrote, ctx, qr>>

\* Mutant: the entry is deleted before the connection is released.
EndAnsweredForgets(t) ==
  /\ pc[t] = "ending"
  /\ txActive' = [txActive EXCEPT ![qr[t]] = FALSE]
  /\ storage' = [storage EXCEPT ![ctx[t]] = None]
  /\ pc' = [pc EXCEPT ![t] = "releasing"]
  /\ UNCHANGED <<phase, owner, dbtx, wrote, ctx, qr>>

\* The answer arrives.
EndAnswered(t) ==
  /\ pc[t] = "ending"
  /\ txActive' = [txActive EXCEPT ![qr[t]] = FALSE]
  /\ pc' = [pc EXCEPT ![t] = "releasing"]
  /\ UNCHANGED <<storage, phase, owner, dbtx, wrote, ctx, qr>>

\* Mutants: the runner is released in a finally block; its entry is deleted
\* in one.
EndThrowsReleases(t) ==
  /\ pc[t] = "refused"
  /\ pc' = [pc EXCEPT ![t] = "releasing"]
  /\ UNCHANGED <<storage, phase, owner, txActive, dbtx, wrote, ctx, qr>>

EndThrowsForgets(t) ==
  /\ pc[t] = "refused"
  /\ storage' = [storage EXCEPT ![ctx[t]] = None]
  /\ pc' = [pc EXCEPT ![t] = "threw"]
  /\ UNCHANGED <<phase, owner, txActive, dbtx, wrote, ctx, qr>>

\* The refusal arrives: the call throws, the runner is neither released nor
\* forgotten.
EndThrows(t) ==
  /\ pc[t] = "refused"
  /\ pc' = [pc EXCEPT ![t] = "threw"]
  /\ UNCHANGED <<storage, phase, owner, txActive, dbtx, wrote, ctx, qr>>

\* Mutant: release() is forgotten.
ReleaseForgotten(t) ==
  /\ pc[t] = "releasing"
  /\ pc' = [pc EXCEPT ![t] = "deleting"]
  /\ UNCHANGED <<storage, phase, owner, txActive, dbtx, wrote, ctx, qr>>

\* releaseTransaction: the connection goes back to the pool.
Release(t) ==
  /\ pc[t] = "releasing"
  /\ phase' = [phase EXCEPT ![qr[t]] = "released"]
  /\ pc' = [pc EXCEPT ![t] = "deleting"]
  /\ UNCHANGED <<storage, owner, txActive, dbtx, wrote, ctx, qr>>

\* The entry is deleted by uuid, whichever runner it holds by now.
Delete(t) ==
  /\ pc[t] = "deleting"
  /\ storage' = [storage EXCEPT ![ctx[t]] = None]
  /\ pc' = [pc EXCEPT ![t] = "idle"]
  /\ UNCHANGED <<phase, owner, txActive, dbtx, wrote, ctx, qr>>

----------------------------------------------------------------------------
Get(t, c) == GetHit(t, c) \/ GetMiss(t, c)

End(t, c, fate) ==
  \/ EndCall(t, c, fate) \/ EndCallRefused(t, c, fate)
  \/ EndNotStarted(t, c) \/ EndReleased(t, c) \/ EndMiss(t, c)

\* The steps that answer an await inside a call (besides OpenFails, which
\* nothing makes happen).
Answer(t) ==
  \/ Connect(t) \/ Begin(t)
  \/ EndAnswered(t) \/ EndThrows(t) \/ Release(t) \/ Delete(t)

Next ==
  \E t \in Task :
    \/ \E c \in Ctx : Get(t, c) \/ \E fate \in Over : End(t, c, fate)
    \/ Write(t) \/ WriteThrows(t)
    \/ Answer(t) \/ OpenFails(t)

Spec == Init /\ [][Next]_vars
----------------------------------------------------------------------------
(* Properties of any callers, whatever they do and however calls overlap.  *)

\* No context ever gets at the transaction of another one: an entry holds a
\* runner created for that context (transactionStorage is keyed by uuid and
\* filled at the end of getOrCreateTransaction), and a task works on a
\* runner of the context it asked for.
Isolation ==
  /\ \A c \in Ctx : storage[c] # None => owner[storage[c]] = c
  /\ \A t \in Task : qr[t] # None => owner[qr[t]] = ctx[t]

\* A runner is stored, and handed to a service, only after its transaction
\* began: no statement of a context can run before START TRANSACTION
\* (storage.set comes after the two awaits of getOrCreateTransaction).
BegunBeforeUse ==
  /\ \A c \in Ctx : storage[c] # None => dbtx[storage[c]] # "none"
  /\ \A t \in Task : Free(t) /\ qr[t] # None => dbtx[qr[t]] # "none"

\* A connection goes back to the pool only when its transaction is over: the
\* next user of the connection never inherits an open one (release follows
\* the awaited commit or rollback, and a failed one skips it).
ReleasedIsOver ==
  \A r \in Runner : phase[r] = "released" => dbtx[r] \in Over

----------------------------------------------------------------------------
(* Properties of disciplined callers.                                      *)

\* A context uses one database transaction: of the runners created for it
\* at most one ever begins.
SingleTransaction ==
  \A r, s \in Runner :
    /\ owner[r] # None /\ owner[r] = owner[s]
    /\ dbtx[r] # "none" /\ dbtx[s] # "none"
    => r = s

\* Every connection taken from the pool can still be given back: it belongs
\* to the runner stored for its context, or a call in progress holds it.  In
\* particular after a commit that threw, a rollback of the context finds it.
NoLostConnection ==
  \A r \in Held : \/ storage[owner[r]] = r
                  \/ \E t \in Task : qr[t] = r /\ ~Free(t)

\* An entry never disappears, nor changes, while its runner still holds a
\* connection (delete comes last in commit- and rollbackTransaction).
ForgetOnlyReleased ==
  [][\A c \in Ctx : storage[c] # None /\ storage'[c] # storage[c]
                       => phase[storage[c]] = "released"]_vars

----------------------------------------------------------------------------
(* What a context promises its callers, see TransactionContract.           *)

Begun(c) == {r \in Runner : owner[r] = c /\ dbtx[r] # "none"}

FateOf(c) ==
  IF Begun(c) = {} THEN "none" ELSE dbtx[CHOOSE r \in Begun(c) : TRUE]

DirtyIn(c) == \E r \in Begun(c) : dbtx[r] = "open" /\ wrote[r] # {}

KeptIn(c) ==
  \E r \in Runner :
    /\ owner[r] = c
    /\ \/ "outside" \in wrote[r]
       \/ dbtx[r] = "committed" /\ wrote[r] # {}

Contract == INSTANCE TransactionContract WITH
  fate <- [c \in Ctx |-> FateOf(c)],
  dirty <- [c \in Ctx |-> DirtyIn(c)],
  kept <- [c \in Ctx |-> KeptIn(c)]

\* Disciplined callers see the store implement one transaction per context.
ImplementsContract == Contract!Spec
============================================================================
