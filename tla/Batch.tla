------------------------------- MODULE Batch -------------------------------
(***************************************************************************)
(* The $batch handler of src/middlewares/batch.ts on the transaction store *)
(* of Transaction and the order of DependsOn.                              *)
(*                                                                         *)
(* Every atomicity group has a transaction context of its own and is       *)
(* served by an async function of its own, so a group, its context and     *)
(* that call chain share one name (Ctx).  The functions are all started    *)
(* in one go and interleave at their awaits; within one the requests run   *)
(* one after another.  The services of a request may start side chains on  *)
(* the group's context, which the group's next requests and its end do not *)
(* wait for, but for the children of a deep insert that does not fail.     *)
(***************************************************************************)
EXTENDS SideChains, DependsOn

CONSTANT
  Bundles  \* batches to consider: the sequence of requests of each group,
           \* which is empty for a group that the batch does not have

ASSUME BundlesAssumption == Bundles \subseteq [Ctx -> Seq(Request)]

VARIABLES
  bundle,     \* the requests of each group
  fastFail,   \* the header continue-on-error is "false"
  batch,      \* "received", "running", "answered" or "errored" (next(error))
  group,      \* where the function of each group is
  todo,       \* the ids of the group's requests still to run
  executing,  \* a request of the group is being executed
  failed,     \* anyItemProcessedFailed
  results,    \* groupResults: the id and the outcome of each request
  awaited,    \* the children the Promise.all of a deep insert waits for
  late        \* (history) side chains were running when the group was ended

chainVars == <<side, awaited, late>>
batchVars == <<bundle, fastFail, batch, group, todo, executing, failed, results,
               chainVars>>
allVars == <<vars, batchVars>>

BatchTypeOK ==
  /\ TypeOK /\ SideTypeOK
  /\ bundle \in Bundles
  /\ fastFail \in BOOLEAN
  /\ batch \in {"received", "running", "answered", "errored"}
  /\ group \in [Ctx -> {"waiting", "serving", "ending", "done", "threw"}]
  /\ \A g \in Ctx :
       /\ Range(todo[g]) \subseteq Ids(bundle[g])
       /\ Range(results[g]) \subseteq
            [id : Ids(bundle[g]), outcome : {"ok", "error", "skipped"}]
  /\ executing \in [Ctx -> BOOLEAN]
  /\ failed \in [Ctx -> BOOLEAN]
  /\ awaited \in [Ctx -> SUBSET Child]
  /\ late \in [Ctx -> BOOLEAN]

BatchInit ==
  /\ Init /\ SideInit
  /\ bundle \in Bundles
  /\ fastFail \in BOOLEAN
  /\ batch = "received"
  /\ group = [g \in Ctx |-> "waiting"]
  /\ todo = [g \in Ctx |-> <<>>]
  /\ executing = [g \in Ctx |-> FALSE]
  /\ failed = [g \in Ctx |-> FALSE]
  /\ results = [g \in Ctx |-> <<>>]
  /\ awaited = [g \in Ctx |-> {}]
  /\ late = [g \in Ctx |-> FALSE]

----------------------------------------------------------------------------
\* The handler

\* A dependency that is not in its group, or a duplicate id: TypeError.
RejectInvalid ==
  /\ batch = "received"
  /\ \E g \in Ctx : ~IsValid(bundle[g])
  /\ batch' = "errored"
  /\ UNCHANGED <<vars, bundle, fastFail, group, todo, executing, failed, results, chainVars>>

\* The atomicity groups the batch has.
Groups == {g \in Ctx : bundle[g] # <<>>}

\* map() calls the function of every group, which runs to its first await:
\* groupDependsOn has thrown or arranged the requests by then.
StartGroups ==
  /\ batch = "received"
  /\ \A g \in Ctx : IsValid(bundle[g])
  /\ batch' = "running"
  /\ group' = [g \in Ctx |->
                 IF g \notin Groups THEN "waiting"
                 ELSE IF Refuses(bundle[g]) THEN "threw" ELSE "serving"]
  /\ todo' = [g \in Ctx |->
                IF g \notin Groups \/ Refuses(bundle[g]) THEN <<>>
                ELSE RunOrder(groupDependsOn(bundle[g]))]
  /\ UNCHANGED <<vars, bundle, fastFail, executing, failed, results, chainVars>>

\* Promise.all resolves: all results in one answer.
AnswerBatch ==
  /\ batch = "running"
  /\ \A g \in Groups : group[g] = "done"
  /\ batch' = "answered"
  /\ UNCHANGED <<vars, bundle, fastFail, group, todo, executing, failed, results, chainVars>>

\* Promise.all rejects with the first function that threw; the other
\* functions go on.
RejectBatch ==
  /\ batch = "running"
  /\ \E g \in Ctx : group[g] = "threw"
  /\ batch' = "errored"
  /\ UNCHANGED <<vars, bundle, fastFail, group, todo, executing, failed, results, chainVars>>

----------------------------------------------------------------------------
\* The function of a group

Push(g, outcome) ==
  /\ todo' = [todo EXCEPT ![g] = Tail(@)]
  /\ results' = [results EXCEPT
                   ![g] = Append(@, [id |-> Head(todo[g]), outcome |-> outcome])]

\* Mutant: continue-on-error is not looked at.
StartAlways(g) ==
  /\ group[g] = "serving" /\ ~executing[g] /\ todo[g] # <<>>
  /\ executing' = [executing EXCEPT ![g] = TRUE]
  /\ UNCHANGED <<vars, bundle, fastFail, batch, group, todo, failed, results, chainVars>>

StartRequest(g) ==
  /\ group[g] = "serving" /\ ~executing[g] /\ todo[g] # <<>>
  /\ ~(failed[g] /\ fastFail)
  /\ executing' = [executing EXCEPT ![g] = TRUE]
  /\ UNCHANGED <<vars, bundle, fastFail, batch, group, todo, failed, results, chainVars>>

\* Mutant: a request that is not executed gets no result.
SkipUnanswered(g) ==
  /\ group[g] = "serving" /\ ~executing[g] /\ todo[g] # <<>>
  /\ failed[g] /\ fastFail
  /\ todo' = [todo EXCEPT ![g] = Tail(@)]
  /\ UNCHANGED <<vars, bundle, fastFail, batch, group, executing, failed, results, chainVars>>

\* The fast-fail answer: the request is not executed.
SkipRequest(g) ==
  /\ group[g] = "serving" /\ ~executing[g] /\ todo[g] # <<>>
  /\ failed[g] /\ fastFail
  /\ Push(g, "skipped")
  /\ UNCHANGED <<vars, bundle, fastFail, batch, group, executing, failed, chainVars>>

\* The group's chain is in a service, and not at a Promise.all.
InService(g) == executing[g] /\ awaited[g] = {}

\* What the services of a request do with the group's transaction.
UseTransaction(g) ==
  /\ InService(g) /\ Get(g, g)
  /\ UNCHANGED batchVars

RunStatement(g) ==
  /\ InService(g) /\ Write(g)
  /\ UNCHANGED batchVars

\* The group's chain has run a statement, of this request or an earlier one.
HasWritten(g) == pc[g] = "idle" /\ qr[g] # None /\ wrote[qr[g]] # {}

\* _deepInsert: the parent row is in, some children start together.
InsertChildren(g) ==
  /\ InService(g) /\ HasWritten(g)
  /\ \E kids \in (SUBSET ChildrenOf(g)) \ {{}} :
       /\ \A s \in kids : side[s] = "unborn"
       /\ StartChains(kids)
       /\ awaited' = [awaited EXCEPT ![g] = kids]
  /\ UNCHANGED <<vars, bundle, fastFail, batch, group, todo, executing, failed,
                 results, late>>

\* Promise.all resolves when the last child has.
Join(g) ==
  /\ awaited[g] # {} /\ \A s \in awaited[g] : side[s] = "done"
  /\ awaited' = [awaited EXCEPT ![g] = {}]
  /\ UNCHANGED <<vars, bundle, fastFail, batch, group, todo, executing, failed,
                 results, side, late>>

\* executeHooks after a statement: the event is started and not awaited.
TriggerEvent(g, s) ==
  /\ InService(g) /\ HasWritten(g)
  /\ s \in Event /\ ContextOf[s] = g /\ side[s] = "unborn"
  /\ StartChains({s})
  /\ UNCHANGED <<vars, bundle, fastFail, batch, group, todo, executing, failed,
                 results, awaited, late>>

RequestSucceeds(g) ==
  /\ InService(g) /\ pc[g] = "idle"
  /\ executing' = [executing EXCEPT ![g] = FALSE]
  /\ Push(g, "ok")
  /\ UNCHANGED <<vars, bundle, fastFail, batch, group, failed, chainVars>>

\* A service threw, or Promise.all rejected with the first child that failed,
\* whatever the other children are doing.
Rejects(g) ==
  IF awaited[g] = {} THEN Free(g) ELSE \E s \in awaited[g] : side[s] = "failed"

\* Mutants: the failure is not remembered; the request is tried again.
RequestFailsUnnoticed(g) ==
  /\ executing[g] /\ Rejects(g)
  /\ pc' = [pc EXCEPT ![g] = "idle"]
  /\ executing' = [executing EXCEPT ![g] = FALSE]
  /\ awaited' = [awaited EXCEPT ![g] = {}]
  /\ Push(g, "error")
  /\ UNCHANGED <<storage, phase, owner, txActive, dbtx, wrote, ctx, qr,
                 bundle, fastFail, batch, group, failed, side, late>>

RequestFailsRetries(g) ==
  /\ executing[g] /\ Rejects(g)
  /\ pc' = [pc EXCEPT ![g] = "idle"]
  /\ executing' = [executing EXCEPT ![g] = FALSE]
  /\ failed' = [failed EXCEPT ![g] = TRUE]
  /\ awaited' = [awaited EXCEPT ![g] = {}]
  /\ UNCHANGED <<storage, phase, owner, txActive, dbtx, wrote, ctx, qr,
                 bundle, fastFail, batch, group, todo, results, side, late>>

\* The catch block keeps the error for the answer and goes on; the other
\* children and the hooks of the request go on too.
RequestFails(g) ==
  /\ executing[g] /\ Rejects(g)
  /\ pc' = [pc EXCEPT ![g] = "idle"]
  /\ executing' = [executing EXCEPT ![g] = FALSE]
  /\ failed' = [failed EXCEPT ![g] = TRUE]
  /\ awaited' = [awaited EXCEPT ![g] = {}]
  /\ Push(g, "error")
  /\ UNCHANGED <<storage, phase, owner, txActive, dbtx, wrote, ctx, qr,
                 bundle, fastFail, batch, group, side, late>>

\* After the last request the group's transaction is ended.
EndGroup(g) ==
  /\ group[g] = "serving" /\ ~executing[g] /\ todo[g] = <<>>
  /\ End(g, g, IF failed[g] THEN "rolledback" ELSE "committed")
  /\ group' = [group EXCEPT ![g] = "ending"]
  /\ late' = [late EXCEPT ![g] = \E s \in SidesOf(g) : side[s] = "running"]
  /\ UNCHANGED <<bundle, fastFail, batch, todo, executing, failed, results,
                 side, awaited>>

\* The call returned, or threw: nothing is tried after a failed COMMIT.
GroupReturns(g) ==
  /\ group[g] = "ending" /\ Free(g)
  /\ group' = [group EXCEPT ![g] = IF pc[g] = "idle" THEN "done" ELSE "threw"]
  /\ UNCHANGED <<vars, bundle, fastFail, batch, todo, executing, failed, results,
                 chainVars>>

----------------------------------------------------------------------------
\* The side chains

SideWorks(s) == ChainWorks(s) /\ UNCHANGED batchVars

\* A hook ends a transaction only when it has outlived its group.
EventEnds(s) ==
  /\ group[ContextOf[s]] \in {"done", "threw"}
  /\ ChainEnds(s)
  /\ UNCHANGED batchVars

SideReturns(s) ==
  /\ ChainReturns(s)
  /\ UNCHANGED <<bundle, fastFail, batch, group, todo, executing, failed, results,
                 awaited, late>>

SideFails(s) ==
  /\ ChainFails(s)
  /\ UNCHANGED <<bundle, fastFail, batch, group, todo, executing, failed, results,
                 awaited, late>>

\* The database or the pool answers any chain, or refuses to open a
\* transaction.
AnswerChain(t) == Answer(t) /\ UNCHANGED batchVars
RefuseChain(t) == OpenFails(t) /\ UNCHANGED batchVars

----------------------------------------------------------------------------
GroupStep(g) ==
  \/ StartRequest(g) \/ SkipRequest(g)
  \/ UseTransaction(g) \/ RunStatement(g)
  \/ InsertChildren(g) \/ Join(g) \/ \E s \in Event : TriggerEvent(g, s)
  \/ RequestSucceeds(g) \/ RequestFails(g)
  \/ EndGroup(g) \/ GroupReturns(g)

SideStep(s) == SideWorks(s) \/ EventEnds(s) \/ SideReturns(s) \/ SideFails(s)

HandlerStep == RejectInvalid \/ StartGroups \/ AnswerBatch \/ RejectBatch

\* The batch is answered, every function has returned and every chain is over.
Quiet ==
  /\ batch \in {"answered", "errored"}
  /\ \A g \in Ctx : group[g] \in {"waiting", "done", "threw"}
  /\ \A s \in Side : side[s] # "running"
  /\ UNCHANGED allVars

BatchNext ==
  \/ HandlerStep
  \/ \E g \in Ctx : GroupStep(g)
  \/ \E s \in Side : SideStep(s)
  \/ \E t \in Task : AnswerChain(t) \/ RefuseChain(t)
  \/ Quiet

\* The event loop runs what is ready, the database answers, a free
\* connection goes to a waiting chain, and services and hooks return or
\* throw.  No failure is owed.
Fairness ==
  /\ WF_allVars(HandlerStep)
  /\ \A g \in Ctx : WF_allVars(GroupStep(g))
  /\ \A s \in Side : WF_allVars(SideStep(s))
  /\ \A t \in Task : WF_allVars(AnswerChain(t))

BatchSpec == BatchInit /\ [][BatchNext]_allVars /\ Fairness

----------------------------------------------------------------------------
\* The fate the results of a group announce.
Fate(g) == IF \A res \in Range(results[g]) : res.outcome = "ok"
           THEN "committed" ELSE "rolledback"

\* While a group is served all that is run for it, by its own chain, by
\* children and by hooks of earlier requests, is in one open transaction; the
\* group's end gives that transaction the fate its results announce, and it
\* holds all the work, but for that of chains which were still running then
\* (the comment "each atomicityGroup will run in SINGLE transaction").
GroupIsAtomic ==
  \A g \in Ctx, r \in Runner :
    owner[r] = g /\ wrote[r] # {} =>
      /\ group[g] = "serving" =>
           r = storage[g] /\ dbtx[r] = "open" /\ wrote[r] = {"inside"}
      /\ group[g] = "done" =>
           /\ r = qr[g] => dbtx[r] = Fate(g)
           /\ ~late[g] => r = qr[g] /\ wrote[r] = {"inside"}

\* A group that is done has given its connection back: one that it holds was
\* taken by a chain that had outlived it.
DoneHoldsNothing ==
  \A r \in Held :
    group[owner[r]] = "done" => late[owner[r]] /\ r # qr[owner[r]]

\* The answer of a batch has exactly one result for each of its requests,
\* skipped ones included, but none for a bare one.
OneResultEach ==
  batch = "answered" =>
    \A g \in Groups :
      LET ids == Ids(bundle[g]) \ Bare(bundle[g])
      IN  /\ Len(results[g]) = Cardinality(ids)
          /\ {res.id : res \in Range(results[g])} = ids

\* With fast-fail on, a group executes nothing after its first failure:
\* no request, no new child or hook; only chains that were running already
\* go on.
FailureStopsGroup ==
  [][\A g \in Ctx :
       fastFail /\ (\E res \in Range(results[g]) : res.outcome = "error") =>
         /\ ~executing'[g]
         /\ \A s \in SidesOf(g) : side[s] = "unborn" => side'[s] = "unborn"
         /\ \A r \in Runner :
              owner[r] = g /\ wrote'[r] # wrote[r] =>
                \E s \in SidesOf(g) : side[s] = "running" /\ qr[s] = r]_allVars

\* Nobody gives back the connection of a group whose COMMIT or ROLLBACK was
\* refused, nor one that a chain took after its group had been ended.
KeptFor(g) ==
  \E r \in Held : owner[r] = g /\ (group[g] = "threw" \/ (group[g] = "done" /\ late[g]))

\* Whoever waits for the pool, fails or is refused, the batch is answered and
\* all its groups come to their end, unless a connection is kept for ever.
BatchEnds ==
  \/ batch = "running" ~>
       batch \in {"answered", "errored"} /\ \A g \in Groups : group[g] \in {"done", "threw"}
  \/ <>[](\E g \in Ctx : KeptFor(g))
============================================================================
