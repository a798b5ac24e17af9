# A TLA+ model of odata-v4-server

The server answers OData requests from controllers or from typed services on a
database (typeorm).  What is hard to test in it is what its asynchronous call
chains do to each other: services, atom groups and event hooks share a
transaction through a store keyed by uuid, wait for the connections of a pool,
fail half-way, and outlive the request that started them.  The modules here
model that, as TLA+ state machines which TLC checks on small instances, and
prove with TLAPS what holds of the transaction store, of its two users, of the
migration, of the expansion, of the stages of a request and of a streamed
response for every instance.

Run `tlc -config X.cfg M` for a model and `tlapm M.tla` for the proofs of a
module.  `PROJECT.json` lists the runs with the configuration and the
properties of each, which source lines each definition models, and for each
property a mutation of the model that breaks it.

## Inventory

All paths are under `src/src/`.

| part | state | operations | what makes it correct |
|---|---|---|---|
| Transaction store, `transaction.ts` | `transactionStorage`: uuid to query runner; in each runner a connection, `isReleased`, `isTransactionActive` | `getOrCreateTransaction`, `commitTransaction`, `rollbackTransaction`, each with two awaits | one transaction per context; nobody reaches another's; connections come back, with their transaction over |
| Request handler, `middlewares/request.ts` | the context, the processor, what was sent | run the request, send, commit, end; on an error roll back, `next(err)` | the answer tells the fate of the work; every request is answered; nothing is held afterwards |
| Batch handler, `middlewares/batch.ts` | per atom group: context, results, `anyItemProcessedFailed` | validate, arrange by `dependsOn`, run all groups concurrently, end each group's transaction, answer | a group is atomic; dependencies run first; one result per request |
| Migration, `type/migrate.ts` | a configuration row (lock, version), `INIT_DB_CONFIG` in each process, the tables | read, wait for the lock, lock, build, release | who returns has a built schema; the record is true; nobody waits for ever |
| Services and hooks, `type/service.ts`, `type/hooks/` | rows, the hook context and its container | create with deep insert, update, save, delete, find; hooks before, events after | hooks inside the transaction, events outside; children share the parent's fate |
| Processor, `processor/`, `visitor.ts`, `controller.ts`, `server.ts` | resource path, `ctrl`, `prevCtrl`, the result of the last segment, stream flags, `resultCount` | one step per segment of the URL, `$expand`, streaming, actions and functions | a read answers what the URL names, a write reaches one entity once; a stream is well formed and whole; concurrent expands do not disturb one another |
| Query transformation, `type/visitor.ts`, `type/db_helper/` | the column mapping of a service instance | `$filter`, `$orderby`, ... to SQL | the rows that the options name |
| Validation, `type/validate.ts`, `type/decorators/assert.ts` | `rulesCache` | look up or create rules, apply | a payload is refused exactly if it breaks the rules of its own entity and method |
| Dispatch, `odata.ts`; results, `result.ts` | metadata on prototypes, arrays shared along the chain | decorate; choose the method of a request; shape its result | every class serves what it and its ancestors declare; keys reach the parameters they are meant for |
| Metadata and decorators, `edm.ts`, `metadata.ts`, `decorators/`, `type/decorators/` | class metadata written while classes load | build the metadata document | sequential |
| Literals, headers, errors, swagger, logger | none | formatting | pure output |

How they interact: the request handler and every atom group create a
transaction context and hand it to a processor; the processor calls services
and controllers, whose injected query runner comes from
`getOrCreateTransaction(context)`; services call one another (deep insert, with
`Promise.all`) and start event hooks without awaiting them, on the context of
the request or of the atom group; only the two handlers, and hooks that have
outlived them, end a transaction.  JavaScript runs one call chain at a time and may
switch at every `await`, so in all modules **an action is the code between two
awaits**.

The hazards these parts are exposed to are listed, each at its line, in
`PROJECT.json`; those that no property covers yet say why.

## Modules

    Transaction  <--- TransactionProofs
      ^     \_______ INSTANCE (refinement) _____> TransactionContract
      |
    SideChains  <--- RequestHandler
      ^
      +------------- Batch  --------------------> DependsOn <--- DependsOnCases

    RequestHandler, TransactionProofs <--- HandlerProofs
    DependsOnCases <---------------------- DependsProofs
    Batch, TransactionProofs, DependsProofs <--- BatchProofs
    Migrate <----------------------------- MigrateProofs
    Expand <------------------------------ ExpandProofs

    Dispatch <--- Processor <---\
                                 Response <--- ResponseProofs
              ResponseStream <--/
                                 Query, Validation <--- Service <--- ServiceProofs

**Transaction** models `transaction.ts`.  `storage` is `transactionStorage`;
`phase`, `txActive` are the runner's connection and its `isTransactionActive`;
`dbtx` is the database's view of the same transaction, so the two can differ
(another call's COMMIT is on its way, a refused COMMIT rolled back); `wrote`
says whether statements ran inside that transaction or, after its end, on
their own.  `getOrCreateTransaction` is `GetHit`, or `GetMiss`, `Connect`,
`Begin` with `OpenFails` for an await that rejects.  Commit and rollback differ
only in the fate: `EndMiss` (no entry), `EndReleased`, `EndNotStarted`
(typeorm's error), or `EndCall`, `EndAnswered`, `Release`, `Delete` and, when
the database refuses, `EndCallRefused`, `EndThrows`.  `Disciplined` is an
assumption about callers, that the users of one context take turns and stop
when its transaction is over; the store does not enforce it.

**TransactionContract** is what a context promises: open once, work while open,
end once, and the work is kept exactly if the end is a commit.  `Transaction`
defines the mapping: the fate of a context is that of the runner that began for
it; work outside a transaction counts as kept, whatever the fate.

**SideChains** extends `Transaction` with the call chains that services start on
the context of the chain that called them: the children of a deep insert
(`Promise.all` in `_deepInsert`) and event hooks (`executeHooks`, not awaited).
Each asks for the context's runner (`ContextOf`), works on it, returns or fails;
a hook that outlives its request or group may end the transaction it finds
itself in, as the comment of `getOrCreateTransaction` asks (`ChainEnds`).
Children that insert children of their own are left out.

**RequestHandler** is the handler of `request.ts`.  A request, its context and its
call chain share a name.  `step` is the handler's position, `told` what its client
has been sent: a body goes out before COMMIT (`Reply`), an empty answer after it
(`Finish`), and the error handler answers only who has been sent nothing
(`AfterRollback`, `res.headersSent`).  It does not assume `Disciplined`: how far
the handler behaves so is a result.

**Batch** is the handler of `batch.ts`; a group, its context and its call chain
share a name; `Groups` are those of the batch, which need not be all there could be.
The order of the requests is `DependsOn`'s.  `results` holds one
record per answer, as `groupResults`.  The services of a request start side chains
on the group's context: `awaited` are the children its `Promise.all` waits for,
and a request that fails leaves them, and its hooks, running (`RequestFails`).  The
history variable `late` says that side chains were running when the group was
ended; the properties are about what those cannot change, and say what they can.

**DependsOn** is `checkDependsOnIsValid` and `groupDependsOn` with graphlib's
`findCycles` and `components` as pure operators.  Ids are the strings of natural
numbers and are modelled as those numbers; JavaScript enumerates such keys in
ascending order, on which the order of the components depends.  The depth-first
search of `components` is iterated a node at a time (`Turn`, as often as `Turns`
counts) rather than recursive, with the calls that are still to come in `todo`.
**DependsOnCases** receives each atom group of a set and rejects, refuses or
arranges it.

**Migrate** is `migrate` with its configuration row.  Calls run in processes;
the calls of a process share `init`, its `INIT_DB_CONFIG` object, as long as
`getDBConfiguration` returned that object itself (`shared`); otherwise each has
its own `config`.  `Installed` is the version each database was migrated to
before, `Local` that of a call's entities: calls may upgrade, install, or still be
of an old version.

**Expand** is `$expand` in `processor.ts`: `Convert` is `__convertEntity` of one
entity, and a slot `<<e, n>>` is its `__include` of navigation n, resolved with
what the service returned (`IncludeInline`), by a method of the controller
(`IncludeByMethod`) or by a read of the target's controller (`IncludeByRead`,
`Read`, `Compose`).  All slots share `ctrl`, and the slots of one navigation its
include object: `includeStream` is `include.stream`, `includeFilter` what
`__read` leaves in `include.query.$filter`.  Rows are abstracted to the entities
they belong to, a query to the entities whose keys it fixes.  Methods return
their rows or write them and end the stream before they return; nested `$expand`,
reads whose method returns a stream (`processor.ts:1132`) and `prevCtrl`, which is
saved and restored beside `ctrl`, are left out.

**Dispatch** loads the classes of a server: each step runs one decorator
(`odataMethodFactory`, `odata.key`), which reads metadata along the prototype
chain (`GetMetadata`) and writes into an array that may be an ancestor's
(`arrays`, `methodsOf`).  `FindODataMethod` ranks the methods as
`findODataMethod` tries them, `AssignKeys` is the renaming of the URL's keys to
parameters that every caller repeats.

**Processor** makes navigation parts of the segments of a URL (`Visit`,
`PushStages`), and works them off, an action per kind of segment as
`__EntitySetName`, `__EntityCollectionNavigationProperty` and the others are
functions; `stage` is the segment that has been done, `result` what it left,
`calls` the controller methods called so far with their parameters; `instance` is
the controller of `this.instance`, which a navigation method leaves as it was when
it sets `ctrl`, and on which bound operations are looked up.  A `$count` is
answered as the verb answers any result (`Count`): a POST of it is a Created
without an id, on which the last function of the workflow throws or emits `error`
(`Finish`).  The stage of
a navigation to one entity gives the foreign key to its part (`Read`), where a
property behind it finds it.  `IsPath` says what the parser accepts, by the types
that it follows along the URL (`TypeAfter`).  Methods return what the database holds.  `Addressed` is what the URL names,
segment by segment, without controllers.

**ResponseStream** is the Transform side of `ODataProcessor` between a method
that writes rows and the client: `_transform` (`TransformObject`, `Converted`),
`_flush` (`Flush`), the buffers and the pause of `request.ts` (`Forward`,
`ClientReads`), and what the method's stage waits for (`exec`).  Rows, counts
and punctuation are tokens; `Document` is the answer a script of chunks should
get.  **Response** composes the two: a stage of `Processor` whose method streams
waits until `ResponseStream` resolves it, and the request is answered by both.  `Heard` says that a stage's listener is there
to take an error the processor emits, `AfterAnswer` that a conversion nobody
awaited fails when the listeners have gone.

**Query** translates the options of a query to a statement (`transformFilterAst`,
`transformQueryAst`, `buildSQL`); a WHERE expression stays the flat sequence of
conditions, connectives and parentheses it is written as, and `IsTrue` reads it by
SQL's precedence.  `Filters` is the set of the nodes of all filters, so that what
recurs over a filter is a function.  `Holds`, `Matching` and `IsPage` say what the options mean without
SQL.  **Validation** is the rules of a column (`columnToValidateRule`) and the
payloads they refuse.  **Service** has the calls of typed services that overlap
at their awaits: `pc` is where a call is, `trace` the hooks, statements and
events in the order they happened, `rulesCache` and `mapper` what calls share.
The children of a deep insert are calls too, named by the path to them: the
parent's, the navigation and a number.  `Bodies` are the payloads, each with the
bodies of its navigations.

The `MC*` modules give the constants values for TLC.  Operators commented
"Mutant" are deliberate bugs, in no next-state relation; `PROJECT.json` says
which property each of them breaks.

## What the runs show

| run | instance | result |
|---|---|---|
| services_together | 1 context, 2 chains that only open and write | `SingleTransaction` is violated: two transactions for one context |
| requests | 2 requests, 2 runners, pool of 1, connect and end may fail | what the client was sent is true, but for a body sent before a COMMIT that is refused; nothing is held after it, the store keeps its contract, every request is answered unless a ROLLBACK failed |
| request_chains | 1 request, 2 children, 2 events, 3 runners, pool of 2, children may be refused and START TRANSACTION may fail | nothing is used before its transaction began; the handler's own work has the fate it tells; children share the transaction until one fails |
| depends_on | all groups of 2 or 3 requests over eight kinds of `dependsOn`, groups of 4 with up to two dependencies each | each request runs once, but for those the code drops; groups are independent, refused means impossible, forests run in order |
| depends_on_order | all pairs of requests | `DependencyRunsFirst` is violated |
| batch | a chain of 3 requests beside 1, a refused group beside 2 requests, a bare request; a request with 2 children alone, beside a group that waits and beside a refused one; 2 requests with a hook; fast-fail or not, 3 runners, pool of 1, children, connect and end may fail | all that runs while a group is served shares its fate, and what escapes it is a chain that was running at its end; groups that are done hold nothing but for such chains; each request has its result; fast-fail starts nothing more; the batch and all groups end, unless a connection is kept for ever |
| migrate | 3 processes, 4 calls: two upgrade a database from version 1 to 2, one of their processes installs a second database, one call is still of version 1; failures, 1 crash | returned means migrated, the record is never ahead, no schema is built for older entities than before, every call ends |
| migrate_two_databases | 1 process, 2 databases | `ReturnedMeansMigrated` is violated: the second database is skipped |
| expand | streamed or array responses of 1 or 2 entities, 1 or 2 navigations resolved in any way | each entity gets its own rows, the response ends |
| expand_options | 2 entities of an array, one navigation with options | `OwnExpansion` is violated: the second entity gets no rows |
| response | 3 servers (typed services; controllers with compound keys, renamed keys, navigation, property, `$value` and `$ref` methods; one that streams), 237 requests, 2 databases, 10 scripts of up to 3 chunks written in 4 ways, buffers of 2 tokens | decorators stay local; reads answer what is named; a write reaches the named entity once, with its keys; streamed rows arrive in order and whole; `$count` is right; every request is answered |
| service | 57 finds on up to 4 rows, 12 single writes and reads, 64 pairs of writes, 4 pairs with finds, 9 deep inserts, 3 of them beside another, 12 hooks, a cache that may forget at any time | find answers what is asked; refused means invalid; hooks and events keep their places; deep inserts are linked; every call settles |

The four violations are the `findings` of `PROJECT.json`; each quotes the
sentence of the repository that the code does not keep.

*Bounds.*  Two contexts and two chains are what an interference between two
users of the store takes; a pool of one connection makes every second user
wait.  Runners bound behaviours, as each is opened once: a context needs one,
and one more in an instance lets a failed `connect()` be tried again or a second
transaction be opened where it must not be.  Three requests with one dependency
chain are the least in which the order of ids and of dependencies differ
without a violation; four make a diamond.  `Tries` is the 3 of `migrate.ts`;
one crash with restart leaves the lock behind and lets the same calls come
back.  Two entities and two
navigations are the least that share a processor and an include object; arrays
of two entities with two reads each are left out for their number of states.
The instance of expand also leaves out what the code does not keep apart:
methods that write to the stream for an array of entities, options without a
`$filter` for several entities, reads inside a streamed response (see below).
In response three chunks are what it takes for a row, a separator and the next
row to wait in different buffers, and buffers of two tokens fill and drain
within one answer; navigations of up to three segments put a read before a read
before a write.  In service two overlapping calls are enough for what calls
share, a row, a cache entry or a mapping; deep inserts go two levels down.
In batch two children of one request are the least of which one can fail and the
other outlive the group, and keep the only connection when another group waits; a
hook of a group of two requests can outlive the request that started it, or the
group.  Three runners are one of each group and one of a chain that comes too late
or of a second attempt.  In migrate two calls of the new version race for the lock,
and the call of the old one may come before, between or after them; two calls of
one process that share `INIT_DB_CONFIG` are in migrate_two_databases.
Symmetry is used only where no liveness is checked: of the children and of the
events in request_chains.  The name of a new runner makes no difference, so
`NewRunner` takes one.

*Deadlock* is not checked: in requests and batch a refused ROLLBACK or COMMIT, or a
chain that outlives its group, really leaves others waiting for ever, request_chains
and batch run out of runners, and the other instances stop when their work is over.
That nobody waits for ever is what the liveness properties say.

*Fairness.*  A settled promise runs its continuation, the event loop starves
nobody, the database answers what was sent and a free connection goes to
whoever waits: weak fairness of each chain's steps and of the answers it waits
for.  Failures (`OpenFails`, a refused COMMIT) are owed to nobody, so no
liveness property holds only because something finally fails.  Services and
hooks, and the methods that expand, are assumed to return.  In Migrate a call
runs on, a crash is never owed.  In response and service one process works off
finitely many steps; it takes one as long as it can, and the client goes on
reading.

## What is proved

Of the store, for every set of contexts, chains and runners, every pool size and
any faults:

| theorem | module | states | of callers |
|---|---|---|---|
| `TypeCorrect` | TransactionProofs | `Spec => []TypeOK` | any |
| `IsolationHolds` | TransactionProofs | `Spec => []Isolation` | any |
| `BegunBeforeUseHolds` | TransactionProofs | `Spec => []BegunBeforeUse` | any |
| `ReleasedIsOverHolds` | TransactionProofs | `Spec => []ReleasedIsOver` | any |
| `SingleTransactionHolds` | TransactionProofs | `Spec => []SingleTransaction` | disciplined |
| `ForgetOnlyReleasedHolds` | TransactionProofs | `Spec => ForgetOnlyReleased` | disciplined |
| `NoLostConnectionHolds` | TransactionProofs | `Spec => []NoLostConnection` | disciplined, and START TRANSACTION is never refused |
| `ImplementsContractHolds` | TransactionProofs | `Spec => ImplementsContract` | disciplined |

Their assumptions on the constants are that `None` is neither a runner nor a
context.  That the discipline is needed is what services_together shows; that
`"begin"` must not fail, the first of the known behaviours below.

The properties of any callers are not inductive: that a released runner's
transaction is over depends on what a task has in its hands between the answer
to its COMMIT and the release, which depends on which runner it took, and so
on.  `IInv` strengthens them: a task that is opening a transaction has a runner
nobody else has (`OpenersAlone`), what is stored or handed out belongs to its
context and has begun (`StoredShape`, `HandedShape`), and who is past an
accepted COMMIT has a runner whose transaction is over (`EndersOver`).  One
lemma per action shows that it keeps each conjunct, `NextInv` puts them
together, and the theorems follow by `PTL`.

`DInv` adds what taking turns buys: one call at a time is under way on a context
(`TakeTurns`), a transaction that began is the stored one or is over
(`BegunKnown`), none has begun while one is being opened (`OpenersFresh`), and
who ends a transaction holds the stored runner until the entry is deleted
(`EndersKnown`).  Without `BegunKnown` a forgotten open transaction would let a
second one begin; without `EndersKnown` a deletion could forget another
runner.  The refinement needs one more fact, that no statement ran outside a
transaction (`WroteInside`): then `Begin` is `Open`, `Write` is `Work`, an
accepted end (or a refused COMMIT that rolled back) is `Finish`, and everything
else is a stutter.

Of the request handler and the batch handler, for every number of requests,
children, hooks and groups, every pool size and any faults, and of the migration
for every number of processes, calls and databases:

| theorem | module | states | assuming |
|---|---|---|---|
| `HandlerRefinesStore` | HandlerProofs | `HandlerSpec => Spec` | |
| `HandlerTypeCorrect` | HandlerProofs | `HandlerSpec => []HandlerTypeOK` | |
| `HandlerBegunBeforeUse` | HandlerProofs | `HandlerSpec => []BegunBeforeUse` | |
| `HandlerReleasedIsOver` | HandlerProofs | `HandlerSpec => []ReleasedIsOver` | |
| `HandlerKeepsItsWordHolds` | HandlerProofs | `HandlerSpec => []HandlerKeepsItsWord` | |
| `ChildrenShareTransactionHolds` | HandlerProofs | `HandlerSpec => []ChildrenShareTransaction` | |
| `GroupIsAtomicHolds` | BatchProofs | `BatchSpec => []GroupIsAtomic`, side chains included | |
| `FailureStopsGroupHolds` | BatchProofs | `BatchSpec => FailureStopsGroup` | |
| `DoneHoldsNothingHolds` | BatchProofs | `BatchSpec => []DoneHoldsNothing` | START TRANSACTION is never refused |
| `NoDowngradeHolds` | MigrateProofs | `MigrateSpec => NoDowngrade` | `OneUpgrade` |
| `RecordIsNotAheadHolds` | MigrateProofs | `MigrateSpec /\ NoDowngrade => []RecordIsNotAhead` | `OneInstall` |
| `ReturnedMeansMigratedHolds` | MigrateProofs | `MigrateSpec /\ NoDowngrade => []ReturnedMeansMigrated` | `OneInstall` |
| `UpgradeIsRecorded` | MigrateProofs | `MigrateSpec => [](RecordIsNotAhead /\ ReturnedMeansMigrated)` | `OneInstall`, `OneUpgrade` |

None of these assumes `Disciplined`.  `HandlerSpec => Spec` lets the store's
theorems for any callers be used of the handler; the rest rests on `HInv`, which
adds to `IInv`, for each request: its chains call the store for it alone
(`CallsOwn`); while it is worked for, the stored transaction is open
(`OpenWhileWorking`), is the one in the handler's hands (`OwnRunner`) and the one
its children and hooks find (`SideRunners`); while it is being ended the entry
stays, so that hooks find it rather than open another (`EndingRunner`); and what
the handler told the database has come of it (`Fates`).  The proof goes in two
steps: a step of a chain leaves all requests alone that it does not work for
(`StoreFrame`), so `HInv` has to be shown for one request only, action by action.

`BInv` is the same for a group (`GroupInv`): an open transaction while it is
served, with all its statements (`OneOpen`), which its children and hooks find
(`SideRunners`); the fate that `anyItemProcessedFailed` tells when it is ended
(`EndedAsFailed`), which is what the results say (`FailedIsKnown`); an entry that
stays until the end is through, so that side chains find it rather than open
another transaction (`EndingRunner`); connections that only the stored runner or
the one being opened holds (`HeldKnown`), and side chains after the end only in a
group whose end they outlived (`LateChains`).  A step of `Batch` is not always one
of the store, because a request that fails takes its chain out of the call that
threw (`RequestFails`), so `IInv` is shown again for it.

The migration is proved for any versions, installed or not, and any number of
databases per process.  `StepInv` needs no assumption: a call reads only while it
has readings left (`TriesLeft`), only new databases use `INIT_DB_CONFIG`
(`SharedIsNew`), nobody forgets the version that was installed and who builds is
newer (`KnowsInstalled`), so the tables are those installed or of a call that
upgraded (`SchemaIsOfCall`).  Hence `NoDowngrade` if all calls that upgrade a
database are of one version (`OneUpgrade`; calls of old versions may be made beside
them).  `RecordInv` says that no copy of the record, stored or in the memory of a
process, is ahead of the tables (`CopiesNotAhead`), and who has built or found
nothing to build has its tables (`BuiltOrRead`).  It lasts as long as no schema is
built for older entities and a process installs one new database at most
(`OneInstall`; it may upgrade others).  Neither condition can be dropped:
of two new versions started together the older may be built over the newer, and
migrate_two_databases shows two new databases in one process.

**A request that nothing disturbs.**  Hooks that outlive a request may open a
second transaction, and the siblings of a child that failed go on while the
request is rolled back.  `Undisturbed(q)` says that no hook of q has started and
no child of it has failed; children, other requests, the pool and the database
interleave as they like.

| theorem (HandlerProofs) | states | and |
|---|---|---|
| `UndisturbedAnsweredTruly` | `HandlerSpec => [](\A q \in Ctx : Undisturbed(q) => AnswersTruly(q))` | |
| `AnswerIsTrueUntilDisturbed` | `AnswerIsTrue` as long as all are undisturbed | |
| `NothingHeldUntilDisturbed` | `NothingHeldAfterAnswer` as long as all are undisturbed | START TRANSACTION is never refused |
| `UndisturbedTakeTurns` | an undisturbed behaviour of the handler is one of the store with `Disciplined = TRUE` | |
| `UndisturbedSingleTransaction`, `UndisturbedForgetOnlyReleased`, `UndisturbedImplementsContract` | hence `SingleTransaction`, `ForgetOnlyReleased`, `ImplementsContract` | |
| `UndisturbedNoLostConnection` | hence `NoLostConnection` | START TRANSACTION is never refused |

So `Disciplined`, an assumption about callers, is here what the code of
`request.ts` does: `Turns` is TransactionProofs with `Disciplined` true, and every
step of the handler is shown to be one of its steps.  The invariant is `AInv`, `HInv`
and for every undisturbed request: all its statements are in the handler's
transaction (`WrittenInOwn`), and its connections are the stored runner's or are
being opened (`HeldByOwn`).  `ToldAtEnd` says that the empty answer follows the
COMMIT and the error answer the ROLLBACK.  A client that was sent its body before a
COMMIT that is refused keeps it: `AnswersTruly` names that case (`Misled`), and
says that its work is not kept.

**The order of a batch.**

| theorem | module | states |
|---|---|---|
| `RefusedIffNoOrderHolds` | DependsProofs | `DependsSpec => []RefusedIffNoOrder` |
| `EachRunsOnceHolds` | DependsProofs | `DependsSpec => []EachRunsOnce` |
| `GroupsAreIndependentHolds` | DependsProofs | `DependsSpec => []GroupsAreIndependent` |
| `ForestRunsInOrderHolds` | DependsProofs | `DependsSpec => []ForestRunsInOrder` |
| `ResultsInOrder` | BatchProofs | a finished group has one result per request, in the order in which they ran |
| `OneResultEachHolds` | BatchProofs | `BatchSpec => []OneResultEach` |

All are about groups of any length, whose requests depend on any number of others.
A batch is refused exactly if its `dependsOn` has a cycle:
requests on a cycle cannot be ranked (`RefusedHasNoOrder`), and without a
cycle some request of those left depends on none of them (`SomeoneIsFree`), so an
order of k requests continues to k + 1 (`OneMore`).

What runs, and in which order, is the result of a search in a graph.  Induction
over data is out of the provers' reach, induction up to a number is not: the set of
turns after which the invariant of the search holds contains 0 and with each turn
the next one (`Stepwise`, from `NatLessThanWellFounded`).  The invariant is
`Searching`: nothing is listed twice, all that is listed or to be looked at is
connected with the root, what is around a listed node is listed or to be looked at,
and what is to be looked at is no more than the turns left, so that `Turns` of them
are enough.  A component is then the least set around its root that no edge leaves
(`ComponentFacts`), the same for each of its nodes (`SameComponent`), so the
components partition the graph (`ComponentsFacts`) and joining them lists every
request that is not bare once (`RunOrderFacts`).  With one dependency each, on an
earlier request, the least node of a component depends on nothing, and a search
from there has listed a node's dependency before the node comes up (`Dependent`).
The invariant of the batch, `RInv`, says that what a group has answered, followed
by what it has still to run, is that order.

**$expand**, for any number of entities and navigations:

| theorem (ExpandProofs) | states |
|---|---|
| `ExpandTypes` | `ExpandSpec => []ExpandTypeOK` |
| `AloneExpandsOwn` | a navigation whose expansions share nothing gives every entity its own rows, whatever the others of the request do |
| `OwnExpansionHolds` | `ExpandSpec /\ Apart(request) => []OwnExpansion` |
| `CtrlRestoredHolds` | `ExpandSpec => []CtrlRestored` |

`Apart` excludes what the known behaviours below describe: several entities
at a time through an include object that carries their stream or their filter.
`IncludeInv` says that the entities of a streamed response have their turns
(`TurnInv`), that a filter stays in an include object only from an entity that
has read through it (`FilterInv`), that a method holds the stream of its own slot
and what it wrote there is its own (`StreamInv`, `GotInv`), and that only reads change
`ctrl` and a single expansion puts it back (`CtrlInv`).  `CtrlRestored` leaves out
a read that overlaps another expansion of an array, where the code does not restore
it; no run asks for it.

**A streamed response**, for scripts of any length, written in any of the ways,
and buffers of any size:

| theorem (ResponseProofs) | states |
|---|---|
| `StreamTypes` | `ResponseSpec => []StreamTypeOK` |
| `SentInOrderHolds` | `ResponseSpec => []SentInOrder` |
| `NothingLostHolds` | `ResponseSpec => []NothingLost` |
| `CountIsRowsHolds` | `ResponseSpec => []CountIsRows` |
| `CountIsRightHolds` | `ResponseSpec => []CountIsRight` |

The invariant is `ResponseInv`.  What was pushed is what the state of the
transformation says: so many rows and separators (`ProgressInv`, by lengths),
each at its place in `Document` (`DocumentInv`), closed with the count given last
(`CountInv`); the chunks not yet taken are the rest of the script (`InboxInv`).
`EndInv` and `WaitInv` relate `_flush`, the end of the writer and the stage that
waits for it, and `OverInv` says that no stream begins when the response has been
answered; without it the next `StartStream` could replace the script that a
finished answer is compared with.  That a `$count` behind a stream is answered with
its number and never with the stream's silence relates the stages to
`streamEnabled`, which the first stage that streams has set, and that a number
answers a GET alone relates them to the status of the verb (`NumberInv`): a Created
without an id is an error, unless the listener of a stage that streamed is still
there to take it (`Heard`).  `CountedInv` also says that
no `$count` follows a stream that is sent (nothing follows `$value`, in the
grammar of the parser: `IsLast`), and that a result is a stream, or the count
of one, only if one was connected.

**The metadata and the stages of a request**, for every server, URL and database:

| theorem (ResponseProofs) | states |
|---|---|
| `MetadataHolds` | `ResponseSpec => []DispatchInv` |
| `DispatchIsLocalHolds` | `ResponseSpec => []DispatchIsLocal` |
| `RequestHolds` | `ResponseSpec => []RequestInv` |
| `WritesOnceHolds` | `ResponseSpec => []WritesOnce` |
| `KeysFitHolds` | `ResponseSpec => []KeysFit` |

Decorators reach the classes that inherit from theirs and no others, for classes
of any depth.  What the proof needs of a server is in `IsServer`: the chain of an
ancestor is the rest of the chain, what is decorated is a class's own method, and
an ancestor has been decorated before the class that extends it is defined; how
unrelated classes follow one another is free.  `DispatchInv` says who shares an
array while the classes load: the classes below one that declared the method
first, and nobody else (`SharingInv`); so an array holds what those have declared
(`ContentInv`), which with `OverridesRepeat` is what each of them has inherited.
Keys are not shared, and are in the order of their decorators (`KeysInv`).

A write is served by one method, called once, for the last segment of its URL (or
the property before `$value`); all entities on the way are only read, and a write
that is answered without an error has been served, unless there is no method for
its property (`Unserved`).  `WritesOnce` is about calls, of which an invariant has
to know where they come from.  `RequestInv` says that what has been called belongs
to a stage that has run (`StageInv`), that until the last stage has run nothing
has been written, except by the property before `$value`, and that a stage that
streams is a read, so that the last stage of a write cannot be reached by the
end of a stream (`WriteInv`).  No assumption is made on the methods: which one
`findODataMethod` chooses, with which keys, does not matter for it.

The keys of a URL arrive at the parameters they are for, in every method a part can
be served by and on every detour (`KeysFit`).  Three things come together.
Renaming in turn, deleting the old name each time, moves every key as if it were
alone when no two names meet (`RenamedApart`, by induction up to the number of
keys), and merging the keys in again under their own names does not undo it
(`AssignFits`); a method's declared keys are as many as those it was found with,
because `keysOf` is (`FoundKeys`, from `DispatchInv`).  The controller that is asked
is a class of the server: `TypedInv` says that what a stage leaves is of the type
its segment has in the URL (`Follows`, as far as the visitor has come), or of none
when nothing came back, and that a typed segment lies behind a controller, so that
a navigation is never looked up on `undefined`.  And the part whose key a call is
about is the one at work, the one before it (properties, `$value`) or two before
(`$ref`): keys of parts that are done no longer change, so what has been called
stays right (`HeldInv`).  The theorem excludes what `Misnamed` names: two keys
whose names overlap, and parameters that are for no key of the URL.

**Services**, for any entities, hooks, payloads and calls that start together:

| theorem (ServiceProofs) | states |
|---|---|
| `RefusedIffInvalidHolds` | `ClassNamesDiffer` implies `ServiceSpec => []RefusedIffInvalid` |
| `HooksInOrderHolds` | `ServiceSpec => []HooksInOrder` |

`ServiceInv` has three parts.  `CacheKept`: under every key, a class name and a
method, `rulesCache` holds what would be made anew for it, whatever call filled
it.  This needs classes with different names, which nothing in the code enforces:
two entities with one name would check each other's payloads.  `CallKept`: what
a call has done (`trace`), followed by what its place in the code has still to do
(`Rest`, `AfterIt`), is its whole `Course`; `FindHooks` sorts as `Ranked` counts
(`HooksFound`), so the course is the one the registration asks for.  `TreeKept`:
a call of a deep insert was started by a call that has not returned before it,
but for one that has failed.  That nothing below a returned call is still running,
however deep, follows (`ReturnedBelow`) by the shortest path that would refute it.
The assumptions of Service say only that what the constants name exists (the
entity of a navigation, the bodies of a body) and that calls begin as `NewCall`
makes them.

`Undisturbed` and `Apart` restrict behaviours, and the runs have those they leave:
no request of the run requests starts a chain, request_chains has behaviours
before a hook starts and a child fails, and all requests of expand satisfy `Apart`.

*Only model-checked.*  Liveness and everything with ENABLED is out of the
prover's reach.  `FindIsFaithful` is an induction over a filter, and over how `IsTrue` reads the text that
the filter becomes.  `LinkedWhenReturned` holds only for calls that do not undo
each other's work, as those of MCService: another call may delete a child before
its parent returns.
`ReadsWhatIsNamed` and `WritesTheNamed` compare what stages have done with what
`Addressed` makes of the whole URL, and hold under conditions on the methods of the
server (a method that reads with a key declares it under the key of its entity, one
for a navigation returns what is related), which are those of the servers of
MCResponse and not stated as assumptions; they are not proved.

## Known behaviours the properties allow for

The model shows these, and no run asks about them.  Sentences of the repository
speak of two: the comment named below, and the test `src/test/type/batch.spec.ts:97`,
where a failed request leaves "no items" of its group.

- a connection whose `startTransaction()` was refused never comes back
  (`OpenFails` after `Connect`);
- an event hook that asks for the query runner after its request has ended
  opens a second transaction that nobody ends, unless the hook does;
- a client that was sent its body before COMMIT keeps it when the COMMIT is
  refused: its 2xx tells of work that was rolled back (`Misled`);
- children and hooks of an atom group that are still running when it is ended
  write outside its transaction, or open a second one that keeps a connection
  (`late`, `KeptFor`): the row of a sibling of a failed child can so stay although
  its group was rolled back;
- a group whose COMMIT was refused keeps its connection; a batch answered with
  an error may have committed other groups;
- the lock of `migrate` is not exclusive (`BuildersExclude` fails with two
  processes); of two new versions started together the older can be built over the
  newer (`NoDowngrade` fails without `OneUpgrade`), though the comment
  `migrate.ts:95` has no migration performed when the stored version is greater;
- `$expand` of an array by a method that writes to its stream: all methods may be
  handed the stream made last, so one entity gets the rows of all and the others
  wait for ever;
- `$expand` by a read inside a streamed response waits for the end of the
  response it is part of;
- two reads that overlap may leave `ctrl` at the controller of a navigation.

And of a streamed response (`Regular` and `NothingLost` name the exceptions):

- a count that comes alone after a row leaves a separator without an element
  (`processor.ts:644`), a count of 0 is sent as an entity, and `$count` counts
  a count as a row;
- a method that returns its source, or that writes after it has returned, and a
  media stream: rows are lost when the client is slow, because the listeners go
  when the source has ended (`request.ts:110`);
- a writer that returns before its first row is answered 404; a conversion
  that fails with nobody listening ends the process, also after the answer
  (`LateFailure`).

Of reads and writes (`KeyedNavigation`, `EmptyLink`, `Displaced`, `Unserved`,
`ServedTwice`, `FormerInstance`, `IsWriteForm`, `Misnamed`, `OverridesRepeat` name them):

- `Categories(1)/Products(2)` reads product 2 by its key, whatever its category;
  a typed service answers `{}` for a navigation whose foreign key is null;
- the method for a property behind a navigation is looked up on one controller
  and called on the one before; a property or `$value` without any method is
  answered 2xx and not written;
- a method for the `$value` of a property (as those of `example/stream.ts:255`) is
  called twice, by the stage of the property and, without a key, by that of `$value`;
- a write whose URL ends in a type name reads and is answered as its verb answers
  what was read; one that ends in `$count` reads too: a POST (and a PUT of a count
  other than 0) is a Created without an id, hence an error, but a 201 with the
  number if a method has returned the processor, because the listener of its stage
  takes the error; a PATCH or DELETE is a 204;
- of two nested properties the outer one is written;
- an operation bound to a controller is looked up on the instance of the one
  before, when the entity was read by a navigation method (`FormerInstance`);
- a key renamed to a parameter with the name of another key loses a value, and
  keys of a URL that a method does not know are passed under their own names;
- a decorator on an overriding method writes into its ancestor's array.

Of services:

- `not` and method calls in `$filter`: alone there is no WHERE, within `and` or
  `or` the text is `undefined`;
- a find that overlaps the first find of its service gets no column names;
- a rule that expires between `has()` and `get()` makes the request fail;
- a number column accepts integers only, be it a decimal one;
- `findOne` of a view always throws; `save` looks for the row and writes it in
  two steps, so two that overlap may both insert;
- a child to one by the child's foreign key is linked only if the payload has
  the parent's key.

A request with an empty `dependsOn`, on which nobody depends, is dropped when
another request of its group has a dependency (`Bare` in DependsOn).

## Not modelled

The inventory lists all parts; `PROJECT.json` says for each what is left out
and why.  Metadata, swagger, literals, headers, messages and logging are pure
output: they have no state that a step of another part could disturb.  Nested
`$expand`, reads of an expanded navigation whose method returns a stream, children
of children in SideChains (Service has them), `$count` of a collection-valued
property, methods that are generators, the parameters of `$ref`, null in a
filter, the quoting of MySQL and the injection container are left out of the
parts that are modelled.  `ODataServer.execute` serves tests and tools without
the request handler.  typeorm, graphlib, express and node's streams appear as
what the code relies on.

## Plan

1. Model: nested `$expand` in Expand; two requests of Service on one store, to
   join its statements with Transaction.
2. Prove: `LinkedWhenReturned` under a condition on the calls beside the deep insert.
