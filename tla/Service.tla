------------------------------ MODULE Service ------------------------------
(***************************************************************************)
(* The typed services of src/type/service.ts with the hooks of             *)
(* src/type/hooks: calls of create, update, save, delete, find and findOne *)
(* that overlap at their awaits, on one database and one cache of          *)
(* validation rules.  The children of a deep insert are calls of their     *)
(* own, named by the path that leads to them.  What the database does with *)
(* transactions is Transaction's and RequestHandler's matter.              *)
(***************************************************************************)
EXTENDS Query, Validation

CONSTANTS
  Model,      \* entity |-> its decorators: view, className, key, columns, navs, ...
  Hooks,      \* the hooks of the server, in the order they were registered
  Bodies,     \* what clients write: columns, and bodies for navigations
  Scenarios   \* rows of the database and the calls that start together

VARIABLES
  rows,        \* entity |-> key |-> row
  rulesCache,  \* rulesCache of validate.ts
  mapper,      \* _columnNameMappingStore of each service instance
  calls        \* path |-> call

vars == <<rows, rulesCache, mapper, calls>>

With(f, x, v) == [y \in DOMAIN f \cup {x} |-> IF y = x THEN v ELSE f[y]]
Over(f, g) == [x \in DOMAIN f \cup DOMAIN g |-> IF x \in DOMAIN g THEN g[x] ELSE f[x]]

Body(cols, navs) == [cols |-> cols, navs |-> navs]

\* The body is changed by the call (data); sent is what the client wrote.
NewCall(service, op, entity, key, body, query) ==
  [service |-> service, op |-> op, entity |-> entity, key |-> key, sent |-> body,
   data |-> body.cols, query |-> query, pc |-> "called", hooks |-> <<>>,
   running |-> FALSE, left |-> {}, nav |-> "", trace |-> <<>>, found |-> <<>>,
   result |-> <<>>, count |-> None, seen |-> <<>>, counted |-> <<>>,
   mapped |-> TRUE, method |-> ""]

ASSUME ModelAssumption ==
  \A e \in DOMAIN Model : \A n \in DOMAIN Model[e].navs :
    Model[e].navs[n].entity \in DOMAIN Model

ASSUME HooksAssumption ==
  /\ Hooks \in Seq(Range(Hooks))
  /\ \A i \in DOMAIN Hooks : Hooks[i].order \in Int

ASSUME BodiesAssumption ==
  \A body \in Bodies :
    /\ body = Body(body.cols, body.navs)
    /\ \A n \in DOMAIN body.navs : body.navs[n].items \in Seq(Bodies)

ASSUME ScenariosAssumption ==
  \A s \in Scenarios :
    /\ s.calls \in Seq(Range(s.calls))
    /\ \A i \in DOMAIN s.calls :
         LET call == s.calls[i]
         IN /\ call = NewCall(call.service, call.op, call.entity, call.key, call.sent, call.query)
            /\ call.op \in {"create", "update", "save", "delete", "find", "findOne"}
            /\ call.entity \in DOMAIN Model
            /\ call.sent \in Bodies

ServiceInit ==
  \E s \in Scenarios :
    /\ rows = s.rows
    /\ rulesCache = <<>>
    /\ mapper = [i \in {s.calls[c].service : c \in DOMAIN s.calls} |-> "unset"]
    /\ calls = [c \in {<<i>> : i \in DOMAIN s.calls} |-> s.calls[c[1]]]

Settled == {"returned", "refused", "threw"}
At(c, pc) == calls[c].pc = pc
Entity(c) == Model[calls[c].entity]
Table(c) == rows[calls[c].entity]

\* The call becomes what the record says.
Becomes(c, call) == calls' = [calls EXCEPT ![c] = call]
Goto(c, pc) == Becomes(c, [calls[c] EXCEPT !.pc = pc])
Note(call, what, name) == Append(call.trace, [what |-> what, name |-> name])

-----------------------------------------------------------------------------
(* Hooks *)

Supports(hook, entity, type) == hook.entity = entity /\ hook.type = type

\* findHooks: sortBy keeps the order of registration among equals.
FindHooks(entity, type) ==
  LET found == {i \in DOMAIN Hooks : Supports(Hooks[i], entity, type)}
      InOrder(s) == \A m, n \in DOMAIN s :
                      m < n => \/ Hooks[s[m]].order < Hooks[s[n]].order
                               \/ Hooks[s[m]].order = Hooks[s[n]].order /\ s[m] < s[n]
  IN CHOOSE hooks \in {[n \in DOMAIN s |-> Hooks[s[n]]] :
                         s \in {s \in SetToSeqs(found) : InOrder(s)}} : TRUE

BeforeOf == [create |-> "beforeCreate", update |-> "beforeUpdate", delete |-> "beforeDelete"]
AfterOf == [create |-> "afterCreate", update |-> "afterUpdate", delete |-> "afterDelete"]

\* Mutant: hooks are started like events.
StartHookOnly(c) ==
  /\ At(c, "hooks") /\ calls[c].hooks # <<>>
  /\ Becomes(c, [calls[c] EXCEPT !.hooks = Tail(@),
                   !.trace = Note(calls[c], "started", Head(calls[c].hooks).name)])
  /\ UNCHANGED <<rows, rulesCache, mapper>>

\* executeHooks: the next hook is called and awaited.
StartHook(c) ==
  /\ At(c, "hooks") /\ calls[c].hooks # <<>> /\ ~calls[c].running
  /\ Becomes(c, [calls[c] EXCEPT !.running = TRUE,
                   !.trace = Note(calls[c], "started", Head(calls[c].hooks).name)])
  /\ UNCHANGED <<rows, rulesCache, mapper>>

\* The hook resolves; it may have written into the payload.
EndHook(c) ==
  /\ At(c, "hooks") /\ calls[c].running
  /\ LET hook == Head(calls[c].hooks)
     IN Becomes(c, [calls[c] EXCEPT !.running = FALSE, !.hooks = Tail(@),
                      !.trace = Note(calls[c], "ended", hook.name),
                      !.data = Over(@, hook.sets)])
  /\ UNCHANGED <<rows, rulesCache, mapper>>

\* The hook rejects: so does the call.
HookThrows(c) ==
  /\ At(c, "hooks") /\ calls[c].running
  /\ Head(calls[c].hooks).mayThrow
  /\ Goto(c, "threw")
  /\ UNCHANGED <<rows, rulesCache, mapper>>

\* Events are started one after the other and not awaited; what becomes of
\* them is no longer the call's (catch(logger)).
WithEvents(call) ==
  LET events == FindHooks(call.entity, AfterOf[call.op])
  IN call.trace \o [i \in DOMAIN events |-> [what |-> "event", name |-> events[i].name]]

HooksDone(c) == At(c, "hooks") /\ calls[c].hooks = <<>> /\ ~calls[c].running

-----------------------------------------------------------------------------
(* The start of a call *)

\* TypedViewService: findOne asks the promise of its entity type for keys.
ViewThrows(c) ==
  /\ At(c, "called") /\ Entity(c).view
  /\ calls[c].op \in {"create", "update", "delete", "findOne"}
  /\ Goto(c, "threw")
  /\ UNCHANGED <<rows, rulesCache, mapper>>

\* save looks for the row; update or create follows.
Save(c) ==
  /\ At(c, "called") /\ calls[c].op = "save"
  /\ Becomes(c, [calls[c] EXCEPT
       !.op = IF calls[c].key # None /\ calls[c].key \in DOMAIN Table(c)
                THEN "update" ELSE "create"])
  /\ UNCHANGED <<rows, rulesCache, mapper>>

\* Literal.convert of the columns the client sent.
Inbound(entity, cols) ==
  [p \in DOMAIN cols |->
     CASE entity.columns[p].edm = "Edm.DateTimeOffset" ->
            [kind |-> "date", n |-> Epoch(cols[p].n)]
       [] entity.columns[p].edm = "Edm.Decimal" -> [cols[p] EXCEPT !.kind = "string"]
       [] OTHER -> cols[p]]

\* applyValidate with the rules of the cache, or with new ones that go into
\* it; then the payload is transformed and the hooks are next.
Validate(c) ==
  /\ At(c, "called") /\ ~Entity(c).view /\ calls[c].op \in {"create", "update"}
  /\ \E method \in {IF calls[c].op = "create" THEN "POST" ELSE "PATCH"} :
     \E key \in {RulesKey(Entity(c), method)} :
     \E rules \in {IF key \in DOMAIN rulesCache THEN rulesCache[key]
                   ELSE RulesOf(Entity(c), method)} :
       /\ rulesCache' = With(rulesCache, key, rules)
       /\ IF Messages(Entity(c), rules, calls[c].data, calls[c].sent.navs) # {}
            THEN Becomes(c, [calls[c] EXCEPT !.pc = "refused", !.method = method])
            ELSE Becomes(c, [calls[c] EXCEPT !.pc = "hooks", !.method = method,
                   !.data = Inbound(Entity(c), @),
                   !.hooks = FindHooks(calls[c].entity, BeforeOf[calls[c].op])])
  /\ UNCHANGED <<rows, mapper>>

\* The entry expires between has() and get(): there is nothing to take the
\* rules from.
ValidateThrows(c) ==
  /\ At(c, "called") /\ ~Entity(c).view /\ calls[c].op \in {"create", "update"}
  /\ \E key \in DOMAIN rulesCache :
       /\ key = RulesKey(Entity(c), IF calls[c].op = "create" THEN "POST" ELSE "PATCH")
       /\ rulesCache' = Restrict(rulesCache, DOMAIN rulesCache \ {key})
  /\ Goto(c, "threw")
  /\ UNCHANGED <<rows, mapper>>

\* node-cache forgets an entry after its stdTTL.
Expire(key) ==
  /\ key \in DOMAIN rulesCache
  /\ rulesCache' = Restrict(rulesCache, DOMAIN rulesCache \ {key})
  /\ UNCHANGED <<rows, mapper, calls>>

StartDelete(c) ==
  /\ At(c, "called") /\ ~Entity(c).view /\ calls[c].op = "delete"
  /\ Becomes(c, [calls[c] EXCEPT !.pc = "hooks",
                   !.hooks = FindHooks(calls[c].entity, "beforeDelete")])
  /\ UNCHANGED <<rows, rulesCache, mapper>>

-----------------------------------------------------------------------------
(* Statements that write *)

Stored(entity, data) ==
  [p \in DOMAIN entity.columns |-> IF p \in DOMAIN data THEN data[p].n ELSE None]

FreshKey(table) == CHOOSE k \in 1 .. Cardinality(DOMAIN table) + 1 : k \notin DOMAIN table

\* repo.insert: the database gives the key when the payload has none.
Insert(c) ==
  /\ HooksDone(c) /\ calls[c].op = "create"
  /\ \E k \in {IF Entity(c).key \in DOMAIN calls[c].data
                 THEN calls[c].data[Entity(c).key].n ELSE FreshKey(Table(c))} :
       IF k \in DOMAIN Table(c)
         THEN Goto(c, "threw") /\ UNCHANGED rows
         ELSE /\ rows' = [rows EXCEPT ![calls[c].entity] =
                   With(@, k, [Stored(Entity(c), calls[c].data) EXCEPT ![Entity(c).key] = k])]
              /\ Becomes(c, [calls[c] EXCEPT !.pc = "navigations", !.key = k,
                   !.left = DOMAIN calls[c].sent.navs \cap DOMAIN Entity(c).navs,
                   !.trace = Note(calls[c], "statement", "insert")])
  /\ UNCHANGED <<rulesCache, mapper>>

\* repo.update and the events; a row that is not there is not missed.
Update(c) ==
  /\ HooksDone(c) /\ calls[c].op = "update"
  /\ rows' = [rows EXCEPT ![calls[c].entity] =
       [k \in DOMAIN @ |-> IF k # calls[c].key THEN @[k]
                           ELSE Over(@[k], [p \in DOMAIN calls[c].data |-> calls[c].data[p].n])]]
  /\ \E trace \in {Note(calls[c], "statement", "update")} :
       Becomes(c, [calls[c] EXCEPT !.pc = "returned",
                     !.trace = WithEvents([calls[c] EXCEPT !.trace = trace])])
  /\ UNCHANGED <<rulesCache, mapper>>

Delete(c) ==
  /\ HooksDone(c) /\ calls[c].op = "delete"
  /\ rows' = [rows EXCEPT ![calls[c].entity] = Restrict(@, DOMAIN @ \ {calls[c].key})]
  /\ \E trace \in {Note(calls[c], "statement", "delete")} :
       Becomes(c, [calls[c] EXCEPT !.pc = "returned",
                     !.trace = WithEvents([calls[c] EXCEPT !.trace = trace])])
  /\ UNCHANGED <<rulesCache, mapper>>

-----------------------------------------------------------------------------
(* _deepInsert: the navigations of the payload, one after the other *)

\* The loop is at the navigation nav; those left come after it.
NavOf(c, n) == Entity(c).navs[n]
ItemsOf(c, n) == calls[c].sent.navs[n].items
Children(c, n) == {c \o <<n, i>> : i \in DOMAIN ItemsOf(c, n)}

WithColumn(body, column, n) ==
  [body EXCEPT !.cols = With(@, column, [kind |-> "integer", n |-> n])]

\* Mutant: the key of the parent is not written into its children.
ChildBodyAsSent(c, n, item) == item

\* The foreign key in the child; for a navigation to one it comes from the
\* payload, which a generated key is not part of.
ChildBody(c, n, item) ==
  LET nav == NavOf(c, n)
  IN CASE nav.type = "OneToMany" ->
            WithColumn(item, nav.targetForeignKey, calls[c].key)
       [] /\ nav.type = "OneToOne" /\ nav.targetForeignKey # None
          /\ Entity(c).key \in DOMAIN calls[c].data ->
            WithColumn(item, nav.targetForeignKey, calls[c].data[Entity(c).key].n)
       [] OTHER -> item

CannotLink(c, n) ==
  \/ NavOf(c, n).foreignKey = None /\ NavOf(c, n).targetForeignKey = None
  \/ NavOf(c, n).type = "OneToMany" /\ ~calls[c].sent.navs[n].isArray

\* All children of the first navigation that is left are created at once,
\* each by its entity's service.
InsertChildren(c) ==
  /\ At(c, "navigations")
  /\ \E n \in calls[c].left :
       /\ \A i, j \in DOMAIN Entity(c).navOrder :
            Entity(c).navOrder[j] = n /\ i < j => Entity(c).navOrder[i] \notin calls[c].left
       /\ IF CannotLink(c, n) THEN Goto(c, "threw")
          ELSE calls' = Over([calls EXCEPT ![c] = [calls[c] EXCEPT !.pc = "joining",
                                                     !.nav = n, !.left = @ \ {n}]],
                             [d \in Children(c, n) |->
                                NewCall("own", "create", NavOf(c, n).entity, None,
                                        ChildBody(c, n, ItemsOf(c, n)[d[Len(d)]]), None)])
  /\ UNCHANGED <<rows, rulesCache, mapper>>

\* The children are in: the parent's own foreign key, if it has one, is
\* written with a second statement.
Join(c) ==
  /\ At(c, "joining")
  /\ \E n \in {calls[c].nav} :
       /\ \A d \in Children(c, n) : At(d, "returned")
       /\ rows' = IF NavOf(c, n).type = "OneToMany" \/ NavOf(c, n).foreignKey = None THEN rows
                  ELSE [rows EXCEPT ![calls[c].entity] =
                          [k \in DOMAIN @ |->
                             IF k # calls[c].key THEN @[k]
                             ELSE [@[k] EXCEPT ![NavOf(c, n).foreignKey] =
                                                 calls[c \o <<n, 1>>].key]]]
  /\ Goto(c, "navigations")
  /\ UNCHANGED <<rulesCache, mapper>>

\* Mutant: the parent waits for all children to fail.
JoinThrowsLast(c) ==
  /\ At(c, "joining")
  /\ \A d \in Children(c, calls[c].nav) : calls[d].pc \in {"refused", "threw"}
  /\ Goto(c, "threw")
  /\ UNCHANGED <<rows, rulesCache, mapper>>

\* The first child that fails; its siblings go on.
JoinThrows(c) ==
  /\ At(c, "joining")
  /\ \E d \in Children(c, calls[c].nav) : calls[d].pc \in {"refused", "threw"}
  /\ Goto(c, "threw")
  /\ UNCHANGED <<rows, rulesCache, mapper>>

\* create: nothing is left to insert.
Created(c) ==
  /\ At(c, "navigations") /\ calls[c].left = {}
  /\ Becomes(c, [calls[c] EXCEPT !.pc = "returned", !.trace = WithEvents(calls[c])])
  /\ UNCHANGED <<rows, rulesCache, mapper>>

-----------------------------------------------------------------------------
(* find and findOne *)

ColumnsMapped(entity) == [p \in DOMAIN entity.columns |-> p]
NoColumns(entity) == [p \in DOMAIN entity.columns |-> None]

\* Loaded rows go through the afterLoad hooks, no rows through none.
Loaded(c, call) ==
  Becomes(c, IF call.found = <<>> THEN [call EXCEPT !.pc = "returned"]
             ELSE [call EXCEPT !.pc = "hooks",
                               !.hooks = FindHooks(call.entity, "afterLoad")])

FindOne(c) ==
  /\ At(c, "called") /\ calls[c].op = "findOne" /\ ~Entity(c).view
  /\ CASE calls[c].key = None -> Goto(c, "returned")
       [] calls[c].key # None /\ calls[c].key \notin DOMAIN Table(c) -> Goto(c, "threw")
       [] OTHER -> Loaded(c, [calls[c] EXCEPT !.found = <<calls[c].key>>,
                                !.trace = Note(calls[c], "statement", "select")])
  /\ UNCHANGED <<rows, rulesCache, mapper>>

\* find without a query: repo.find().
FindAll(c) ==
  /\ At(c, "called") /\ calls[c].op = "find" /\ calls[c].query = None
  /\ \E found \in SetToSeqs(DOMAIN Table(c)) :
       Loaded(c, [calls[c] EXCEPT !.found = found, !.seen = Table(c),
                    !.trace = Note(calls[c], "statement", "select")])
  /\ UNCHANGED <<rows, rulesCache, mapper>>

\* createColumnMapper: whoever comes first stores an empty mapping, awaits
\* the connection and fills it; whoever comes next takes what is stored.
CreateColumnMapper(c) ==
  /\ At(c, "called") /\ calls[c].op = "find" /\ calls[c].query # None
  /\ IF mapper[calls[c].service] = "unset"
       THEN /\ mapper' = [mapper EXCEPT ![calls[c].service] = "filling"]
            /\ Goto(c, "mapping")
       ELSE Goto(c, "querying") /\ UNCHANGED mapper
  /\ UNCHANGED <<rows, rulesCache>>

FillColumnMapper(c) ==
  /\ At(c, "mapping")
  /\ mapper' = [mapper EXCEPT ![calls[c].service] = "filled"]
  /\ Goto(c, "querying")
  /\ UNCHANGED <<rows, rulesCache>>

StatementsOf(c) ==
  buildSQL(Entity(c), calls[c].query,
           IF mapper[calls[c].service] = "filled" THEN ColumnsMapped(Entity(c))
           ELSE NoColumns(Entity(c)))

\* $search is not implemented; what has no name is refused by the database,
\* or taken for a text that no row holds.
QueryThrows(c) ==
  /\ At(c, "querying")
  /\ calls[c].query.search \/ ~CanAnswer(StatementsOf(c).queryStatement)
  /\ \E pc \in {"threw"} \cup (IF mapper[calls[c].service] = "filled" THEN {} ELSE {"returned"}) :
       Becomes(c, [calls[c] EXCEPT !.pc = pc,
                     !.mapped = mapper[calls[c].service] = "filled",
                     !.trace = IF pc = "threw" THEN @ ELSE Note(calls[c], "statement", "select")])
  /\ UNCHANGED <<rows, rulesCache, mapper>>

\* The call with the rows found, as the statement returns them.
Queried(c, statement, found) ==
  [calls[c] EXCEPT
     !.found = found, !.seen = Table(c),
     !.result = [i \in DOMAIN found |-> Project(statement, Table(c)[found[i]])],
     !.mapped = mapper[calls[c].service] = "filled",
     !.trace = Note(calls[c], "statement", "select")]

\* helper.buildSQL and repo.query.
Find(c) ==
  /\ At(c, "querying") /\ ~calls[c].query.search
  /\ \E sql \in {StatementsOf(c)} :
       /\ CanAnswer(sql.queryStatement)
       /\ \E found \in Answers(sql.queryStatement, Table(c)) :
            IF sql.countStatement # None
              THEN Becomes(c, [Queried(c, sql.queryStatement, found) EXCEPT !.pc = "counting"])
              ELSE Loaded(c, Queried(c, sql.queryStatement, found))
  /\ UNCHANGED <<rows, rulesCache, mapper>>

\* The count is a statement of its own: the rows may have changed.
Count(c) ==
  /\ At(c, "counting")
  /\ \E total \in {Cardinality(Selected(StatementsOf(c).countStatement, Table(c)))} :
       Loaded(c, [calls[c] EXCEPT !.count = total, !.counted = Table(c)])
  /\ UNCHANGED <<rows, rulesCache, mapper>>

\* The afterLoad hooks have resolved.
Answer(c) ==
  /\ HooksDone(c) /\ calls[c].op \in {"find", "findOne"}
  /\ Goto(c, "returned")
  /\ UNCHANGED <<rows, rulesCache, mapper>>

-----------------------------------------------------------------------------
CallStep(c) ==
  \/ ViewThrows(c) \/ Save(c) \/ Validate(c) \/ ValidateThrows(c) \/ StartDelete(c)
  \/ StartHook(c) \/ EndHook(c) \/ HookThrows(c)
  \/ Insert(c) \/ Update(c) \/ Delete(c)
  \/ InsertChildren(c) \/ Join(c) \/ JoinThrows(c) \/ Created(c)
  \/ FindOne(c) \/ FindAll(c) \/ CreateColumnMapper(c) \/ FillColumnMapper(c)
  \/ QueryThrows(c) \/ Find(c) \/ Count(c) \/ Answer(c)

ServiceNext ==
  \/ \E c \in DOMAIN calls : CallStep(c)
  \/ \E key \in DOMAIN rulesCache : Expire(key)

\* Promises that are settled run their continuations, the database answers,
\* and hooks resolve or reject.  Behaviours are finite.
ServiceSpec == ServiceInit /\ [][ServiceNext]_vars /\ WF_vars(ServiceNext)

-----------------------------------------------------------------------------
(* Properties *)

\* What the processor reads an expanded navigation by (__include): the key
\* for the many, else the foreign key in the row.
ReadBy(entity, expand) ==
  {IF entity.navs[n].type = "OneToMany" THEN entity.key ELSE entity.navs[n].foreignKey :
     n \in {n \in expand : \/ entity.navs[n].type = "OneToMany"
                           \/ entity.navs[n].foreignKey # None}}

\* find returns the rows the query names, in their order, with the columns
\* it selects and those that its expansions are read by, and counts what
\* matches whatever is paged: when the filter is made of comparisons, and, or
\* and parentheses, and no overlapping find of the same service instance is
\* still filling the column mapping.
FindIsFaithful ==
  \A c \in DOMAIN calls :
    LET call == calls[c]
        q == call.query
    IN /\ call.op = "find" /\ q # None /\ call.mapped
       /\ call.pc \in {"hooks", "returned", "threw"}
       /\ q.filter # None => Supported(q.filter)
       => IF q.search THEN call.pc = "threw"
          ELSE /\ IsPage(call.found, q, call.seen)
               /\ \A i \in DOMAIN call.found :
                    call.result[i] =
                      [p \in IF q.select = {} THEN DOMAIN Entity(c).columns
                             ELSE q.select \cup ReadBy(Entity(c), q.expand) |->
                         call.seen[call.found[i]][p]]
               /\ call.count = IF q.count THEN Cardinality(Matching(q, call.counted))
                               ELSE None

\* A payload is refused as a bad request exactly if it breaks the rules of
\* its own entity for its own method, whichever payloads filled the cache
\* before and whenever it forgets.
RefusedIffInvalid ==
  \A c \in DOMAIN calls :
    calls[c].method # "" =>
      (At(c, "refused")
         <=> Messages(Entity(c), RulesOf(Entity(c), calls[c].method),
                      calls[c].sent.cols, calls[c].sent.navs) # {})

\* The names of the hooks of an entity and a type, by their order and then as
\* registered.
Ranked(entity, type) ==
  LET found == {i \in DOMAIN Hooks : Hooks[i].entity = entity /\ Hooks[i].type = type}
      Rank(i) == Cardinality({j \in found : \/ Hooks[j].order < Hooks[i].order
                                            \/ Hooks[j].order = Hooks[i].order /\ j <= i})
  IN [n \in 1 .. Cardinality(found) |-> Hooks[CHOOSE i \in found : Rank(i) = n].name]

Entries(what, names) == [i \in DOMAIN names |-> [what |-> what, name |-> names[i]]]
Awaited(names) ==
  [i \in 1 .. 2 * Len(names) |->
     [what |-> IF i % 2 = 1 THEN "started" ELSE "ended", name |-> names[(i + 1) \div 2]]]

Course(call) ==
  CASE call.op \in {"create", "update", "delete"} ->
         Awaited(Ranked(call.entity, BeforeOf[call.op]))
           \o Entries("statement", <<IF call.op = "create" THEN "insert" ELSE call.op>>)
           \o Entries("event", Ranked(call.entity, AfterOf[call.op]))
    [] call.op \in {"find", "findOne"} /\ (call.op = "find" \/ call.key # None) ->
         Entries("statement", <<"select">>)
           \o IF call.found = <<>> THEN <<>> ELSE Awaited(Ranked(call.entity, "afterLoad"))
    [] OTHER -> <<>>

\* Around its statement a call runs the hooks of its entity and operation in
\* their order, each resolved before the next and all before the statement
\* that they come before; events start when the statement, and every child
\* of a deep insert, is done, and none is missing once the call has returned.
HooksInOrder ==
  \A c \in DOMAIN calls :
    /\ IsPrefix(calls[c].trace, Course(calls[c]))
    /\ At(c, "returned") =>
         /\ calls[c].trace = Course(calls[c])
         /\ \A d \in DOMAIN calls :
              Len(d) > Len(c) /\ IsPrefix(c, d) => At(d, "returned")

\* The children that call c has inserted for its navigation n.
ChildrenOf(c, n) ==
  {d \in DOMAIN calls : Len(d) = Len(c) + 2 /\ IsPrefix(c, d) /\ d[Len(c) + 1] = n}

\* When a deep insert returns, every entity of its payload has a row of its
\* own, and parent and child are joined by the foreign keys the navigation
\* is declared with (but for a navigation to one by a key of the child, when
\* the database made the parent's key).
LinkedWhenReturned ==
  \A c \in DOMAIN calls :
    calls[c].op = "create" /\ At(c, "returned") =>
      \A n \in DOMAIN calls[c].sent.navs :
        LET nav == Entity(c).navs[n]
            parent == calls[c].key
        IN /\ Cardinality(ChildrenOf(c, n)) = Len(calls[c].sent.navs[n].items)
           /\ \A d \in ChildrenOf(c, n) :
                /\ calls[d].key \in DOMAIN rows[nav.entity]
                /\ nav.targetForeignKey # None
                     /\ (nav.type = "OneToMany" \/ Entity(c).key \in DOMAIN calls[c].sent.cols)
                     => rows[nav.entity][calls[d].key][nav.targetForeignKey] = parent
                /\ nav.foreignKey # None =>
                     rows[calls[c].entity][parent][nav.foreignKey] = calls[d].key
           /\ \A d, e \in ChildrenOf(c, n) : d # e => calls[d].key # calls[e].key

\* Every call returns or throws, and so does every call it has started, also
\* when a sibling has failed before.
EveryCallSettles == <>(\A c \in DOMAIN calls : calls[c].pc \in Settled)
=============================================================================
