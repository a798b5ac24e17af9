----------------------------- MODULE Processor ------------------------------
(* One request from its parsed URL to its result: ResourcePathVisitor          *)
(* (src/src/visitor.ts) makes navigation parts of the URL's segments, and      *)
(* ODataProcessor (src/src/processor/processor.ts) makes a stage of each and   *)
(* runs them in turn.  A stage finds a method of a controller for its part,    *)
(* calls it, and leaves `ctrl`, `prevCtrl` and a result to the next.           *)
(*                                                                             *)
(* Rows are numbers; 0 is no row.  A body is <<"none">> (undefined),           *)
(* <<"empty">> ({}), <<"rows", T, ids>>, <<"entity", T, id>>,                  *)
(* <<"value", property, T, id>>, <<"count", n>>, <<"link", name, T, id>>,      *)
(* <<"op", on, name, body>>, or <<"stream">> for rows and buffers that pass    *)
(* through the processor, and <<"counted">> for the number of such rows.       *)
EXTENDS Dispatch

CONSTANTS
    Requests,   \* what each server is asked: a verb and the segments of a URL
    Databases   \* rows and foreign keys to choose from

(* What the servers of this module have beside their classes.  Methods of      *)
(* `streams` write their rows to the processor; properties of `streamed` are   *)
(* Edm.Stream.  A lax server's findOne answers {} to no key, and throws for    *)
(* a key it does not know, as TypedService does; others return undefined.      *)
(* Operations are bound to the entity type (`entityOps`) or the controller.    *)
Operation == [on : STRING, name : STRING, action : BOOLEAN, returns : BOOLEAN]
WriteMethods == {"post", "put", "patch", "delete"}
Segment == [type : STRING, name : STRING,
            key : Seq([name : STRING, value : Int])]
Navigations == {"EntityCollectionNavigationProperty", "EntityNavigationProperty"}
Properties == {"PrimitiveProperty", "PrimitiveKeyProperty", "ComplexProperty",
               "PrimitiveCollectionProperty", "ComplexCollectionProperty"}

(* The parser reads a URL with the metadata of the server: a segment has the   *)
(* type that the visitor notes on its node, and names an entity set of the     *)
(* server or what is declared for the type before it.                          *)
TypeAfter(s, T, segment) ==
    CASE segment.type = "EntitySetName" -> s.entitySets[segment.name]
      [] segment.type \in Navigations -> s.navs[T][segment.name].target
      [] segment.type = "QualifiedEntityTypeName" /\ segment.name \in s.children ->
             segment.name
      [] segment.type \in Properties -> segment.name
      [] OTHER -> T
TypesOf(s, path) ==
    LET types[i \in 0..Len(path)] ==
            IF i = 0 THEN None ELSE TypeAfter(s, types[i - 1], path[i])
    IN types
IsDeclared(s, T, segment) ==
    CASE segment.type = "EntitySetName" -> segment.name \in DOMAIN s.entitySets
      [] segment.type \in Navigations -> T \in DOMAIN s.navs
                                         /\ segment.name \in DOMAIN s.navs[T]
      [] segment.type = "QualifiedEntityTypeName" -> T # None
      [] OTHER -> TRUE
(* $value and $ref are the last segment of a URL (the grammar of the parser's).*)
IsLast(segment) == segment.name = "$value" \/ segment.type = "RefExpression"
IsPath(s, path) ==
    /\ path \in Seq(Segment)
    /\ \A i \in DOMAIN path :
           /\ IsLast(path[i]) => i = Len(path)
           /\ path[i].name = "$value" => path[i].type = "ValueExpression"
           /\ IsDeclared(s, TypesOf(s, path)[i - 1], path[i])

IsModelled(s) ==
    /\ s.name \in DOMAIN Requests
    /\ \A r \in Requests[s.name] : /\ r.verb \in WriteMethods \cup {"get"}
                                    /\ IsPath(s, r.path)
    /\ \A T \in DOMAIN s.controllerOf : s.controllerOf[T] \in DOMAIN s.chain
    /\ \A T, U \in DOMAIN s.controllerOf :
           s.controllerOf[T] = s.controllerOf[U] => T = U
    /\ \A n \in DOMAIN s.entitySets : s.entitySets[n] \in DOMAIN s.controllerOf
    /\ \A T \in DOMAIN s.navs : \A n \in DOMAIN s.navs[T] :
           s.navs[T][n].target \in DOMAIN s.controllerOf
    /\ s.lax \in BOOLEAN
    /\ \A o \in s.entityOps \cup s.controllerOps \cup s.imports : o \in Operation

ASSUME ModelledAssumption == \A s \in Servers : IsModelled(s)

VARIABLES
    request, db,        \* the request and the database it meets
    visited,            \* how many segments of its path have been visited
    navigation,         \* resourcePath.navigation
    stage,              \* how many parts have been worked off
    ctrl, prevCtrl,     \* this.ctrl and this.prevCtrl
    instance,           \* the controller whose instance this.instance is
    result,             \* what the last stage returned
    calls,              \* the methods called so far
    outcome,            \* "load", "visiting", "running", "streaming", "done"
                        \* or "error"
    status              \* the HTTP status, 0 while there is none

requestVars == <<request, db, visited, navigation>>
stageVars == <<stage, ctrl, prevCtrl, instance, result, calls, outcome, status>>
processorVars == <<dispatchVars, requestVars, stageVars>>

NoResult == [type |-> None, body |-> <<"none">>]
ControllerOf(T) == server.controllerOf[T]
ElementType(c) == CHOOSE T \in DOMAIN server.controllerOf : ControllerOf(T) = c
Nav(T, name) == server.navs[T][name]
ForeignKey(T, id) == IF <<T, id>> \in DOMAIN db.fk THEN db.fk[<<T, id>>] ELSE 0

NoRequest == [verb |-> "get", path |-> <<>>]

ProcessorInit ==
    /\ DispatchInit
    /\ request = NoRequest /\ db = <<>>
    /\ visited = 0 /\ navigation = <<>> /\ stage = 0
    /\ ctrl = None /\ prevCtrl = None /\ instance = None
    /\ result = NoResult /\ calls = <<>>
    /\ outcome = "load" /\ status = 0

-----------------------------------------------------------------------------
(* The visitor.  A key belongs to the part before it; a type name that is not  *)
(* a derived type leaves no part, and neither does a singleton.                *)
VisitSegment(nav, s) ==
    CASE s.type \in {"SimpleKey", "CompoundKey"} ->
             [nav EXCEPT ![Len(nav)].key = s.key]
      [] s.type = "QualifiedEntityTypeName" /\ s.name \notin server.children -> nav
      [] s.type = "SingletonEntity" -> nav
      [] OTHER -> Append(nav, s)

(* A request comes when the classes have loaded.                               *)
Begin ==
    /\ outcome = "load" /\ Loaded
    /\ request' \in Requests[server.name] /\ db' \in Databases
    /\ outcome' = "visiting"
    /\ UNCHANGED <<dispatchVars, visited, navigation, stage, ctrl, prevCtrl,
                   instance, result, calls, status>>

Visit ==
    /\ outcome = "visiting" /\ visited < Len(request.path)
    /\ visited' = visited + 1
    /\ navigation' = VisitSegment(navigation, request.path[visited'])
    /\ UNCHANGED <<dispatchVars, request, db, stageVars>>

(* Every part gets its stage.  No segment left a part: 404.                    *)
PushStages ==
    /\ outcome = "visiting" /\ visited = Len(request.path)
    /\ IF navigation = <<>>
       THEN outcome' = "error" /\ status' = 404
       ELSE outcome' = "running" /\ UNCHANGED status
    /\ UNCHANGED <<dispatchVars, requestVars, stage, ctrl, prevCtrl, instance, result,
                   calls>>

Load == outcome = "load" /\ Decorate /\ UNCHANGED <<requestVars, stageVars>>

-----------------------------------------------------------------------------
(* The part before $ref has no stage of its own.                               *)
Skipped(i) == i < Len(navigation) /\ navigation[i + 1].type = "RefExpression"
Index == stage + 1
Part == navigation[Index]
At(types) == /\ outcome = "running" /\ stage < Len(navigation)
             /\ Part.type \in types /\ ~Skipped(Index)

SkipStage ==
    /\ outcome = "running" /\ stage < Len(navigation) /\ Skipped(Index)
    /\ stage' = Index
    /\ UNCHANGED <<dispatchVars, requestVars, ctrl, prevCtrl, instance, result,
                   calls, outcome, status>>

Fails(code) ==
    /\ outcome' = "error" /\ status' = code
    /\ UNCHANGED <<dispatchVars, requestVars, stage, ctrl, prevCtrl, instance, result,
                   calls>>

(* Before the last segment of a write only reads are called.                   *)
\* Mutant: every entity of the path is served by the request's verb.
VerbOfRequest == request.verb
Verb == IF request.verb \in WriteMethods /\ Index < Len(navigation)
        THEN "get" ELSE request.verb

NoFilter == [fk |-> None, value |-> 0]
Call(class, found, fn, verb, params, filter) ==
    [class |-> class, found |-> found, call |-> fn.call, verb |-> verb,
     part |-> Index, params |-> params, filter |-> filter, fnKey |-> fn.key]

(* What the methods of the servers do when they are called for rows of T.      *)
RowsOf(T, filter) ==
    {id \in db.rows[T] : filter = NoFilter \/ ForeignKey(T, id) = filter.value}
Found(T, id) == IF id \in db.rows[T] THEN <<"entity", T, id>> ELSE <<"none">>
One(T, id) == IF id = Undefined /\ server.lax THEN <<"empty">> ELSE Found(T, id)
Related(n, id) ==
    IF n.many THEN <<"rows", n.target, RowsOf(n.target, [fk |-> n.fk, value |-> id])>>
    ELSE Found(n.target, id)
KeyedId(c, call, params) == Value(params, Head(GetKeys(c, call)).to)
Returned(c, fn, params, filter) ==
    LET T == ElementType(c)
    IN IF GetKeys(c, fn.call) = <<>> THEN <<"rows", T, RowsOf(T, filter)>>
       ELSE One(T, KeyedId(c, fn.call, params))

StatusOf(verb, body) ==
    CASE verb = "get" -> 200
      [] verb = "post" \/ (verb = "put" /\ body # <<"none">>) -> 201
      [] OTHER -> 204

(* __read, after the method has returned body: a GET without a body is a 404,  *)
(* a throwing read an error whatever the verb.                                 *)
ReadReturns(c, verb, T, given, body) ==
    IF body = <<"none">> /\ (request.verb = "get" \/ (server.lax /\ verb = "get"))
    THEN outcome' = "error" /\ status' = 404 /\ UNCHANGED <<result, stage>>
    ELSE /\ result' = [type |-> IF body # <<"none">> \/ given THEN T ELSE None,
                       body |-> IF verb \in {"patch", "delete"} THEN <<"none">>
                                ELSE body]
         /\ status' = StatusOf(verb, body)
         /\ stage' = Index
         /\ UNCHANGED outcome

StreamsOut == /\ outcome' = "streaming"
              /\ result' = [type |-> None, body |-> <<"stream">>]
              /\ UNCHANGED <<status, stage>>

(* __read of a controller for the segment, with the method that fits the key,  *)
(* which is that of the part from then on.                                     *)
Read(c, part, filter) ==
    \E fn \in {FindODataMethod(c, <<Verb, "">>, part.key)} :
    \E params \in {AssignKeys(KeyParams(part.key), fn.key, part.key)} :
       IF fn = NoMethod THEN Fails(501)
       ELSE /\ prevCtrl' = IF ctrl = None THEN c ELSE ctrl
            /\ ctrl' = c /\ instance' = c
            /\ calls' = Append(calls, Call(c, c, fn, Verb, params, filter))
            /\ IF <<c, fn.call>> \in server.streams /\ Verb = "get"
               THEN StreamsOut
               ELSE IF Verb = "get"
               THEN \E body \in {Returned(c, fn, params, filter)} :
                        ReadReturns(c, Verb, ElementType(c), FALSE, body)
               ELSE \E body \in {<<"none">>, <<"entity", ElementType(c), 9>>} :
                        ReadReturns(c, Verb, ElementType(c), FALSE, body)
            /\ navigation' = [navigation EXCEPT ![Index].key = part.key]
            /\ UNCHANGED <<dispatchVars, request, db, visited>>

EntitySetName ==
    /\ At({"EntitySetName"})
    /\ Read(ControllerOf(server.entitySets[Part.name]), Part, NoFilter)

(* The key and the foreign key of the entity that was read.                    *)
\* Mutant: the key that the URL began with.
FirstKey == IF navigation[1].key = <<>> THEN Undefined ELSE navigation[1].key[1].value

Owner == IF result.body[1] = "entity" THEN result.body[3] ELSE Undefined
OwnerLink == IF result.body[1] = "entity" THEN ForeignKey(result.body[2], Owner)
             ELSE Undefined

(* A method of the current controller for the navigation takes precedence; it  *)
(* is given the result, and its keys under both names.  Afterwards ctrl is the *)
(* controller of the related type, but the instance is still the former one's. *)
NavigateByMethod(fn, n) ==
    LET params == AssignKeys(KeyParams(Part.key), fn.key, Part.key)
    IN /\ calls' = Append(calls,
              Call(ctrl, ctrl, fn, Verb,
                   IF n.many THEN KeysAgain(params, Part.key) ELSE params, NoFilter))
       /\ prevCtrl' = ctrl /\ instance' = ctrl
       /\ ctrl' = ControllerOf(n.target)
       /\ \E body \in {IF Verb # "get" THEN <<"none">>
                       ELSE IF Part.key # <<>> THEN Found(n.target, Head(Part.key).value)
                       ELSE Related(n, IF n.many THEN Owner ELSE OwnerLink)} :
              ReadReturns(ctrl, Verb, n.target, TRUE, body)
       /\ UNCHANGED <<dispatchVars, requestVars>>

(* Otherwise the related rows are those whose foreign key is the key of the    *)
(* result, and the related entity is the one whose key is the foreign key of   *)
(* the result; that key becomes the key of the part.                           *)
\* Mutant: the entity is addressed by the key of the part, not by the foreign key.
NavigateWithoutKey(n, key, filter) ==
    \E fn \in {FindODataMethod(ctrl, <<Verb, Part.name>>, Part.key)} :
       IF fn # NoMethod THEN NavigateByMethod(fn, n)
       ELSE Read(ControllerOf(n.target), Part, filter)

Navigate(n, key, filter) ==
    \E fn \in {FindODataMethod(ctrl, <<Verb, Part.name>>, Part.key)} :
       IF fn # NoMethod THEN NavigateByMethod(fn, n)
       ELSE Read(ControllerOf(n.target), [Part EXCEPT !.key = key], filter)

EntityCollectionNavigationProperty ==
    /\ At({"EntityCollectionNavigationProperty"})
    /\ IF result.type = None THEN Fails(404)
       ELSE \E n \in {Nav(result.type, Part.name)} :
                Navigate(n, Part.key, [fk |-> n.fk, value |-> Owner])

EntityNavigationProperty ==
    /\ At({"EntityNavigationProperty"})
    /\ IF result.type = None THEN Fails(500)
       ELSE \E n \in {Nav(result.type, Part.name)} :
                Navigate(n, <<[name |-> n.fk, value |-> OwnerLink]>>, NoFilter)

-----------------------------------------------------------------------------
(* A property: a method for it, else, for a write, the PATCH or PUT of the     *)
(* entity with the property as body, else the value that was read.  The method *)
(* is looked up on ctrl and called on prevCtrl.                                *)
PropertyMethod ==
    LET key == navigation[stage].key
        own == FindODataMethod(ctrl, <<request.verb, Part.name>>, key)
        raw == FindODataMethod(ctrl, <<request.verb, Part.name \o "/$value">>, key)
        verb == IF request.verb = "delete" THEN "patch" ELSE request.verb
    IN IF own # NoMethod THEN own
       ELSE IF raw # NoMethod \/ request.verb = "get" THEN raw
       ELSE FindODataMethod(ctrl, <<verb, "">>, key)

Has(c, call) == call \in Range(AllPropertyNames(c))

Property ==
    /\ At(Properties)
    /\ \E fn \in {PropertyMethod} :
       LET key == navigation[stage].key
           params == AssignKeys(KeyParams(key), fn.key, key)
           value == IF result.body[1] = "entity"
                    THEN <<"value", Part.name, result.type, result.body[3]>>
                    ELSE <<"none">>
       IN IF result.type = None \/ (fn # NoMethod /\ ~Has(prevCtrl, fn.call))
          THEN Fails(500)
          ELSE /\ calls' = IF fn = NoMethod THEN calls
                           ELSE Append(calls, Call(prevCtrl, ctrl, fn, request.verb,
                                                   params, NoFilter))
               /\ IF request.verb # "get"
                  THEN /\ result' = NoResult /\ status' = 204 /\ stage' = Index
                       /\ UNCHANGED outcome
                  ELSE IF Part.name \in server.streamed
                  THEN StreamsOut
                  ELSE /\ result' = [type |-> Part.name, body |-> value]
                       /\ status' = 200 /\ stage' = Index
                       /\ UNCHANGED outcome
               /\ UNCHANGED <<dispatchVars, requestVars, ctrl, prevCtrl, instance>>

QualifiedTypeName ==
    /\ At({"QualifiedEntityTypeName"})
    /\ result' = [type |-> Part.name, body |-> result.body]
    /\ stage' = Index
    /\ UNCHANGED <<dispatchVars, requestVars, ctrl, prevCtrl, instance, calls,
                   outcome, status>>

-----------------------------------------------------------------------------
Stays(body, code) ==
    /\ result' = [type |-> result.type, body |-> body]
    /\ status' = code /\ stage' = Index
    /\ UNCHANGED <<dispatchVars, requestVars, ctrl, prevCtrl, instance, outcome>>

(* A 204 has no body.                                                          *)
Answers(body, code) == Stays(IF code = 204 THEN <<"none">> ELSE body, code)

(* The call is made, and what it returns is an error.                          *)
FailsCalled(code) ==
    /\ outcome' = "error" /\ status' = code
    /\ UNCHANGED <<dispatchVars, requestVars, stage, ctrl, prevCtrl, instance, result>>

(* A bound operation: of the entity, else of the instance, the controller that *)
(* was read last.  What it is and returns is looked up on ctrl, which is       *)
(* another one after a navigation method: an action that returns nothing is a  *)
(* 204 if ctrl has it, and an operation without a result is an error otherwise.*)
BoundOperations == {"BoundActionCall", "BoundFunctionCall"}
OperationsOf(c) == {o \in server.controllerOps : o.on = c /\ o.name = Part.name}

BoundOperation ==
    /\ At(BoundOperations)
    /\ LET ofEntity == {o \in server.entityOps : o.on = result.type /\ o.name = Part.name}
           ops == IF ofEntity # {} THEN ofEntity ELSE OperationsOf(instance)
           known == IF ofEntity # {} THEN ofEntity ELSE OperationsOf(ctrl)
       IN IF instance = None \/ ops = {} THEN Fails(500)
          ELSE \E o \in {CHOOSE o \in ops : TRUE} :
               /\ calls' = Append(calls, Call(o.on, o.on, [call |-> o.name, key |-> <<>>],
                                              request.verb, <<>>, NoFilter))
               /\ IF \E k \in known : k.action /\ ~k.returns THEN Stays(<<"none">>, 204)
                  ELSE IF o.returns THEN Stays(<<"op", o.on, o.name, result.body>>, 200)
                  ELSE FailsCalled(500)

(* A function or action of the server itself.                                  *)
OperationImport ==
    /\ At({"FunctionImportCall", "ActionImportCall"})
    /\ LET o == CHOOSE o \in server.imports : o.name = Part.name
       IN /\ calls' = Append(calls, Call("server", "server",
                                         [call |-> o.name, key |-> <<>>],
                                         request.verb, <<>>, NoFilter))
          /\ IF o.action /\ ~o.returns THEN Stays(<<"none">>, 204)
             ELSE Stays(<<"op", "server", o.name, <<"none">>>>, 200)

(* No controller has been used: neither ctrl nor its instance is there to look *)
(* for an operation of this name.                                              *)
Unread == ctrl = None

(* $count: the length of the value, or resultCount, the number of rows that    *)
(* were streamed.  It is answered as the verb answers any result: a number for *)
(* a GET, something created for a POST (and a PUT, but for 0), else nothing.   *)
Count(rows) ==
    /\ At({"CountExpression"})
    /\ IF Unread THEN Fails(500)
       ELSE LET body == CASE result.body[1] = "rows" -> <<"count", Cardinality(result.body[3])>>
                          [] result.body[1] = "stream" -> <<"counted">>
                          [] OTHER -> <<"count", 0>>
                isZero == body = <<"count", 0>> \/ (body = <<"counted">> /\ rows = 0)
            IN /\ Answers(body, CASE request.verb = "get" -> 200
                                   [] request.verb = "post" -> 201
                                   [] request.verb = "put" /\ ~isZero -> 201
                                   [] OTHER -> 204)
               /\ UNCHANGED calls

(* $value: a method for it, else the media entity's stream, else the value.    *)
RawValue ==
    /\ At({"ValueExpression"})
    /\ IF Unread \/ stage = 0 THEN Fails(500) ELSE
       LET prev == navigation[stage]
           own == FindODataMethod(ctrl, <<request.verb, prev.name \o "/$value">>, prev.key)
           media == FindODataMethod(ctrl, <<request.verb, "$value">>, prev.key)
       IN \E fn \in {IF own = NoMethod /\ result.type \in server.media THEN media ELSE own} :
          \E params \in {AssignKeys(KeyParams(prev.key), fn.key, prev.key)} :
          \E value \in {IF fn # NoMethod /\ prev.type \in Properties
                          /\ GetKeys(ctrl, fn.call) # <<>>
                       THEN <<"value", prev.name, ElementType(ctrl),
                              KeyedId(ctrl, fn.call, params)>>
                       ELSE result.body} :
          IF result.body = <<"stream">>
          THEN Stays(result.body, status) /\ UNCHANGED calls
          ELSE
          /\ calls' = IF fn = NoMethod THEN calls
                      ELSE Append(calls, Call(ctrl, ctrl, fn, request.verb, params, NoFilter))
          /\ IF result.type \in server.media /\ request.verb = "get"
             THEN IF fn = NoMethod
                  THEN FailsCalled(500)
                  ELSE /\ StreamsOut
                       /\ UNCHANGED <<dispatchVars, requestVars, ctrl, prevCtrl, instance>>
             ELSE Answers(value, IF result.type \in server.media THEN 204
                                 ELSE StatusOf(request.verb, value))

(* $ref: a GET answers the link, a write needs a method for it, with the key   *)
(* of the part before the navigation.                                          *)
Reference ==
    /\ At({"RefExpression"})
    /\ IF Unread \/ stage < 2 THEN Fails(500) ELSE
       LET prev == navigation[stage]
           route == navigation[stage - 1]
       IN \E fn \in {FindODataMethod(prevCtrl, <<request.verb, prev.name \o "/$ref">>, route.key)} :
          \E params \in {AssignKeys(KeyParams(route.key), fn.key, route.key)} :
          \/ /\ request.verb = "get"
             /\ Stays(<<"link", prev.name, result.type, Owner>>, 200) /\ UNCHANGED calls
          \/ request.verb # "get" /\ fn = NoMethod /\ Fails(404)
          \/ /\ request.verb # "get" /\ fn # NoMethod
             /\ calls' = Append(calls, Call(prevCtrl, prevCtrl, fn, request.verb,
                                            params, NoFilter))
             /\ Stays(<<"none">>, 204)

(* What was streamed has ended: the rows of a method leave an empty result,    *)
(* and the next stage runs.                                                    *)
StreamEnds ==
    /\ outcome = "streaming"
    /\ outcome' = "running" /\ stage' = Index
    /\ status' = 200
    /\ UNCHANGED <<dispatchVars, requestVars, ctrl, prevCtrl, instance, result,
                   calls>>

(* A method throws.                                                            *)
MethodThrows ==
    /\ outcome = "streaming" \/ (outcome = "running" /\ stage < Len(navigation))
    /\ Fails(500)

(* The last function of the workflow: what was created needs an id, which only *)
(* an entity has.  Without a body to look for it, it throws; otherwise it      *)
(* emits 'error', which throws too, unless a stage that waited for the         *)
(* processor to end has left its listener there.                               *)
Finish(heard) ==
    /\ outcome = "running" /\ stage = Len(navigation)
    /\ IF status = 201 /\ (result.body = <<"none">> \/ (result.body[1] # "entity" /\ ~heard))
       THEN outcome' = "error" /\ status' = 500
       ELSE outcome' = "done" /\ UNCHANGED status
    /\ UNCHANGED <<dispatchVars, requestVars, stage, ctrl, prevCtrl, instance, result,
                   calls>>

(* How many rows were streamed, and whether a stage heard of the processor's   *)
(* errors, is the matter of ResponseStream.                                    *)
ProcessorNext ==
    \/ Load \/ Begin \/ Visit \/ PushStages \/ SkipStage \/ EntitySetName
    \/ EntityCollectionNavigationProperty \/ EntityNavigationProperty
    \/ Property \/ QualifiedTypeName \/ BoundOperation \/ OperationImport
    \/ RawValue \/ Reference \/ StreamEnds \/ MethodThrows
    \/ \E rows \in Nat : Count(rows)
    \/ \E heard \in BOOLEAN : Finish(heard)

ProcessorSpec == /\ ProcessorInit /\ [][ProcessorNext]_processorVars
                 /\ WF_processorVars(ProcessorNext)

-----------------------------------------------------------------------------
(* What a URL names, segment by segment, without controllers: rows, then one   *)
(* of them by key, related rows by foreign key, a property, a number.          *)
Denote(d, prev, p) ==
    LET one == d[1] = "entity"
    IN CASE p.type = "EntitySetName" ->
              LET T == server.entitySets[p.name]
              IN IF p.key = <<>> THEN <<"rows", T, db.rows[T]>>
                 ELSE Found(T, p.key[1].value)
         [] p.type = "EntityCollectionNavigationProperty" /\ one ->
              LET related == Related(Nav(d[2], p.name), d[3])
              IN IF p.key = <<>> THEN related
                 ELSE IF p.key[1].value \in related[3]
                      THEN Found(related[2], p.key[1].value) ELSE <<"none">>
         [] p.type = "EntityNavigationProperty" /\ one ->
              Found(Nav(d[2], p.name).target, ForeignKey(d[2], d[3]))
         [] p.type \in Properties /\ one -> <<"value", p.name, d[2], d[3]>>
         [] p.type = "QualifiedEntityTypeName" -> d
         [] p.type = "ValueExpression" -> d
         [] p.type = "CountExpression" /\ d[1] = "rows" -> <<"count", Cardinality(d[3])>>
         [] p.type = "RefExpression" /\ one -> <<"link", prev, d[2], d[3]>>
         [] p.type \in BoundOperations /\ d[1] \in {"rows", "entity"} ->
              LET ofEntity == \E o \in server.entityOps : o.on = d[2] /\ o.name = p.name
              IN <<"op", IF ofEntity THEN d[2] ELSE ControllerOf(d[2]), p.name, d>>
         [] p.type \in {"FunctionImportCall", "ActionImportCall"} ->
              <<"op", "server", p.name, <<"none">>>>
         [] OTHER -> <<"none">>

Addressed(n) ==
    LET named[i \in 0..Len(navigation)] ==
            IF i = 0 THEN <<"none">>
            ELSE IF i < n /\ Skipped(i) THEN named[i - 1]
            ELSE Denote(named[i - 1], IF i = 1 THEN "" ELSE navigation[i - 1].name,
                        navigation[i])
    IN named[n]

Reaches(i) == Addressed(i) # <<"none">>

(* Where the code reads something else than the URL names, by design of its    *)
(* services: a related row by key is read by that key alone, whatever it is    *)
(* related to, and a lax service answers {} for the entity behind a foreign    *)
(* key without value.                                                          *)
KeyedNavigation ==
    \E i \in DOMAIN navigation :
        /\ navigation[i].type = "EntityCollectionNavigationProperty"
        /\ navigation[i].key # <<>>
EmptyLink ==
    \E i \in DOMAIN navigation :
        /\ navigation[i].type = "EntityNavigationProperty" /\ server.lax
        /\ Reaches(i - 1) /\ ~Reaches(i)
(* A method for the raw value of a property is found and called by the stage   *)
(* of the property, and again, without a key, by that of $value.               *)
ServedTwice ==
    \E k \in DOMAIN calls, i \in DOMAIN navigation :
        /\ navigation[i].type \in Properties
        /\ calls[k].part = i + 1 /\ navigation[i + 1].type = "ValueExpression"
(* After a navigation method a bound operation is looked for on the instance   *)
(* of the controller that has that method, not on that of the related type.    *)
FormerInstance ==
    \E k \in 1..(Len(calls) - 1), d \in Range(server.decorators) :
        /\ navigation[calls[k].part].type \in Navigations
        /\ d.prop = calls[k].call /\ d.sub = navigation[calls[k].part].name
        /\ navigation[calls[k + 1].part].type \in BoundOperations
AsNamed == ~KeyedNavigation /\ ~EmptyLink /\ ~ServedTwice /\ ~FormerInstance

(* A method on the way wrote its rows to the processor.                        *)
Streamed == \E k \in DOMAIN calls : <<calls[k].class, calls[k].call>> \in server.streams

(* A GET that is answered is answered with what its URL names, whatever mix of *)
(* navigation methods, default reads and value stages worked it off; and it is *)
(* a 404 only if the URL names nothing.  (Streamed rows: see SentInOrder.)     *)
ReadsWhatIsNamed ==
    request.verb = "get" /\ AsNamed /\ navigation # <<>> /\ ~Streamed =>
        /\ outcome = "done" /\ result.body # <<"stream">> =>
               result.body = Addressed(Len(navigation))
        /\ status = 404 => \E i \in DOMAIN navigation : ~Skipped(i) /\ ~Reaches(i)

IsWrite(c) == c.verb # "get"
(* A property or $value for which no method was found is answered without one. *)
Unserved == /\ calls = <<>> \/ ~IsWrite(Last(calls))
            /\ Last(navigation).type \in Properties \cup {"ValueExpression"}

(* What a write is addressed to: an entity or a set, one of their properties,  *)
(* $value or $ref, an operation.  (One that ends in a type name or $count only *)
(* reads, and of nested properties the outer one is written.)                  *)
EntityParts == {"EntitySetName", "EntityCollectionNavigationProperty",
                "EntityNavigationProperty", "QualifiedEntityTypeName"}
ValueOfProperty(i) ==
    /\ i = Len(navigation) - 1 /\ navigation[i].type \in Properties
    /\ navigation[i + 1].type = "ValueExpression"
IsWriteForm ==
    \A i \in DOMAIN navigation :
        IF i < Len(navigation)
        THEN navigation[i].type \in EntityParts \/ ValueOfProperty(i)
        ELSE navigation[i].type \notin {"QualifiedEntityTypeName", "CountExpression"}

(* A write reaches one method with its verb, once, for its last segment (or    *)
(* the property before $value); every entity on the way is only read; and what *)
(* is answered without an error has been written.                              *)
WritesOnce ==
    request.verb # "get" /\ IsWriteForm /\ ~ServedTwice =>
        /\ \A k \in DOMAIN calls :
               IsWrite(calls[k]) =>
                   /\ k = Len(calls)
                   /\ calls[k].part = Len(navigation) \/ ValueOfProperty(calls[k].part)
        /\ outcome = "done" => Unserved \/ (calls # <<>> /\ IsWrite(Last(calls)))

(* The key of the URL that a call is about.                                    *)
KeyOf(c) ==
    LET type == navigation[c.part].type
    IN CASE type \in Properties \cup {"ValueExpression"} -> navigation[c.part - 1].key
         [] type = "RefExpression" -> navigation[c.part - 2].key
         [] OTHER -> navigation[c.part].key
(* Renaming works through the keys in turn and deletes the old name: no two    *)
(* parameters may share a name with each other's keys, and they must be for    *)
(* the keys of the URL.                                                        *)
Misnamed(fnKey, key) ==
    LET names(i) == {fnKey[i].from, fnKey[i].to}
    IN \/ \E i, j \in DOMAIN fnKey : i # j /\ names(i) \cap names(j) # {}
       \/ IF Len(key) = 1
          THEN fnKey[1].to = key[1].name /\ fnKey[1].from # key[1].name
          ELSE \E i \in DOMAIN key : \A j \in DOMAIN fnKey : fnKey[j].from # key[i].name

(* Every key parameter of a called method gets the key of that name in the     *)
(* URL, or the only key, whatever the parameter is called.                     *)
KeysFit ==
    \A k \in DOMAIN calls :
        LET c == calls[k]
            key == KeyOf(c)
        IN c.fnKey # <<>> /\ key # <<>> /\ ~Misnamed(c.fnKey, key) =>
               \A i \in DOMAIN c.fnKey :
                   Value(c.params, c.fnKey[i].to) =
                       IF Len(key) = 1 THEN key[1].value
                       ELSE Value(KeyParams(key), c.fnKey[i].from)

(* A property behind a navigation: its method is looked up on the controller   *)
(* of its entity and called on the one before.                                 *)
Displaced == \E i \in DOMAIN navigation : i > 2 /\ navigation[i].type \in Properties

(* The entity a method is called for is the one the URL names: the controller  *)
(* of its type gets its key, also for writes that end in a property or $value. *)
WritesTheNamed ==
    outcome = "done" /\ calls # <<>> /\ request.verb \in {"put", "patch", "delete"}
    /\ AsNamed /\ ~Displaced /\ IsWrite(Last(calls)) =>
        LET c == Last(calls)
            i == IF navigation[c.part].type \in Properties \cup {"ValueExpression"}
                 THEN c.part - 1
                 ELSE IF navigation[c.part].type = "RefExpression" THEN c.part - 2
                 ELSE c.part
        IN Reaches(i) /\ Addressed(i)[1] = "entity" /\ GetKeys(c.class, c.call) # <<>> =>
               /\ c.class = ControllerOf(Addressed(i)[2])
               /\ KeyedId(c.class, c.call, c.params) = Addressed(i)[3]
=============================================================================
