------------------------------ MODULE Dispatch ------------------------------
(* Which method of a controller serves a request: the decorators of            *)
(* src/src/odata.ts, which write metadata on prototypes while the classes      *)
(* load, and findODataMethod(), which reads it for every segment of a URL.     *)
(*                                                                             *)
(* Reflect.getMetadata() looks a key up along the prototype chain; the array   *)
(* of method types it finds may be an ancestor's, and @odata.GET & co. push    *)
(* into the array they find.  A method type is <<verb, sub>>: <<"get", "">>,   *)
(* <<"get", "Products">>, <<"get", "$value">>, <<"post", "Products/$ref">>.    *)
EXTENDS Integers, Sequences, FiniteSets, FiniteSetsExt, SequencesExt, Functions

CONSTANT Servers    \* the servers to choose from, see IsServer

(* A server's classes: the prototype chain of each, the names of its own       *)
(* methods, and all decorators in the order in which they run.  A key          *)
(* decorator has the name in the URL (from) and that of the parameter (to).    *)
(* A class that another extends has been decorated when that one is defined,   *)
(* and what is decorated are a class's own methods.                            *)
None == "None"
Decorator == [class : STRING, prop : STRING, verb : STRING, sub : STRING,
              from : STRING, to : STRING]
IsServer(s) ==
    /\ DOMAIN s.chain = DOMAIN s.props
    /\ \A c \in DOMAIN s.chain :
           /\ s.chain[c] \in Seq(DOMAIN s.chain) /\ s.chain[c] # <<>>
           /\ s.chain[c][1] = c
           /\ \A n \in DOMAIN s.chain[c] :
                  s.chain[s.chain[c][n]] = SubSeq(s.chain[c], n, Len(s.chain[c]))
    /\ s.decorators \in Seq(Decorator)
    /\ \A i, j \in DOMAIN s.decorators :
           LET d == s.decorators[i]
               e == s.decorators[j]
           IN /\ d.class \in DOMAIN s.chain /\ d.prop \in Range(s.props[d.class])
              /\ e.class \in Range(s.chain[d.class]) \ {d.class} => j < i

ASSUME ServersAssumption == \A s \in Servers : IsServer(s)

VARIABLES
    server,     \* the server, chosen at the start
    loaded,     \* how many decorators have run
    arrays,     \* the arrays of method types
    methodsOf,  \* <<class, prop>> -> index of its array, for own metadata
    keysOf      \* <<class, prop>> -> its keys, for own metadata

dispatchVars == <<server, loaded, arrays, methodsOf, keysOf>>

Classes == DOMAIN server.chain
Loaded == loaded = Len(server.decorators)

DispatchInit == /\ server \in Servers
                /\ loaded = 0
                /\ arrays = <<>> /\ methodsOf = <<>> /\ keysOf = <<>>

(* The prototype chain of a class: itself and its ancestors, nearest first.    *)
Chain(c) == server.chain[c]

(* Reflect.getMetadata(key, c.prototype, prop); absent is the default.         *)
GetMetadata(metadata, c, prop, absent) ==
    LET has(n) == <<Chain(c)[n], prop>> \in DOMAIN metadata
        nearest == CHOOSE n \in DOMAIN Chain(c) : has(n) /\ \A m \in 1..(n - 1) : ~has(m)
    IN IF \E n \in DOMAIN Chain(c) : has(n) THEN metadata[<<Chain(c)[nearest], prop>>]
       ELSE absent

GetMethod(c, prop) ==
    LET a == GetMetadata(methodsOf, c, prop, 0)
    IN IF a = 0 THEN <<>> ELSE arrays[a]
GetKeys(c, prop) == GetMetadata(keysOf, c, prop, <<>>)

With(f, x, y) == [z \in DOMAIN f \cup {x} |-> IF z = x THEN y ELSE f[z]]

(* @odata.GET and its kind: unshift into the array that getMetadata finds.     *)
MethodFactory(c, prop, type) ==
    LET a == GetMetadata(methodsOf, c, prop, 0)
        target == IF a = 0 THEN Len(arrays) + 1 ELSE a
    IN /\ arrays' = IF a = 0 THEN Append(arrays, <<type>>)
                    ELSE [arrays EXCEPT ![a] = <<type>> \o @]
       /\ methodsOf' = With(methodsOf, <<c, prop>>, target)
       /\ UNCHANGED keysOf

(* @odata.key: push into the own array, or a new one.                          *)
\* Mutant: the keys are pushed behind those that getMetadata finds.
KeyInherits(c, prop, k) ==
    /\ keysOf' = With(keysOf, <<c, prop>>, Append(GetKeys(c, prop), k))
    /\ UNCHANGED <<arrays, methodsOf>>

Key(c, prop, k) ==
    /\ keysOf' = With(keysOf, <<c, prop>>,
                      Append(IF <<c, prop>> \in DOMAIN keysOf
                             THEN keysOf[<<c, prop>>] ELSE <<>>, k))
    /\ UNCHANGED <<arrays, methodsOf>>

Decorate ==
    /\ ~Loaded
    /\ loaded' = loaded + 1
    /\ LET d == server.decorators[loaded + 1]
       IN IF d.verb = "key"
          THEN Key(d.class, d.prop, [from |-> d.from, to |-> d.to])
          ELSE MethodFactory(d.class, d.prop, <<d.verb, d.sub>>)
    /\ UNCHANGED server

-----------------------------------------------------------------------------
AllPropertyNames(c) ==
    FoldLeft(LAMBDA names, d : names \o server.props[d], <<>>, Chain(c))

NoMethod == [call |-> None, key |-> <<>>]

(* findODataMethod(): a decorated method with as many keys as the URL has,     *)
(* then one with the name of the HTTP method, then either with any keys.       *)
Rank(c, type, key, prop) ==
    LET fits == Len(GetKeys(c, prop)) = Len(key)
    IN IF type \in Range(GetMethod(c, prop)) THEN IF fits THEN 1 ELSE 3
       ELSE IF type = <<prop, "">> THEN IF fits THEN 2 ELSE 4
       ELSE 5

FindODataMethod(c, type, key) ==
    LET names == AllPropertyNames(c)
        ranked == {<<Rank(c, type, key, names[i]), i>> : i \in DOMAIN names}
        candidates == {r \in ranked : r[1] < 5}
    IN IF candidates = {} THEN NoMethod
       ELSE LET best == CHOOSE r \in candidates :
                            \A q \in candidates : r[1] < q[1]
                                                  \/ (r[1] = q[1] /\ r[2] <= q[2])
                name == names[best[2]]
                keys == GetKeys(c, name)
            IN [call |-> name, key |-> IF Len(keys) = Len(key) THEN keys ELSE <<>>]

(* fnDesc.key renames the keys of the URL to the method's parameters, one      *)
(* after the other; a single key is passed whatever its name.                  *)
Undefined == 0
Value(params, name) == IF name \in DOMAIN params THEN params[name] ELSE Undefined
Rename(params, k) ==
    IF k.to = k.from THEN params
    ELSE LET moved == With(params, k.to, Value(params, k.from))
         IN [n \in DOMAIN moved \ {k.from} |-> moved[n]]
KeyParams(key) ==
    [n \in {key[i].name : i \in DOMAIN key} |->
        (CHOOSE k \in Range(key) : k.name = n).value]

(* The keys of the URL as well, under the names they have there.               *)
KeysAgain(params, key) ==
    LET given == KeyParams(key)
    IN [n \in DOMAIN given \cup DOMAIN params |->
            IF n \in DOMAIN given THEN given[n] ELSE params[n]]

RenameAll(params, fnKey) ==
    LET renamed[n \in 0..Len(fnKey)] ==
            IF n = 0 THEN params ELSE Rename(renamed[n - 1], fnKey[n])
    IN renamed[Len(fnKey)]

\* Mutant: a single key is passed under the name it has in the URL.
AssignKeysByName(params, fnKey, key) == RenameAll(params, fnKey)

AssignKeys(params, fnKey, key) ==
    IF Len(fnKey) = 1 /\ Len(key) = 1 /\ fnKey[1].to # key[1].name
    THEN Rename(params, [from |-> key[1].name, to |-> fnKey[1].to])
    ELSE RenameAll(params, fnKey)

-----------------------------------------------------------------------------
(* What the decorators say without the sharing: a method has the types that    *)
(* were declared for it in its class and the classes above.                    *)
DeclaredTypes(c, prop) ==
    {<<d.verb, d.sub>> : d \in {e \in Range(server.decorators) :
        e.verb # "key" /\ e.prop = prop /\ e.class \in Range(Chain(c))}}
(* Its keys are those of the nearest class that declares any, in order.        *)
KeyDecorators(c, prop) ==
    {i \in DOMAIN server.decorators :
        LET d == server.decorators[i]
        IN d.verb = "key" /\ d.class = c /\ d.prop = prop}
DeclaredKeys(c, prop) ==
    LET has == {n \in DOMAIN Chain(c) : KeyDecorators(Chain(c)[n], prop) # {}}
    IN IF has = {} THEN {} ELSE KeyDecorators(Chain(c)[Min(has)], prop)
AreKeysOf(keys, decorators) ==
    /\ Len(keys) = Cardinality(decorators)
    /\ \A i \in decorators :
           LET d == server.decorators[i]
               before == {j \in decorators : j < i}
           IN keys[Cardinality(before) + 1] = [from |-> d.from, to |-> d.to]

(* Overrides repeat the type they inherit; one that declares another type      *)
(* would write it into the array of its ancestor, and so of all its siblings.  *)
OverridesRepeat ==
    \A d \in Range(server.decorators) :
        \A a \in Range(Chain(d.class)) \ {d.class} :
            d.verb # "key" /\ d.prop \in Range(server.props[a]) =>
                <<d.verb, d.sub>> \in DeclaredTypes(a, d.prop)

(* Once the classes have loaded, every class serves what its own declarations  *)
(* and those above it say: decorators of one class never reach a class that    *)
(* does not inherit from it, in whatever order the classes load.               *)
DispatchIsLocal ==
    Loaded =>
        \A c \in Classes : \A p \in Range(AllPropertyNames(c)) :
            /\ OverridesRepeat => Range(GetMethod(c, p)) = DeclaredTypes(c, p)
            /\ AreKeysOf(GetKeys(c, p), DeclaredKeys(c, p))
=============================================================================
