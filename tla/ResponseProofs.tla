---------------------------- MODULE ResponseProofs ----------------------------
(* What holds of a request from its dispatch to its response, for every        *)
(* server, every URL, every database, every script of a streaming method and   *)
(* any high-water marks.                                                       *)
EXTENDS Response, SequenceTheorems, FiniteSetTheorems, WellFoundedInduction, TLAPS

-------------------------------------------------------------------------------
(* The metadata and the stages: decorators reach the classes that inherit from *)
(* theirs and no others, and a write is written once.                          *)

(* The decorator with a number, the method it is on and the type it gives it.  *)
Class(i) == server.decorators[i].class
Prop(i) == server.decorators[i].prop
Type(i) == <<server.decorators[i].verb, server.decorators[i].sub>>
IsKey(i) == server.decorators[i].verb = "key"

(* The decorators of methods, and of keys, that have run.                      *)
Methods == {i \in 1..loaded : ~IsKey(i)}
Keys(c, prop) == {i \in KeyDecorators(c, prop) : i <= loaded}
Named(i) == [from |-> server.decorators[i].from, to |-> server.decorators[i].to]
Place(i, decorators) == Cardinality({j \in decorators : j < i}) + 1
ArrayOf(i) == methodsOf[<<Class(i), Prop(i)>>]

DispatchTypes ==
    /\ server \in Servers
    /\ loaded \in 0..Len(server.decorators)
    /\ arrays \in Seq(Seq(STRING \X STRING))
    /\ DOMAIN methodsOf = {<<Class(i), Prop(i)>> : i \in Methods}
    /\ \A i \in Methods : ArrayOf(i) \in 1..Len(arrays)

(* Who inherits from a class that declares a method shares its array, and who  *)
(* shares an array inherits from one class that declares the method.           *)
SharingInv ==
    /\ \A i, j \in Methods :
           Prop(i) = Prop(j) /\ Class(j) \in Range(Chain(Class(i))) => ArrayOf(i) = ArrayOf(j)
    /\ \A i, j \in Methods :
           ArrayOf(i) = ArrayOf(j) =>
               /\ Prop(i) = Prop(j)
               /\ \E h \in Methods : /\ Prop(h) = Prop(i)
                                     /\ Class(h) \in Range(Chain(Class(i)))
                                     /\ Class(h) \in Range(Chain(Class(j)))

(* An array holds what the classes that share it have declared.                *)
ContentInv ==
    \A a \in 1..Len(arrays) :
        \A type : type \in Range(arrays[a]) <=>
                      \E i \in Methods : ArrayOf(i) = a /\ Type(i) = type

(* A class has the keys of its own decorators.                                 *)
KeysInv ==
    /\ \A c, prop : <<c, prop>> \in DOMAIN keysOf <=> Keys(c, prop) # {}
    /\ \A c, prop : Keys(c, prop) # {} =>
           /\ keysOf[<<c, prop>>] \in Seq([from : STRING, to : STRING])
           /\ Len(keysOf[<<c, prop>>]) = Cardinality(Keys(c, prop))
           /\ \A i \in Keys(c, prop) :
                  keysOf[<<c, prop>>][Place(i, Keys(c, prop))] = Named(i)

DispatchInv == DispatchTypes /\ SharingInv /\ ContentInv /\ KeysInv

-----------------------------------------------------------------------------
(* Every nonempty set of natural numbers has a least element.                  *)
LEMMA LeastNumber ==
    ASSUME NEW S, S \subseteq Nat, S # {}
    PROVE  \E m \in S : \A k \in S : m <= k
  <1> DEFINE R == OpToRel(<, Nat)
  <1>1. \A k, m \in Nat : k < m => <<k, m>> \in R
    BY DEF OpToRel
  <1>2. IsWellFoundedOn(R, Nat)
    BY NatLessThanWellFounded, Zenon DEF OpToRel
  <1> HIDE DEF R
  <1>3. PICK m \in S : \A k \in S : ~(<<k, m>> \in R)
    BY <1>2, WFMin
  <1>4. m \in Nat /\ \A k \in S : k \in Nat /\ ~(k < m)
    BY <1>1, <1>3
  <1>5. \A k \in S : m <= k
    BY <1>4
  <1> QED
    BY <1>5

(* A chain begins with its class, and that of an ancestor is the rest of it.   *)
LEMMA ChainFacts ==
    ASSUME server \in Servers, NEW c \in Classes
    PROVE  /\ Chain(c) \in Seq(Classes) /\ Chain(c) # <<>>
           /\ DOMAIN Chain(c) = 1..Len(Chain(c)) /\ Len(Chain(c)) \in Nat
           /\ Range(Chain(c)) \subseteq Classes /\ c \in Range(Chain(c))
           /\ \A n \in DOMAIN Chain(c) :
                  /\ Chain(c)[n] \in Range(Chain(c))
                  /\ Range(Chain(Chain(c)[n])) =
                         {Chain(c)[m] : m \in {k \in DOMAIN Chain(c) : n <= k}}
  <1>1. /\ Chain(c) \in Seq(Classes) /\ Chain(c) # <<>> /\ Chain(c)[1] = c
        /\ \A n \in DOMAIN Chain(c) : Chain(Chain(c)[n]) = SubSeq(Chain(c), n, Len(Chain(c)))
    BY ServersAssumption DEF IsServer, Classes, Chain
  <1>2. Len(Chain(c)) \in Nat /\ DOMAIN Chain(c) = 1..Len(Chain(c))
    BY <1>1, LenProperties
  <1>3. Len(Chain(c)) # 0
    BY <1>1, EmptySeq
  <1>4. 1 \in DOMAIN Chain(c)
    BY <1>2, <1>3
  <1>5. \A n \in DOMAIN Chain(c) : Chain(c)[n] \in Range(Chain(c)) /\ Chain(c)[n] \in Classes
    BY <1>1, <1>2, ElementOfSeq DEF Range
  <1>6. ASSUME NEW n \in DOMAIN Chain(c)
        PROVE  Range(Chain(Chain(c)[n])) =
                   {Chain(c)[m] : m \in {k \in DOMAIN Chain(c) : n <= k}}
    <2> DEFINE s == Chain(c)
               t == SubSeq(s, n, Len(s))
    <2>1. n \in 1..Len(s) /\ Len(s) \in Nat
      BY <1>2
    <2>2. Len(t) = Len(s) - n + 1 /\ \A i \in 1..(Len(s) - n + 1) : t[i] = s[n + i - 1]
      <3>1. \A i \in n..Len(s) : s[i] \in Classes
        BY <1>2, <1>5, <2>1
      <3>2. n <= Len(s) /\ n \in Int /\ Len(s) \in Int
        BY <2>1
      <3> QED
        BY <3>1, <3>2, SubSeqProperties
    <2>3. t \in Seq(Classes)
      <3>1. \A i \in n..Len(s) : s[i] \in Classes
        BY <1>2, <1>5, <2>1
      <3> QED
        BY <2>1, <3>1, SubSeqProperties
    <2>4. DOMAIN t = 1..(Len(s) - n + 1)
      BY <2>2, <2>3, LenProperties
    <2>5. Chain(Chain(c)[n]) = t
      BY <1>1
    <2> HIDE DEF s, t
    <2>6. \A i \in DOMAIN t : n + i - 1 \in 1..Len(s) /\ n <= n + i - 1 /\ t[i] = s[n + i - 1]
      <3>1. \A i \in 1..(Len(s) - n + 1) : n + i - 1 \in 1..Len(s) /\ n <= n + i - 1
        BY <2>1
      <3> QED
        BY <2>2, <2>4, <3>1
    <2>7. \A k \in 1..Len(s) : n <= k => k - n + 1 \in DOMAIN t /\ t[k - n + 1] = s[k]
      <3>1. \A k \in 1..Len(s) : n <= k => /\ k - n + 1 \in 1..(Len(s) - n + 1)
                                            /\ n + (k - n + 1) - 1 = k
        BY <2>1
      <3> QED
        BY <2>2, <2>4, <3>1
    <2>8. Range(t) = {s[m] : m \in {k \in 1..Len(s) : n <= k}}
      BY <2>6, <2>7 DEF Range
    <2> QED
      BY <1>2, <2>5, <2>8 DEF s
  <1> QED
    BY <1>1, <1>2, <1>4, <1>5, <1>6 DEF Range

(* Ancestors of ancestors are ancestors, and of two ancestors of a class one   *)
(* inherits from the other.                                                    *)
LEMMA ChainOrder ==
    ASSUME server \in Servers, NEW c \in Classes
    PROVE  /\ \A d \in Range(Chain(c)) : Range(Chain(d)) \subseteq Range(Chain(c))
           /\ \A d, e \in Range(Chain(c)) : d \in Range(Chain(e)) \/ e \in Range(Chain(d))
  <1>1. /\ DOMAIN Chain(c) = 1..Len(Chain(c)) /\ Len(Chain(c)) \in Nat
        /\ \A n \in DOMAIN Chain(c) :
               /\ Chain(c)[n] \in Range(Chain(c))
               /\ Range(Chain(Chain(c)[n])) =
                      {Chain(c)[m] : m \in {k \in DOMAIN Chain(c) : n <= k}}
    BY ChainFacts
  <1>2. \A d \in Range(Chain(c)) : \E n \in DOMAIN Chain(c) : d = Chain(c)[n]
    BY DEF Range
  <1>3. \A m, n \in DOMAIN Chain(c) : m <= n \/ n <= m
    BY <1>1
  <1> QED
    BY <1>1, <1>2, <1>3

(* What a decorator is.                                                        *)
LEMMA DecoratorTypes ==
    ASSUME server \in Servers
    PROVE  /\ Len(server.decorators) \in Nat
           /\ DOMAIN server.decorators = 1..Len(server.decorators)
           /\ \A i \in 1..Len(server.decorators) :
                  /\ server.decorators[i] \in Decorator
                  /\ Class(i) \in Classes /\ Prop(i) \in Range(server.props[Class(i)])
                  /\ Type(i) \in STRING \X STRING
           /\ \A i, j \in 1..Len(server.decorators) :
                  Class(j) \in Range(Chain(Class(i))) /\ Class(j) # Class(i) => j < i
  <1>1. /\ server.decorators \in Seq(Decorator)
        /\ \A i, j \in DOMAIN server.decorators :
              /\ Class(i) \in Classes /\ Prop(i) \in Range(server.props[Class(i)])
              /\ Class(j) \in Range(Chain(Class(i))) \ {Class(i)} => j < i
    BY ServersAssumption DEF IsServer, Class, Prop, Classes, Chain
  <1>2. /\ Len(server.decorators) \in Nat
        /\ DOMAIN server.decorators = 1..Len(server.decorators)
    BY <1>1, LenProperties
  <1>3. \A i \in 1..Len(server.decorators) : server.decorators[i] \in Decorator
    BY <1>1, <1>2, ElementOfSeq
  <1> QED
    BY <1>1, <1>2, <1>3 DEF Type, Decorator

(* getMetadata takes what the nearest class of the chain has.                  *)
LEMMA Lookup ==
    ASSUME server \in Servers, NEW c \in Classes, NEW metadata, NEW prop, NEW absent
    PROVE  \/ /\ \A d \in Range(Chain(c)) : <<d, prop>> \notin DOMAIN metadata
              /\ GetMetadata(metadata, c, prop, absent) = absent
           \/ \E n \in DOMAIN Chain(c) :
                  /\ <<Chain(c)[n], prop>> \in DOMAIN metadata
                  /\ \A m \in 1..(n - 1) : <<Chain(c)[m], prop>> \notin DOMAIN metadata
                  /\ GetMetadata(metadata, c, prop, absent) = metadata[<<Chain(c)[n], prop>>]
  <1> DEFINE chain == Chain(c)
             has(n) == <<chain[n], prop>> \in DOMAIN metadata
             nearest == CHOOSE n \in DOMAIN chain : has(n) /\ \A m \in 1..(n - 1) : ~has(m)
  <1>1. DOMAIN chain = 1..Len(chain) /\ Len(chain) \in Nat
    BY ChainFacts
  <1>2. GetMetadata(metadata, c, prop, absent) =
            IF \E n \in DOMAIN chain : has(n) THEN metadata[<<chain[nearest], prop>>]
            ELSE absent
    BY Zenon DEF GetMetadata
  <1>3. CASE ~\E n \in DOMAIN chain : has(n)
    BY <1>2, <1>3 DEF Range
  <1>4. CASE \E n \in DOMAIN chain : has(n)
    <2> DEFINE S == {n \in DOMAIN chain : has(n)}
    <2>1. S \subseteq Nat /\ S # {}
      BY <1>1, <1>4
    <2>2. PICK n \in S : \A k \in S : n <= k
      BY <2>1, LeastNumber, Zenon
    <2>3. n \in DOMAIN chain /\ has(n) /\ \A m \in 1..(n - 1) : ~has(m)
      <3>1. \A m \in 1..(n - 1) : m \in DOMAIN chain /\ ~(n <= m)
        BY <1>1, <2>2
      <3> QED
        BY <2>2, <3>1
    <2>4. nearest \in DOMAIN chain /\ has(nearest) /\ \A m \in 1..(nearest - 1) : ~has(m)
      <3> HIDE DEF has, chain
      <3> QED
        BY <2>3, Zenon
    <2> QED
      BY <1>2, <1>4, <2>4, Zenon
  <1> QED
    BY <1>3, <1>4

-----------------------------------------------------------------------------
(* What a sequence of one holds.                                               *)
LEMMA RangeOfOne ==
    ASSUME NEW S, NEW x \in S
    PROVE  /\ <<x>> \in Seq(S) /\ Len(<<x>>) = 1 /\ <<x>>[1] = x
           /\ Range(<<x>>) = {x}
  BY DEF Range

(* What two sequences in a row hold.                                           *)
LEMMA RangeOfBoth ==
    ASSUME NEW S, NEW s \in Seq(S), NEW t \in Seq(S)
    PROVE  s \o t \in Seq(S) /\ Range(s \o t) = Range(s) \cup Range(t)
  <1>1. /\ s \o t \in Seq(S) /\ Len(s \o t) = Len(s) + Len(t)
        /\ \A i \in 1..Len(s) + Len(t) :
               (s \o t)[i] = IF i <= Len(s) THEN s[i] ELSE t[i - Len(s)]
    BY ConcatProperties
  <1>2. /\ DOMAIN s = 1..Len(s) /\ DOMAIN t = 1..Len(t)
        /\ DOMAIN (s \o t) = 1..(Len(s) + Len(t)) /\ Len(s) \in Nat /\ Len(t) \in Nat
    BY <1>1, LenProperties
  <1> DEFINE both == s \o t
  <1> HIDE DEF both
  <1>3. \A i \in 1..Len(s) : i \in DOMAIN both /\ both[i] = s[i]
    BY <1>1, <1>2 DEF both
  <1>4. \A i \in 1..Len(t) : Len(s) + i \in DOMAIN both /\ both[Len(s) + i] = t[i]
    <2>1. \A i \in 1..Len(t) : /\ Len(s) + i \in 1..(Len(s) + Len(t)) /\ ~(Len(s) + i <= Len(s))
                               /\ (Len(s) + i) - Len(s) = i
      BY <1>2
    <2> QED
      BY <1>1, <1>2, <2>1 DEF both
  <1>5. \A i \in DOMAIN both : \/ i \in 1..Len(s) /\ both[i] = s[i]
                               \/ i - Len(s) \in 1..Len(t) /\ both[i] = t[i - Len(s)]
    BY <1>1, <1>2 DEF both
  <1>6. both \in Seq(S)
    BY <1>1 DEF both
  <1>7. \A x : x \in Range(both) <=> x \in Range(s) \cup Range(t)
    <2>1. ASSUME NEW i \in DOMAIN both
          PROVE  both[i] \in Range(s) \cup Range(t)
      BY <1>2, <1>5 DEF Range
    <2>2. ASSUME NEW i \in DOMAIN s
          PROVE  s[i] \in Range(both)
      BY <1>2, <1>3 DEF Range
    <2>3. ASSUME NEW i \in DOMAIN t
          PROVE  t[i] \in Range(both)
      BY <1>2, <1>4 DEF Range
    <2> QED
      BY <2>1, <2>2, <2>3 DEF Range
  <1> QED
    BY <1>6, <1>7 DEF both

(* The method decorator that runs next, if it is one.                          *)
LEMMA MethodStep ==
    ASSUME DispatchInv, Decorate, NEW next, next = loaded + 1, ~IsKey(next)
    PROVE  DispatchInv'
  <1> DEFINE c == Class(next)
             prop == Prop(next)
             a == GetMetadata(methodsOf, c, prop, 0)
             target == IF a = 0 THEN Len(arrays) + 1 ELSE a
  <1>1. /\ server \in Servers /\ server' = server
        /\ loaded \in Nat /\ loaded < Len(server.decorators) /\ loaded' = next
        /\ Len(server.decorators) \in Nat /\ Len(arrays) \in Nat
    <2>1. Len(server.decorators) \in Nat
      BY DecoratorTypes DEF DispatchInv, DispatchTypes
    <2>2. loaded # Len(server.decorators) /\ loaded' = next /\ server' = server
      BY DEF Decorate, Loaded
    <2> QED
      BY <2>1, <2>2, LenProperties DEF DispatchInv, DispatchTypes
  <1>2. /\ arrays' = IF a = 0 THEN Append(arrays, <<Type(next)>>)
                     ELSE [arrays EXCEPT ![a] = <<Type(next)>> \o @]
        /\ methodsOf' = With(methodsOf, <<c, prop>>, target)
        /\ keysOf' = keysOf
    <2>1. MethodFactory(c, prop, Type(next))
      BY DEF Decorate, IsKey, Class, Prop, Type
    <2> QED
      BY <2>1 DEF MethodFactory
  <1>3. next \in 1..Len(server.decorators) /\ \A i \in 1..loaded : i \in 1..Len(server.decorators) /\ i < next
    BY <1>1
  <1>4. /\ c \in Classes /\ prop \in STRING /\ Type(next) \in STRING \X STRING
        /\ \A i \in Methods : Class(i) \in Classes
        /\ \A i \in Methods : c \in Range(Chain(Class(i))) => Class(i) = c
    <2>1. \A i \in Methods : i \in 1..Len(server.decorators) /\ ~(next < i)
      BY <1>1, <1>3 DEF Methods
    <2> QED
      BY <1>1, <1>3, <2>1, DecoratorTypes DEF Decorator, Prop
  <1>5. Methods' = Methods \cup {next} /\ next \notin Methods
    <2>1. loaded + 1 = next /\ 1..next = 1..loaded \cup {next}
      BY <1>1
    <2> QED
      BY <1>1, <2>1 DEF Methods, IsKey
  <1>6. \A i : Class(i)' = Class(i) /\ Prop(i)' = Prop(i) /\ Type(i)' = Type(i)
    BY <1>1 DEF Class, Prop, Type
  <1>7. \A d : Chain(d)' = Chain(d)
    BY <1>1 DEF Chain
  (* The array that is found is shared by the nearest class of the chain.      *)
  <1>8. \/ /\ a = 0
           /\ \A i \in Methods : Prop(i) = prop => Class(i) \notin Range(Chain(c))
        \/ \E h \in Methods : /\ Prop(h) = prop /\ Class(h) \in Range(Chain(c))
                               /\ a = ArrayOf(h)
    <2>1. CASE /\ \A d \in Range(Chain(c)) : <<d, prop>> \notin DOMAIN methodsOf
               /\ a = 0
      <3>1. \A i \in Methods : <<Class(i), Prop(i)>> \in DOMAIN methodsOf
        BY DEF DispatchInv, DispatchTypes
      <3> QED
        BY <2>1, <3>1
    <2>2. ASSUME NEW n \in DOMAIN Chain(c), <<Chain(c)[n], prop>> \in DOMAIN methodsOf,
                 a = methodsOf[<<Chain(c)[n], prop>>]
          PROVE  \E h \in Methods : /\ Prop(h) = prop /\ Class(h) \in Range(Chain(c))
                                   /\ a = ArrayOf(h)
      <3>1. PICK h \in Methods : <<Chain(c)[n], prop>> = <<Class(h), Prop(h)>>
        BY <2>2 DEF DispatchInv, DispatchTypes
      <3>2. Chain(c)[n] = Class(h) /\ prop = Prop(h)
        BY <3>1
      <3> QED
        BY <2>2, <3>2 DEF Range, ArrayOf
    <2> QED
      <3>1. \/ /\ \A d \in Range(Chain(c)) : <<d, prop>> \notin DOMAIN methodsOf
               /\ a = 0
            \/ \E n \in DOMAIN Chain(c) :
                   /\ <<Chain(c)[n], prop>> \in DOMAIN methodsOf
                   /\ a = methodsOf[<<Chain(c)[n], prop>>]
        <4> HIDE DEF c, prop
        <4>1. server \in Servers /\ c \in Classes
          BY <1>1, <1>4
        <4> QED
          BY <4>1, Lookup
      <3> QED
        BY <2>1, <2>2, <3>1, Zenon
  <1> HIDE DEF a
  <1>9. \A i \in Methods : ArrayOf(i) \in 1..Len(arrays)
    BY DEF DispatchInv, DispatchTypes
  (* Nobody else's array changes.                                              *)
  <1>10. /\ ArrayOf(next)' = target
         /\ \A i \in Methods : ArrayOf(i)' = ArrayOf(i)
    <2>1. \A i \in Methods : <<Class(i), Prop(i)>> \in DOMAIN methodsOf
      BY DEF DispatchInv, DispatchTypes
    <2>2. ASSUME NEW i \in Methods, <<Class(i), Prop(i)>> = <<c, prop>>
          PROVE  target = ArrayOf(i)
      <3>1. Class(i) = c /\ Prop(i) = prop /\ c \in Range(Chain(c))
        BY <1>1, <1>4, <2>2, ChainFacts
      <3>2. PICK h \in Methods : /\ Prop(h) = prop /\ Class(h) \in Range(Chain(c))
                                 /\ a = ArrayOf(h)
        BY <1>8, <3>1
      <3>3. ArrayOf(i) = ArrayOf(h)
        BY <3>1, <3>2 DEF DispatchInv, SharingInv
      <3>4. a # 0
        BY <1>9, <3>2
      <3> QED
        BY <3>2, <3>3, <3>4
    <2>3. ArrayOf(next)' = methodsOf'[<<c, prop>>]
      BY <1>6 DEF ArrayOf
    <2>4. \A i \in Methods : ArrayOf(i)' = methodsOf'[<<Class(i), Prop(i)>>]
      BY <1>6 DEF ArrayOf
    <2> HIDE DEF target, c, prop
    <2> QED
      BY <1>2, <2>1, <2>2, <2>3, <2>4 DEF With, ArrayOf
  <1>11. /\ Len(arrays') \in Nat /\ arrays' \in Seq(Seq(STRING \X STRING))
         /\ target \in 1..Len(arrays') /\ Len(arrays) <= Len(arrays')
         /\ a = 0 => Len(arrays') = Len(arrays) + 1
         /\ a # 0 => Len(arrays') = Len(arrays) /\ a \in 1..Len(arrays)
         /\ \A n \in 1..Len(arrays) : n # target => arrays'[n] = arrays[n]
         /\ \A type : type \in Range(arrays'[target]) <=>
                \/ type = Type(next)
                \/ a # 0 /\ type \in Range(arrays[target])
    <2>1. arrays \in Seq(Seq(STRING \X STRING)) /\ DOMAIN arrays = 1..Len(arrays)
      BY LenProperties DEF DispatchInv, DispatchTypes
    <2> DEFINE one == <<Type(next)>>
    <2>2. /\ one \in Seq(STRING \X STRING) /\ Len(one) = 1 /\ one[1] = Type(next)
          /\ Range(one) = {Type(next)}
      BY <1>4, RangeOfOne
    <2> HIDE DEF one
    <2>3. CASE a = 0
      <3>1. arrays' = Append(arrays, one) /\ target = Len(arrays) + 1
        BY <1>2, <2>3 DEF one
      <3>2. /\ arrays' \in Seq(Seq(STRING \X STRING)) /\ Len(arrays') = Len(arrays) + 1
            /\ arrays'[target] = one /\ \A n \in 1..Len(arrays) : arrays'[n] = arrays[n]
        BY <2>1, <2>2, <3>1, AppendProperties
      <3> QED
        BY <1>1, <2>2, <2>3, <3>1, <3>2
    <2>4. CASE a # 0
      <3>1. target = a /\ a \in 1..Len(arrays)
        BY <1>8, <1>9, <2>4
      <3>2. arrays[a] \in Seq(STRING \X STRING)
        BY <2>1, <3>1, ElementOfSeq
      <3> DEFINE longer == one \o arrays[a]
      <3>3. longer \in Seq(STRING \X STRING) /\ Range(longer) = Range(one) \cup Range(arrays[a])
        BY <2>2, <3>2, RangeOfBoth
      <3> HIDE DEF longer
      <3>4. arrays' = [arrays EXCEPT ![a] = longer]
        BY <1>2, <2>4 DEF longer, one
      <3>5. arrays' \in Seq(Seq(STRING \X STRING)) /\ Len(arrays') = Len(arrays)
        BY <2>1, <3>1, <3>3, <3>4, ExceptSeq
      <3>6. arrays'[a] = longer /\ \A n \in 1..Len(arrays) : n # a => arrays'[n] = arrays[n]
        BY <2>1, <3>1, <3>4
      <3> QED
        BY <1>1, <2>2, <2>4, <3>1, <3>3, <3>5, <3>6
    <2> QED
      BY <2>3, <2>4
  <1>12. DispatchTypes'
    <2>1. DOMAIN methodsOf' = DOMAIN methodsOf \cup {<<c, prop>>}
      BY <1>2 DEF With
    <2>2. DOMAIN methodsOf' = {<<Class(i), Prop(i)>> : i \in Methods'}
      BY <1>5, <2>1 DEF DispatchInv, DispatchTypes
    <2>3. \A i \in Methods' : ArrayOf(i)' \in 1..Len(arrays')
      BY <1>1, <1>5, <1>9, <1>10, <1>11
    <2>4. loaded' \in 0..Len(server'.decorators)
      BY <1>1
    <2> QED
      BY <1>1, <1>6, <1>11, <2>2, <2>3, <2>4 DEF DispatchTypes
  <1>13. SharingInv'
    (* With the class of the decorator inherits only what it inherits from.     *)
    <2>1. ASSUME NEW i \in Methods, Prop(i) = prop, Class(i) \in Range(Chain(c))
          PROVE  target = ArrayOf(i)
      <3>1. PICK h \in Methods : /\ Prop(h) = prop /\ Class(h) \in Range(Chain(c))
                                 /\ a = ArrayOf(h)
        BY <1>8, <2>1
      <3>2. \/ Class(i) \in Range(Chain(Class(h)))
            \/ Class(h) \in Range(Chain(Class(i)))
        BY <1>1, <1>4, <2>1, <3>1, ChainOrder
      <3>3. ArrayOf(i) = ArrayOf(h)
        BY <2>1, <3>1, <3>2 DEF DispatchInv, SharingInv
      <3> QED
        BY <1>9, <3>1, <3>3
    <2>2. ASSUME NEW i \in Methods, c \in Range(Chain(Class(i)))
          PROVE  Class(i) = c /\ c \in Range(Chain(c))
      BY <1>1, <1>4, <2>2, ChainFacts
    <2>3. ASSUME NEW i \in Methods, target = ArrayOf(i)
          PROVE  /\ Prop(i) = prop
                 /\ \E h \in Methods : /\ Prop(h) = prop
                                       /\ Class(h) \in Range(Chain(c))
                                       /\ Class(h) \in Range(Chain(Class(i)))
      <3>1. a # 0
        BY <1>1, <1>9, <2>3
      <3>2. PICK h \in Methods : /\ Prop(h) = prop /\ Class(h) \in Range(Chain(c))
                                 /\ a = ArrayOf(h)
        BY <1>8, <3>1
      <3>3. ArrayOf(h) = ArrayOf(i)
        BY <2>3, <3>1, <3>2
      <3>4. Prop(h) = Prop(i)
        BY <3>3 DEF DispatchInv, SharingInv
      <3>5. PICK g \in Methods : /\ Prop(g) = Prop(h)
                                 /\ Class(g) \in Range(Chain(Class(h)))
                                 /\ Class(g) \in Range(Chain(Class(i)))
        BY <3>3 DEF DispatchInv, SharingInv
      <3>6. Class(g) \in Range(Chain(c))
        BY <1>1, <1>4, <3>2, <3>5, ChainOrder
      <3> QED
        BY <3>2, <3>4, <3>5, <3>6
    <2>4. c \in Range(Chain(c))
      BY <1>1, <1>4, ChainFacts
    <2> HIDE DEF target, c, prop
    <2>5. ASSUME NEW i \in Methods', NEW j \in Methods',
                 Prop(i) = Prop(j), Class(j) \in Range(Chain(Class(i)))
          PROVE  ArrayOf(i)' = ArrayOf(j)'
      <3>1. CASE i \in Methods /\ j \in Methods
        BY <1>10, <2>5, <3>1 DEF DispatchInv, SharingInv
      <3>2. CASE i = next /\ j \in Methods
        BY <1>10, <2>1, <2>5, <3>2 DEF c, prop
      <3>3. CASE i \in Methods /\ j = next
        <4>1. Class(i) = c /\ Prop(i) = prop
          BY <2>2, <2>5, <3>3 DEF c, prop
        <4> QED
          BY <1>10, <2>1, <2>4, <3>3, <4>1
      <3>4. CASE i = next /\ j = next
        BY <3>4
      <3> QED
        BY <1>5, <3>1, <3>2, <3>3, <3>4
    <2>6. ASSUME NEW i \in Methods', NEW j \in Methods', ArrayOf(i)' = ArrayOf(j)'
          PROVE  /\ Prop(i) = Prop(j)
                 /\ \E h \in Methods' : /\ Prop(h) = Prop(i)
                                        /\ Class(h) \in Range(Chain(Class(i)))
                                        /\ Class(h) \in Range(Chain(Class(j)))
      <3>1. CASE i \in Methods /\ j \in Methods
        <4>1. ArrayOf(i) = ArrayOf(j)
          BY <1>10, <2>6, <3>1
        <4> QED
          BY <1>5, <3>1, <4>1 DEF DispatchInv, SharingInv
      <3>2. CASE i = next /\ j \in Methods
        <4>1. target = ArrayOf(j)
          BY <1>10, <2>6, <3>2
        <4> QED
          BY <1>5, <2>3, <3>2, <4>1 DEF c, prop
      <3>3. CASE i \in Methods /\ j = next
        <4>1. target = ArrayOf(i)
          BY <1>10, <2>6, <3>3
        <4> QED
          BY <1>5, <2>3, <3>3, <4>1 DEF c, prop
      <3>4. CASE i = next /\ j = next
        BY <1>5, <2>4, <3>4 DEF c
      <3> QED
        BY <1>5, <3>1, <3>2, <3>3, <3>4
    <2> QED
      BY <1>6, <1>7, <2>5, <2>6 DEF SharingInv
  <1>14. ContentInv'
    <2> HIDE DEF target, c, prop
    <2>1. ASSUME NEW n \in 1..Len(arrays'), NEW type
          PROVE  type \in Range(arrays'[n]) <=>
                     \E i \in Methods' : ArrayOf(i)' = n /\ Type(i) = type
      <3>1. n \in 1..Len(arrays) =>
                (type \in Range(arrays[n]) <=> \E i \in Methods : ArrayOf(i) = n /\ Type(i) = type)
        BY DEF DispatchInv, ContentInv
      <3>2. CASE n = target
        <4>1. a = 0 => \A i \in Methods : ArrayOf(i) # target
          BY <1>1, <1>9 DEF target
        <4>2. a # 0 => target = a /\ a \in 1..Len(arrays)
          BY <1>11 DEF target
        <4> QED
          BY <1>5, <1>10, <1>11, <3>1, <3>2, <4>1, <4>2
      <3>3. CASE n # target
        <4>1. n \in 1..Len(arrays)
          BY <1>1, <1>11, <3>3 DEF target
        <4> QED
          BY <1>5, <1>10, <1>11, <3>1, <3>3, <4>1
      <3> QED
        BY <3>2, <3>3
    <2> QED
      BY <1>6, <2>1 DEF ContentInv
  <1>15. KeysInv'
    <2>1. \A d, p : KeyDecorators(d, p)' = KeyDecorators(d, p)
      BY <1>1 DEF KeyDecorators
    <2>2. \A d, p : next \notin KeyDecorators(d, p)
      BY DEF KeyDecorators, IsKey
    <2>3. \A d, p : Keys(d, p)' = Keys(d, p)
      <3>1. \A d, p : \A i \in KeyDecorators(d, p) : i <= next <=> i <= loaded
        <4>1. \A d, p : \A i \in KeyDecorators(d, p) : i \in Nat
          BY <1>1, DecoratorTypes DEF KeyDecorators
        <4> QED
          BY <1>1, <2>2, <4>1
      <3> QED
        BY <1>1, <2>1, <3>1 DEF Keys
    <2> QED
      <3>1. \A i : Named(i)' = Named(i)
        BY <1>1 DEF Named
      <3>2. \A i, decorators : Place(i, decorators)' = Place(i, decorators)
        BY DEF Place
      <3> QED
        BY <1>2, <2>3, <3>1, <3>2 DEF DispatchInv, KeysInv
  <1> QED
    BY <1>12, <1>13, <1>14, <1>15 DEF DispatchInv

(* A number above all others of a set comes last, and moves nobody.            *)
LEMMA LastPlace ==
    ASSUME NEW S, IsFiniteSet(S), S \subseteq Nat, NEW n \in Nat, \A i \in S : i < n
    PROVE  /\ IsFiniteSet(S \cup {n}) /\ Cardinality(S) \in Nat
           /\ Cardinality(S \cup {n}) = Cardinality(S) + 1
           /\ Place(n, S \cup {n}) = Cardinality(S) + 1
           /\ \A i \in S : /\ Place(i, S \cup {n}) = Place(i, S)
                           /\ Place(i, S) \in 1..Cardinality(S)
  <1>1. n \notin S /\ Cardinality(S) \in Nat
    BY FS_CardinalityType
  <1>2. IsFiniteSet(S \cup {n}) /\ Cardinality(S \cup {n}) = Cardinality(S) + 1
    BY <1>1, FS_AddElement
  <1>3. {j \in S \cup {n} : j < n} = S
    <2>1. \A j \in S : j < n
      OBVIOUS
    <2>2. ~(n < n)
      OBVIOUS
    <2> QED
      BY <2>1, <2>2, Zenon
  <1>4. ASSUME NEW i \in S
        PROVE  /\ Place(i, S \cup {n}) = Place(i, S)
               /\ Place(i, S) \in 1..Cardinality(S)
    <2> DEFINE T == {j \in S : j < i}
    <2>1. {j \in S \cup {n} : j < i} = T
      BY <1>4
    <2>2. T \subseteq S /\ T # S
      BY <1>4
    <2>3. Cardinality(T) \in Nat /\ Cardinality(T) < Cardinality(S)
      BY <1>1, <2>2, FS_Subset, FS_CardinalityType
    <2> HIDE DEF T
    <2>4. Place(i, S) = Cardinality(T) + 1
      BY DEF Place, T
    <2>5. Place(i, S \cup {n}) = Place(i, S)
      BY <2>1 DEF Place, T
    <2> QED
      BY <1>1, <2>3, <2>4, <2>5
  <1> QED
    BY <1>1, <1>2, <1>3, <1>4 DEF Place

(* The key decorator that runs next, if it is one.                             *)
LEMMA KeyStep ==
    ASSUME DispatchInv, Decorate, NEW next, next = loaded + 1, IsKey(next)
    PROVE  DispatchInv'
  <1>0. PICK c, prop : c = Class(next) /\ prop = Prop(next)
    OBVIOUS
  <1> DEFINE own == IF <<c, prop>> \in DOMAIN keysOf THEN keysOf[<<c, prop>>] ELSE <<>>
  <1>1. /\ server \in Servers /\ server' = server
        /\ loaded \in Nat /\ loaded < Len(server.decorators) /\ loaded' = next
        /\ Len(server.decorators) \in Nat
    <2>1. Len(server.decorators) \in Nat
      BY DecoratorTypes DEF DispatchInv, DispatchTypes
    <2>2. loaded # Len(server.decorators) /\ loaded' = next /\ server' = server
      BY DEF Decorate, Loaded
    <2> QED
      BY <2>1, <2>2 DEF DispatchInv, DispatchTypes
  <1>2. /\ keysOf' = With(keysOf, <<c, prop>>, Append(own, Named(next)))
        /\ arrays' = arrays /\ methodsOf' = methodsOf
    <2>1. Key(c, prop, Named(next))
      BY <1>0 DEF Decorate, IsKey, Class, Prop, Named
    <2> QED
      BY <2>1 DEF Key
  <1>3. next \in 1..Len(server.decorators) /\ next \in DOMAIN server.decorators
    BY <1>1, DecoratorTypes
  <1>4. /\ \A i : /\ Class(i)' = Class(i) /\ Prop(i)' = Prop(i) /\ Type(i)' = Type(i)
                  /\ Named(i)' = Named(i) /\ ArrayOf(i)' = ArrayOf(i)
        /\ \A d : Chain(d)' = Chain(d)
    BY <1>1, <1>2 DEF Class, Prop, Type, Named, ArrayOf, Chain
  <1>5. Methods' = Methods
    <2>1. loaded + 1 = next /\ 1..next = 1..loaded \cup {next}
      BY <1>1
    <2> QED
      BY <1>1, <2>1 DEF Methods, IsKey
  <1>6. DispatchTypes' /\ SharingInv' /\ ContentInv'
    <2>1. loaded' \in 0..Len(server'.decorators)
      BY <1>1
    <2> QED
      <3>1. DispatchTypes'
        BY <1>1, <1>2, <1>4, <1>5, <2>1 DEF DispatchInv, DispatchTypes
      <3>2. SharingInv'
        BY <1>4, <1>5 DEF DispatchInv, SharingInv
      <3>3. ContentInv'
        BY <1>2, <1>4, <1>5 DEF DispatchInv, ContentInv
      <3> QED
        BY <3>1, <3>2, <3>3
  <1>7. \A d, p : Keys(d, p)' = IF <<d, p>> = <<c, prop>> THEN Keys(d, p) \cup {next}
                               ELSE Keys(d, p)
    <2>1. \A d, p : KeyDecorators(d, p)' = KeyDecorators(d, p)
      BY <1>1 DEF KeyDecorators
    <2>2. \A d, p : next \in KeyDecorators(d, p) <=> d = c /\ p = prop
      BY <1>0, <1>3 DEF KeyDecorators, IsKey, Class, Prop
    <2>3. \A d, p : \A i \in KeyDecorators(d, p) : i <= next <=> i <= loaded \/ i = next
      <3>1. \A d, p : \A i \in KeyDecorators(d, p) : i \in Nat
        BY <1>1, DecoratorTypes DEF KeyDecorators
      <3> QED
        BY <1>1, <3>1
    <2>4. \A d, p : <<d, p>> = <<c, prop>> <=> d = c /\ p = prop
      OBVIOUS
    <2> QED
      BY <1>1, <2>1, <2>2, <2>3, <2>4 DEF Keys
  <1> DEFINE K == Keys(c, prop)
  <1>8. IsFiniteSet(K) /\ K \subseteq Nat /\ next \in Nat /\ \A i \in K : i < next
    <2>1. K \subseteq 1..loaded
      BY <1>1, DecoratorTypes DEF Keys, KeyDecorators
    <2>2. IsFiniteSet(1..loaded)
      BY <1>1, FS_Interval
    <2>3. IsFiniteSet(K)
      BY <2>1, <2>2, FS_Subset
    <2> QED
      BY <1>1, <2>1, <2>3
  <1>9. /\ own \in Seq([from : STRING, to : STRING]) /\ Len(own) = Cardinality(K)
        /\ \A i \in K : own[Place(i, K)] = Named(i)
    <2>1. CASE K = {}
      <3>1. own = <<>>
        BY <2>1 DEF DispatchInv, KeysInv
      <3>2. Len(own) = 0 /\ Cardinality(K) = 0
        BY <2>1, <3>1, FS_EmptySet
      <3> QED
        BY <2>1, <3>1, <3>2, EmptySeq
    <2>2. CASE K # {}
      <3>1. own = keysOf[<<c, prop>>]
        BY <2>2 DEF DispatchInv, KeysInv
      <3> QED
        BY <2>2, <3>1 DEF DispatchInv, KeysInv
    <2> QED
      BY <2>1, <2>2
  <1> HIDE DEF K, own
  <1>10. Named(next) \in [from : STRING, to : STRING]
    BY <1>1, <1>3, DecoratorTypes DEF Named, Decorator
  <1> DEFINE longer == Append(own, Named(next))
             all == K \cup {next}
  <1>11. /\ longer \in Seq([from : STRING, to : STRING])
         /\ Len(longer) = Len(own) + 1 /\ longer[Len(own) + 1] = Named(next)
         /\ \A n \in 1..Len(own) : longer[n] = own[n]
    BY <1>9, <1>10, AppendProperties
  <1>12. /\ Cardinality(all) = Cardinality(K) + 1 /\ Place(next, all) = Cardinality(K) + 1
         /\ \A i \in K : Place(i, all) = Place(i, K) /\ Place(i, K) \in 1..Cardinality(K)
    BY <1>8, LastPlace
  <1>13. Len(longer) = Cardinality(all) /\ \A i \in all : longer[Place(i, all)] = Named(i)
    <2> HIDE DEF longer
    <2>1. Len(longer) = Cardinality(all) /\ longer[Place(next, all)] = Named(next)
      BY <1>9, <1>11, <1>12
    <2>2. ASSUME NEW i \in K
          PROVE  longer[Place(i, all)] = Named(i)
      <3>1. Place(i, all) = Place(i, K) /\ Place(i, K) \in 1..Len(own)
        BY <1>9, <1>12
      <3> QED
        BY <1>9, <1>11, <3>1
    <2> QED
      BY <2>1, <2>2
  <1>14. KeysInv'
    <2> HIDE DEF longer
    <2>1. /\ DOMAIN keysOf' = DOMAIN keysOf \cup {<<c, prop>>}
          /\ keysOf'[<<c, prop>>] = longer
          /\ \A d, p : <<d, p>> \in DOMAIN keysOf /\ <<d, p>> # <<c, prop>> =>
                           keysOf'[<<d, p>>] = keysOf[<<d, p>>]
      BY <1>2 DEF With, longer
    <2>2. Keys(c, prop)' = all
      BY <1>7 DEF K
    <2>3. \A d, p : <<d, p>> # <<c, prop>> => Keys(d, p)' = Keys(d, p)
      BY <1>7
    <2>4. \A d, p : <<d, p>> \in DOMAIN keysOf' <=> Keys(d, p)' # {}
      <3>1. \A d, p : <<d, p>> \in DOMAIN keysOf <=> Keys(d, p) # {}
        BY DEF DispatchInv, KeysInv
      <3> QED
        BY <2>1, <2>2, <2>3, <3>1
    <2>5. \A i, S : /\ Place(i, S)' = Place(i, S) /\ Named(i)' = Named(i)
      BY <1>4 DEF Place
    <2>6. ASSUME NEW d, NEW p, Keys(d, p)' # {}
          PROVE  /\ keysOf'[<<d, p>>] \in Seq([from : STRING, to : STRING])
                 /\ Len(keysOf'[<<d, p>>]) = Cardinality(Keys(d, p)')
                 /\ \A i \in Keys(d, p)' : keysOf'[<<d, p>>][Place(i, Keys(d, p)')] = Named(i)
      <3>1. CASE <<d, p>> = <<c, prop>>
        <4>1. d = c /\ p = prop
          BY <3>1
        <4> QED
          BY <1>11, <1>13, <2>1, <2>2, <4>1
      <3>2. CASE <<d, p>> # <<c, prop>>
        <4>1. Keys(d, p)' = Keys(d, p) /\ <<d, p>> \in DOMAIN keysOf
          BY <2>3, <2>6, <3>2 DEF DispatchInv, KeysInv
        <4>2. keysOf'[<<d, p>>] = keysOf[<<d, p>>]
          BY <2>1, <3>2, <4>1
        <4> QED
          BY <2>6, <4>1, <4>2 DEF DispatchInv, KeysInv
      <3> QED
        BY <3>1, <3>2
    <2> QED
      BY <2>4, <2>5, <2>6 DEF KeysInv
  <1> QED
    BY <1>6, <1>14 DEF DispatchInv

(* The metadata do not depend on anything else.                               *)
LEMMA DispatchUnchanged ==
    ASSUME DispatchInv, UNCHANGED dispatchVars
    PROVE  DispatchInv'
  <1>1. UNCHANGED <<server, loaded, arrays, methodsOf, keysOf>>
    BY DEF dispatchVars
  <1>2. /\ \A i : /\ Class(i)' = Class(i) /\ Prop(i)' = Prop(i) /\ Type(i)' = Type(i)
                  /\ Named(i)' = Named(i) /\ ArrayOf(i)' = ArrayOf(i)
        /\ \A d : Chain(d)' = Chain(d)
        /\ Methods' = Methods /\ \A c, prop : Keys(c, prop)' = Keys(c, prop)
        /\ \A i, S : Place(i, S)' = Place(i, S)
    BY <1>1 DEF Class, Prop, Type, Named, ArrayOf, Chain, Methods, Keys, KeyDecorators,
       IsKey, Place
  <1>3. DispatchTypes'
    BY <1>1, <1>2 DEF DispatchInv, DispatchTypes
  <1>4. SharingInv' /\ ContentInv'
    BY <1>1, <1>2 DEF DispatchInv, SharingInv, ContentInv
  <1>5. KeysInv'
    BY <1>1, <1>2 DEF DispatchInv, KeysInv
  <1> QED
    BY <1>3, <1>4, <1>5 DEF DispatchInv

(* Only decorators write metadata: no segment of a URL, no read, no stream.    *)
LEMMA SegmentsOnlyRead ==
    ASSUME Working \/ StageResumes
    PROVE  Decorate \/ UNCHANGED dispatchVars
  <1>1. ASSUME NEW c, NEW part, NEW filter, Read(c, part, filter)
        PROVE  UNCHANGED dispatchVars
    BY <1>1, Zenon DEF Read, Fails
  <1>2. ASSUME NEW n, NEW key, NEW filter, Navigate(n, key, filter)
        PROVE  UNCHANGED dispatchVars
    BY <1>1, <1>2, Zenon DEF Navigate, NavigateByMethod
  <1>3. CASE EntitySetName \/ EntityCollectionNavigationProperty \/ EntityNavigationProperty
    BY <1>1, <1>2, <1>3, Zenon
       DEF EntitySetName, EntityCollectionNavigationProperty, EntityNavigationProperty, Fails
  <1>4. CASE Property
    BY <1>4, Zenon DEF Property, Fails
  <1>5. CASE BoundOperation \/ OperationImport \/ Count(resultCount) \/ Reference
    BY <1>5, Zenon DEF BoundOperation, OperationImport, Count, Reference, Answers, Stays,
                       FailsCalled, Fails
  <1>6. CASE RawValue
    BY <1>6, Zenon DEF RawValue, Answers, Stays, FailsCalled, Fails
  <1>7. CASE \/ Begin \/ Visit \/ PushStages \/ SkipStage \/ QualifiedTypeName
             \/ MethodThrows \/ Finish(Heard) \/ StageResumes
    BY <1>7, Zenon DEF Begin, Visit, PushStages, SkipStage, QualifiedTypeName,
       MethodThrows, Finish, StageResumes, StreamEnds, Fails
  <1>8. CASE Load
    BY <1>8 DEF Load
  <1> QED
    BY <1>3, <1>4, <1>5, <1>6, <1>7, <1>8, Zenon DEF Working

(* A step of the server that is no decorator leaves the metadata alone.        *)
LEMMA DispatchNext ==
    ASSUME DispatchInv, ResponseNext
    PROVE  DispatchInv'
  <1>1. CASE Decorate
    BY <1>1, MethodStep, KeyStep
  <1>2. CASE UNCHANGED dispatchVars
    BY <1>2, DispatchUnchanged
  <1>3. CASE StartStream \/ Streaming \/ Deliver \/ DeliverError \/ AfterAnswer
    <2>1. UNCHANGED dispatchVars
      BY <1>3, Zenon DEF StartStream, Streaming, Deliver, DeliverError, AfterAnswer,
                         processorVars
    <2> QED
      BY <1>2, <2>1
  <1> QED
    BY <1>1, <1>2, <1>3, SegmentsOnlyRead, Zenon DEF ResponseNext

(* Before the first decorator there is no metadata.                            *)
LEMMA DispatchBegins ==
    ASSUME ResponseInit
    PROVE  DispatchInv
  <1>1. /\ server \in Servers /\ loaded = 0 /\ arrays = <<>> /\ methodsOf = <<>>
        /\ keysOf = <<>>
    BY DEF ResponseInit, ProcessorInit, DispatchInit
  <1>2. DOMAIN <<>> = {} /\ Len(<<>>) = 0 /\ 1..0 = {}
    OBVIOUS
  <1>3. Methods = {}
    BY <1>1, <1>2 DEF Methods
  <1>4. \A c, prop : Keys(c, prop) = {}
    <2>1. \A c, prop : \A i \in KeyDecorators(c, prop) : i \in 1..Len(server.decorators)
      BY <1>1, DecoratorTypes DEF KeyDecorators
    <2> QED
      BY <1>1, <2>1, DecoratorTypes DEF Keys
  <1>5. DispatchTypes
    BY <1>1, <1>2, <1>3, EmptySeq, DecoratorTypes DEF DispatchTypes
  <1>6. SharingInv /\ ContentInv /\ KeysInv
    BY <1>1, <1>2, <1>3, <1>4 DEF SharingInv, ContentInv, KeysInv
  <1> QED
    BY <1>5, <1>6 DEF DispatchInv

(* In whatever order the classes of a server load, its metadata are those of   *)
(* the decorators that have run, shared as the inheritance of the classes says.*)
THEOREM MetadataHolds == ResponseSpec => []DispatchInv
  <1>1. ASSUME DispatchInv, UNCHANGED responseVars
        PROVE  DispatchInv'
    BY <1>1, DispatchUnchanged DEF responseVars, processorVars
  <1>2. DispatchInv /\ [ResponseNext]_responseVars => DispatchInv'
    BY <1>1, DispatchNext
  <1> QED
    BY <1>2, DispatchBegins, PTL DEF ResponseSpec

(* Once the classes have loaded: the types of a method.                        *)
LEMMA TypesAreDeclared ==
    ASSUME DispatchInv, Loaded, OverridesRepeat, NEW c \in Classes, NEW p
    PROVE  Range(GetMethod(c, p)) = DeclaredTypes(c, p)
  <1>1. /\ server \in Servers /\ DOMAIN server.decorators = 1..loaded
        /\ \A i \in Methods : i \in 1..loaded /\ Class(i) \in Classes
    BY DecoratorTypes DEF DispatchInv, DispatchTypes, Loaded, Methods
  (* Who declares what, by the numbers of the decorators.                      *)
  <1>2. \A d, type :
            type \in DeclaredTypes(d, p) <=>
                \E i \in Methods : /\ Prop(i) = p /\ Class(i) \in Range(Chain(d))
                                  /\ Type(i) = type
    BY <1>1 DEF DeclaredTypes, Methods, Range, Prop, Class, Type, IsKey
  <1>3. CASE /\ \A d \in Range(Chain(c)) : <<d, p>> \notin DOMAIN methodsOf
             /\ GetMetadata(methodsOf, c, p, 0) = 0
    <2>1. \A i \in Methods : ~(Prop(i) = p /\ Class(i) \in Range(Chain(c)))
      BY <1>3 DEF DispatchInv, DispatchTypes
    <2>2. GetMethod(c, p) = <<>>
      BY <1>3 DEF GetMethod
    <2>3. Range(GetMethod(c, p)) = {}
      BY <2>2 DEF Range
    <2> QED
      BY <1>2, <2>1, <2>3
  <1>4. ASSUME NEW n \in DOMAIN Chain(c), <<Chain(c)[n], p>> \in DOMAIN methodsOf,
               GetMetadata(methodsOf, c, p, 0) = methodsOf[<<Chain(c)[n], p>>]
        PROVE  Range(GetMethod(c, p)) = DeclaredTypes(c, p)
    <2>1. PICK h \in Methods : <<Chain(c)[n], p>> = <<Class(h), Prop(h)>>
      BY <1>4 DEF DispatchInv, DispatchTypes
    <2>2. /\ Prop(h) = p /\ Class(h) \in Range(Chain(c))
          /\ GetMetadata(methodsOf, c, p, 0) = ArrayOf(h)
      BY <1>4, <2>1 DEF Range, ArrayOf
    <2>3. ArrayOf(h) \in 1..Len(arrays) /\ Len(arrays) \in Nat
      BY LenProperties DEF DispatchInv, DispatchTypes
    <2>4. GetMethod(c, p) = arrays[ArrayOf(h)]
      BY <2>2, <2>3 DEF GetMethod
    <2>5. \A type : type \in Range(GetMethod(c, p)) <=>
                        \E i \in Methods : ArrayOf(i) = ArrayOf(h) /\ Type(i) = type
      BY <2>3, <2>4 DEF DispatchInv, ContentInv
    (* The declarations of the chain are in the array...                       *)
    <2>6. ASSUME NEW i \in Methods, Prop(i) = p, Class(i) \in Range(Chain(c))
          PROVE  ArrayOf(i) = ArrayOf(h)
      <3>1. \/ Class(i) \in Range(Chain(Class(h)))
            \/ Class(h) \in Range(Chain(Class(i)))
        BY <1>1, <2>2, <2>6, ChainOrder
      <3> QED
        BY <2>2, <2>6, <3>1 DEF DispatchInv, SharingInv
    (* ... and whatever else is in it repeats one of them.                     *)
    <2>7. ASSUME NEW i \in Methods, ArrayOf(i) = ArrayOf(h)
          PROVE  Type(i) \in DeclaredTypes(c, p)
      <3>1. PICK g \in Methods : /\ Prop(i) = Prop(h) /\ Prop(g) = Prop(i)
                                 /\ Class(g) \in Range(Chain(Class(i)))
                                 /\ Class(g) \in Range(Chain(Class(h)))
        BY <2>7 DEF DispatchInv, SharingInv
      <3>2. Class(g) \in Range(Chain(c)) /\ Range(Chain(Class(g))) \subseteq Range(Chain(c))
        BY <1>1, <2>2, <3>1, ChainOrder
      <3>3. CASE Class(g) = Class(i)
        BY <1>2, <2>2, <3>1, <3>2, <3>3
      <3>4. CASE Class(g) # Class(i)
        <4>1. /\ server.decorators[i] \in Range(server.decorators)
              /\ ~IsKey(i) /\ Prop(g) \in Range(server.props[Class(g)])
          BY <1>1, DecoratorTypes DEF Range, Methods
        <4>2. Type(i) \in DeclaredTypes(Class(g), p)
          BY <2>2, <3>1, <3>4, <4>1 DEF OverridesRepeat, Class, Prop, Type, IsKey
        <4> QED
          BY <1>2, <3>2, <4>2
      <3> QED
        BY <3>3, <3>4
    <2> QED
      BY <1>2, <2>5, <2>6, <2>7
  <1> QED
    BY <1>1, <1>3, <1>4, Lookup, Zenon

(* Once the classes have loaded: the keys of a method.                         *)
LEMMA KeysAreDeclared ==
    ASSUME DispatchInv, Loaded, NEW c \in Classes, NEW p
    PROVE  AreKeysOf(GetKeys(c, p), DeclaredKeys(c, p))
  <1>1. server \in Servers /\ DOMAIN server.decorators = 1..loaded
        /\ DOMAIN Chain(c) = 1..Len(Chain(c)) /\ Len(Chain(c)) \in Nat
    BY DecoratorTypes, ChainFacts DEF DispatchInv, DispatchTypes, Loaded
  <1>2. \A d : Keys(d, p) = KeyDecorators(d, p)
    <2>1. loaded \in Nat
      BY <1>1, DecoratorTypes DEF DispatchInv, DispatchTypes, Loaded
    <2>2. \A d : \A i \in KeyDecorators(d, p) : i <= loaded
      BY <1>1, <2>1 DEF KeyDecorators
    <2> QED
      BY <2>2 DEF Keys
  <1> DEFINE has == {n \in DOMAIN Chain(c) : KeyDecorators(Chain(c)[n], p) # {}}
  <1>3. \A n \in DOMAIN Chain(c) : n \in has <=> <<Chain(c)[n], p>> \in DOMAIN keysOf
    BY <1>2 DEF DispatchInv, KeysInv
  <1>4. CASE /\ \A d \in Range(Chain(c)) : <<d, p>> \notin DOMAIN keysOf
             /\ GetMetadata(keysOf, c, p, <<>>) = <<>>
    <2>1. has = {}
      BY <1>3, <1>4 DEF Range
    <2>2. DeclaredKeys(c, p) = {} /\ GetKeys(c, p) = <<>>
      BY <1>4, <2>1 DEF DeclaredKeys, GetKeys
    <2> QED
      BY <2>2, FS_EmptySet DEF AreKeysOf
  <1>5. ASSUME NEW n \in DOMAIN Chain(c), <<Chain(c)[n], p>> \in DOMAIN keysOf,
               \A m \in 1..(n - 1) : <<Chain(c)[m], p>> \notin DOMAIN keysOf,
               GetMetadata(keysOf, c, p, <<>>) = keysOf[<<Chain(c)[n], p>>]
        PROVE  AreKeysOf(GetKeys(c, p), DeclaredKeys(c, p))
    <2>1. n \in has /\ \A m \in has : n <= m
      <3>1. \A m \in has : m \in 1..Len(Chain(c)) /\ m \notin 1..(n - 1)
        BY <1>1, <1>3, <1>5
      <3>2. \A m \in has : n <= m
        BY <1>1, <3>1
      <3> QED
        BY <1>3, <1>5, <3>2
    <2>2. Min(has) = n
      <3>1. \A m \in has : m \in Nat
        BY <1>1
      <3> HIDE DEF has
      <3>2. Min(has) \in has /\ \A m \in has : Min(has) <= m
        BY <2>1, Zenon DEF Min
      <3> QED
        BY <2>1, <3>1, <3>2
    <2>3. DeclaredKeys(c, p) = KeyDecorators(Chain(c)[n], p)
      BY <2>1, <2>2, Zenon DEF DeclaredKeys
    <2> DEFINE K == KeyDecorators(Chain(c)[n], p)
    <2>4. GetKeys(c, p) = keysOf[<<Chain(c)[n], p>>]
      BY <1>5 DEF GetKeys
    <2>5. K # {} /\ K = Keys(Chain(c)[n], p)
      BY <1>2, <2>1
    <2>6. /\ Len(GetKeys(c, p)) = Cardinality(K)
          /\ \A i \in K : GetKeys(c, p)[Place(i, K)] = Named(i)
      BY <2>4, <2>5 DEF DispatchInv, KeysInv
    <2> QED
      BY <2>3, <2>6, Zenon DEF AreKeysOf, Place, Named
  <1> QED
    BY <1>1, <1>4, <1>5, Lookup, Zenon

(* Whatever the classes of a server and however deep their inheritance, its    *)
(* methods serve what is declared for them and above them, and take the keys   *)
(* of their nearest declaration, in order.                                     *)
THEOREM DispatchIsLocalHolds == ResponseSpec => []DispatchIsLocal
  <1>1. ASSUME DispatchInv
        PROVE  DispatchIsLocal
    BY <1>1, TypesAreDeclared, KeysAreDeclared DEF DispatchIsLocal
  <1> QED
    BY <1>1, MetadataHolds, PTL

-----------------------------------------------------------------------------
(* The last part whose stage may have called a method.                         *)
Reached == IF outcome \in {"streaming", "error"} THEN stage + 1 ELSE stage

(* What the visitor works on, and what it has made of it.  A part may be given *)
(* another key when it is read.                                                *)
IsPart(p) == p = [type |-> p.type, name |-> p.name, key |-> p.key]
NavigationInv ==
    /\ server \in Servers
    /\ request.path \in Seq(Segment)
    /\ IF outcome = "load" THEN visited = 0 ELSE request \in Requests[server.name]
    /\ visited \in 0..Len(request.path)
    /\ navigation \in Seq(Range(navigation))
    /\ \A i \in DOMAIN navigation : IsPart(navigation[i])
    /\ outcome \in {"load", "visiting"} => navigation \in Seq(Segment)

(* The stages run in order, and a call is of a stage that has run.             *)
StageInv ==
    /\ outcome \in {"load", "visiting", "running", "streaming", "done", "error"}
    /\ stage \in 0..Len(navigation)
    /\ outcome \in {"load", "visiting"} => stage = 0 /\ calls = <<>>
    /\ outcome \in {"running", "streaming", "done"} => navigation # <<>>
    /\ outcome = "streaming" => stage < Len(navigation)
    /\ outcome = "done" => stage = Len(navigation)
    /\ calls \in Seq(Range(calls))
    /\ \A k \in DOMAIN calls : calls[k].part \in 1..Reached

(* A write of the kind that WritesOnce is about, as far as it has come: only   *)
(* its last call writes, only a read streams, and what has come to its end has *)
(* been written.                                                               *)
Addresses == request.verb # "get" /\ IsWriteForm /\ ~ServedTwice
Written == Unserved \/ (calls # <<>> /\ IsWrite(Last(calls)))
WriteInv ==
    Addresses =>
        /\ \A k \in DOMAIN calls :
               IsWrite(calls[k]) =>
                   /\ k = Len(calls)
                   /\ calls[k].part = Len(navigation) \/ ValueOfProperty(calls[k].part)
        /\ outcome = "streaming" => Index < Len(navigation)
        /\ outcome \in {"running", "done"} /\ stage = Len(navigation) => Written

RequestInv == NavigationInv /\ StageInv /\ WriteInv

-----------------------------------------------------------------------------
(* The visitor.                                                                *)

(* A segment makes a part, belongs to the last part, or leaves none.           *)
LEMMA VisitTypes ==
    ASSUME NEW nav \in Seq(Segment), NEW s \in Segment
    PROVE  VisitSegment(nav, s) \in Seq(Segment)
  <1>1. CASE s.type \in {"SimpleKey", "CompoundKey"}
    <2> DEFINE keyed == [nav EXCEPT ![Len(nav)].key = s.key]
    <2>1. VisitSegment(nav, s) = keyed
      BY <1>1 DEF VisitSegment
    <2>2. CASE nav = <<>>
      <3>1. keyed = nav
        BY <2>2
      <3> QED
        BY <2>1, <3>1
    <2>3. CASE nav # <<>>
      <3>1. Len(nav) \in 1..Len(nav)
        BY <2>3, EmptySeq
      <3>2. nav[Len(nav)] \in Segment
        BY <3>1, ElementOfSeq
      <3> DEFINE last == [nav[Len(nav)] EXCEPT !.key = s.key]
      <3>3. last \in Segment
        BY <3>2 DEF Segment
      <3>4. keyed = [nav EXCEPT ![Len(nav)] = last]
        BY Zenon
      <3>5. [nav EXCEPT ![Len(nav)] = last] \in Seq(Segment)
        BY <3>1, <3>3, ExceptSeq, Zenon
      <3> QED
        BY <2>1, <3>4, <3>5, Zenon
    <2> QED
      BY <2>2, <2>3
  <1>2. CASE s.type \notin {"SimpleKey", "CompoundKey"}
    BY <1>2 DEF VisitSegment
  <1> QED
    BY <1>1, <1>2

(* What servers are asked.                                                     *)
LEMMA RequestTypes ==
    ASSUME NEW s \in Servers, NEW r \in Requests[s.name]
    PROVE  r.path \in Seq(Segment) /\ r.verb \in WriteMethods \cup {"get"}
  BY ModelledAssumption DEF IsModelled, IsPath

(* A sequence of segments is one of parts.                                     *)
LEMMA SegmentsAreParts ==
    ASSUME NEW nav \in Seq(Segment)
    PROVE  nav \in Seq(Range(nav)) /\ \A i \in DOMAIN nav : IsPart(nav[i])
  <1>1. Len(nav) \in Nat /\ DOMAIN nav = 1..Len(nav) /\ nav \in [1..Len(nav) -> Segment]
    BY LenProperties
  <1>2. nav \in [1..Len(nav) -> Range(nav)]
    BY <1>1 DEF Range
  <1>3. nav \in Seq(Range(nav))
    <2>1. [1..Len(nav) -> Range(nav)] \in {[1..n -> Range(nav)] : n \in Nat}
      BY <1>1
    <2>2. nav \in UNION {[1..n -> Range(nav)] : n \in Nat}
      BY <1>2, <2>1, Zenon
    <2> QED
      BY <2>2, SeqDef, Zenon
  <1>4. ASSUME NEW i \in DOMAIN nav
        PROVE  IsPart(nav[i])
    <2>1. nav[i] \in Segment
      BY <1>1
    <2> QED
      BY <2>1 DEF Segment, IsPart
  <1> QED
    BY <1>3, <1>4

(* The parts are the same but for their keys.                                  *)
SameParts ==
    /\ navigation' \in Seq(Range(navigation'))
    /\ DOMAIN navigation' = DOMAIN navigation /\ Len(navigation') = Len(navigation)
    /\ \A i \in DOMAIN navigation :
           /\ IsPart(navigation'[i])
           /\ navigation'[i].type = navigation[i].type
           /\ navigation'[i].name = navigation[i].name

LEMMA PartsUnchanged ==
    ASSUME NavigationInv, navigation' = navigation
    PROVE  SameParts
  BY DEF NavigationInv, SameParts

LEMMA KeyGiven ==
    ASSUME NavigationInv, NEW n, NEW key, navigation' = [navigation EXCEPT ![n].key = key]
    PROVE  SameParts
  <1>1. /\ Len(navigation) \in Nat /\ DOMAIN navigation = 1..Len(navigation)
        /\ \A i \in DOMAIN navigation : IsPart(navigation[i])
    BY LenProperties DEF NavigationInv
  <1> DEFINE given(i) == IF i = n THEN [navigation[i] EXCEPT !.key = key] ELSE navigation[i]
             keyed == [i \in 1..Len(navigation) |-> given(i)]
  <1>2. navigation' = keyed
    BY <1>1
  <1>3. ASSUME NEW i \in DOMAIN navigation
        PROVE  /\ IsPart(given(i))
               /\ given(i).type = navigation[i].type /\ given(i).name = navigation[i].name
    <2>1. navigation[i] = [type |-> navigation[i].type, name |-> navigation[i].name,
                           key |-> navigation[i].key]
      BY <1>1, Zenon DEF IsPart
    <2>2. [navigation[i] EXCEPT !.key = key] =
              [type |-> navigation[i].type, name |-> navigation[i].name, key |-> key]
      BY <2>1
    <2> QED
      BY <2>1, <2>2 DEF IsPart
  <1>4. keyed \in Seq(Range(keyed)) /\ Len(keyed) = Len(navigation)
    <2>1. keyed \in [1..Len(navigation) -> Range(keyed)]
      BY DEF Range
    <2>6. DOMAIN keyed = 1..Len(navigation)
      OBVIOUS
    <2> HIDE DEF keyed
    <2>2. [1..Len(navigation) -> Range(keyed)] \in {[1..m -> Range(keyed)] : m \in Nat}
      BY <1>1
    <2>3. keyed \in UNION {[1..m -> Range(keyed)] : m \in Nat}
      BY <2>1, <2>2, Zenon
    <2>4. keyed \in Seq(Range(keyed))
      BY <2>3, SeqDef, Zenon
    <2>5. DOMAIN keyed = 1..Len(keyed) /\ Len(keyed) \in Nat
      BY <2>4, LenProperties
    <2>7. ASSUME NEW a \in Nat, NEW b \in Nat, 1..a = 1..b
          PROVE  a = b
      <3>1. a # 0 => a \in 1..b
        BY <2>7
      <3>2. b # 0 => b \in 1..a
        BY <2>7
      <3> QED
        BY <3>1, <3>2
    <2>8. 1..Len(keyed) = 1..Len(navigation)
      BY <2>5, <2>6
    <2>9. Len(keyed) = Len(navigation)
      BY <1>1, <2>5, <2>7, <2>8
    <2> QED
      BY <2>4, <2>9
  <1>5. \A i \in DOMAIN navigation : keyed[i] = given(i)
    BY <1>1
  <1>6. DOMAIN keyed = DOMAIN navigation
    BY <1>1
  <1> HIDE DEF keyed, given
  <1> QED
    BY <1>2, <1>3, <1>4, <1>5, <1>6 DEF SameParts

(* What WritesOnce says of the parts does not depend on their keys.            *)
LEMMA SameForm ==
    ASSUME NavigationInv, SameParts
    PROVE  /\ IsWriteForm' = IsWriteForm
           /\ \A i \in DOMAIN navigation : ValueOfProperty(i)' = ValueOfProperty(i)
           /\ navigation # <<>> => /\ navigation' # <<>>
                                   /\ Last(navigation').type = Last(navigation).type
  <1>1. Len(navigation) \in Nat /\ DOMAIN navigation = 1..Len(navigation)
    BY LenProperties DEF NavigationInv
  <1>2. \A i \in DOMAIN navigation : ValueOfProperty(i)' = ValueOfProperty(i)
    <2> TAKE i \in DOMAIN navigation
    <2>1. i = Len(navigation) - 1 => i + 1 \in DOMAIN navigation
      BY <1>1
    <2> QED
      BY <2>1 DEF ValueOfProperty, SameParts
  <1>3. IsWriteForm' = IsWriteForm
    BY <1>2 DEF IsWriteForm, SameParts
  <1>4. ASSUME navigation # <<>>
        PROVE  navigation' # <<>> /\ Last(navigation').type = Last(navigation).type
    <2>1. Len(navigation) \in DOMAIN navigation
      BY <1>1, <1>4, EmptySeq DEF NavigationInv
    <2>2. navigation' # <<>>
      <3>1. DOMAIN <<>> = {}
        OBVIOUS
      <3> QED
        BY <2>1, <3>1 DEF SameParts
    <2> QED
      BY <2>1, <2>2 DEF SameParts, Last
  <1> QED
    BY <1>2, <1>3, <1>4

-----------------------------------------------------------------------------
(* The stages.                                                                 *)

(* A call is appended to a sequence of calls.                                  *)
LEMMA AppendCall ==
    ASSUME NEW s, s \in Seq(Range(s)), NEW c
    PROVE  /\ Append(s, c) \in Seq(Range(Append(s, c)))
           /\ DOMAIN s = 1..Len(s) /\ DOMAIN Append(s, c) = 1..Len(Append(s, c))
           /\ Len(Append(s, c)) = Len(s) + 1 /\ Len(s) \in Nat
           /\ Append(s, c)[Len(s) + 1] = c
           /\ \A k \in 1..Len(s) : Append(s, c)[k] = s[k]
           /\ Append(s, c) # <<>> /\ Last(Append(s, c)) = c
  <1> DEFINE S == Range(s) \cup {c}
             t == Append(s, c)
  <1>1. s \in Seq(S)
    BY SeqMonotonic, Range(s) \subseteq S
  <1>2. /\ t \in Seq(S) /\ Len(t) = Len(s) + 1
        /\ \A k \in 1..Len(s) : t[k] = s[k]
        /\ t[Len(s) + 1] = c
    BY <1>1
  <1>3. /\ Len(t) \in Nat /\ t \in [1..Len(t) -> S] /\ DOMAIN t = 1..Len(t)
        /\ Len(s) \in Nat /\ DOMAIN s = 1..Len(s)
    BY <1>1, <1>2, LenProperties
  <1> HIDE DEF S, t
  <1>4. t \in [1..Len(t) -> Range(t)]
    BY <1>3 DEF Range
  <1>5. t \in Seq(Range(t))
    <2>1. [1..Len(t) -> Range(t)] \in {[1..n -> Range(t)] : n \in Nat}
      BY <1>3
    <2>2. t \in UNION {[1..n -> Range(t)] : n \in Nat}
      BY <1>4, <2>1, Zenon
    <2> QED
      BY <2>2, SeqDef, Zenon
  <1>6. t # <<>> /\ Last(t) = c
    BY <1>2, <1>3, EmptySeq DEF Last
  <1> QED
    BY <1>2, <1>3, <1>5, <1>6 DEF t

(* While a stage is at work nothing has been written, unless it is that of     *)
(* $value and the one before it wrote the property.                            *)
LEMMA NothingWritten ==
    ASSUME RequestInv, Addresses, outcome = "running", stage < Len(navigation),
           NEW k \in DOMAIN calls, IsWrite(calls[k])
    PROVE  /\ k = Len(calls) /\ calls[k].part = stage
           /\ ValueOfProperty(stage) /\ Index = Len(navigation)
  <1>1. calls[k].part \in 1..stage
    BY DEF RequestInv, StageInv, Reached
  <1>2. k = Len(calls) /\ (calls[k].part = Len(navigation) \/ ValueOfProperty(calls[k].part))
    BY DEF RequestInv, WriteInv
  <1>3. Len(navigation) \in Nat /\ stage \in Nat
    BY LenProperties DEF RequestInv, NavigationInv, StageInv
  <1>4. ValueOfProperty(calls[k].part) /\ calls[k].part = Len(navigation) - 1
    BY <1>1, <1>2, <1>3 DEF ValueOfProperty
  <1>5. calls[k].part = stage /\ stage = Len(navigation) - 1
    BY <1>1, <1>3, <1>4
  <1> QED
    BY <1>2, <1>3, <1>4, <1>5 DEF Index

(* What a stage does: it calls at most one method, and fails, waits for a      *)
(* stream, or leaves the rest to the next.                                     *)
Moves ==
    \/ outcome' = "error" /\ stage' = stage
    \/ outcome' = "streaming" /\ stage' = stage
    \/ outcome' = "running" /\ stage' = Index
Stage ==
    /\ outcome = "running" /\ stage < Len(navigation)
    /\ UNCHANGED <<server, request, visited>> /\ SameParts
    /\ Moves

(* A stage keeps the order of the stages: its call, if any, is of its part.  *)
LEMMA StageTypes ==
    ASSUME RequestInv, Stage,
           calls' = calls \/ \E c : calls' = Append(calls, c) /\ c.part = Index
    PROVE  NavigationInv' /\ StageInv'
  <1>1. NavigationInv'
    BY DEF RequestInv, NavigationInv, Stage, Moves, SameParts
  <1>2. Len(navigation) \in Nat /\ stage \in Nat /\ Index = stage + 1
    BY LenProperties DEF RequestInv, NavigationInv, StageInv, Index
  <1>3. /\ outcome' \in {"error", "streaming", "running"}
        /\ stage' \in 0..Len(navigation) /\ Reached' = Index /\ Reached = stage
        /\ outcome' = "streaming" => stage' < Len(navigation)
    BY <1>2 DEF RequestInv, StageInv, Stage, Moves, Reached, SameParts
  <1>4. calls' \in Seq(Range(calls')) /\ \A k \in DOMAIN calls' : calls'[k].part \in 1..Index
    <2>1. CASE calls' = calls
      BY <1>2, <1>3, <2>1 DEF RequestInv, StageInv
    <2>2. CASE calls' # calls
      <3>1. PICK c : calls' = Append(calls, c) /\ c.part = Index
        BY <2>2
      <3>2. calls \in Seq(Range(calls))
        BY DEF RequestInv, StageInv
      <3> DEFINE longer == Append(calls, c)
      <3>3. /\ longer \in Seq(Range(longer))
            /\ DOMAIN calls = 1..Len(calls) /\ DOMAIN longer = 1..Len(longer)
            /\ Len(longer) = Len(calls) + 1 /\ Len(calls) \in Nat
            /\ longer[Len(calls) + 1] = c
            /\ \A k \in 1..Len(calls) : longer[k] = calls[k]
        BY <3>2, AppendCall, ZenonT(60)
      <3> HIDE DEF longer
      <3>4. \A k \in 1..Len(calls) : calls[k].part \in 1..stage
        BY <1>3, <3>3 DEF RequestInv, StageInv
      <3>5. ASSUME NEW k \in DOMAIN longer
            PROVE  longer[k].part \in 1..Index
        <4>1. CASE k \in 1..Len(calls)
          BY <1>2, <3>3, <3>4, <4>1
        <4>2. CASE k = Len(calls) + 1
          <5>1. longer[k].part = Index
            BY <3>1, <3>3, <4>2, Zenon
          <5> QED
            BY <1>2, <5>1
        <4> QED
          BY <3>3, <4>1, <4>2
      <3> QED
        BY <3>1, <3>3, <3>5 DEF longer
    <2> QED
      BY <2>1, <2>2
  <1> QED
    BY <1>1, <1>3, <1>4, SameForm DEF RequestInv, StageInv, Stage, Reached, SameParts

(* The method that a stage calls, if it calls one, is called with verb v.      *)
Serves(v) ==
    \/ calls' = calls
    \/ \E c : calls' = Append(calls, c) /\ c.part = Index /\ c.verb = v

(* A call is of a part.                                                        *)
LEMMA PartOfCall ==
    ASSUME RequestInv, outcome = "running", NEW k \in DOMAIN calls
    PROVE  /\ calls[k].part \in DOMAIN navigation
           /\ calls[k].part \in 1..Reached
  <1>1. /\ Len(navigation) \in Nat /\ DOMAIN navigation = 1..Len(navigation)
        /\ stage \in 0..Len(navigation) /\ calls[k].part \in 1..Reached
    BY LenProperties DEF RequestInv, NavigationInv, StageInv
  <1>2. Reached \in 0..Len(navigation)
    BY <1>1 DEF RequestInv, StageInv, Reached
  <1> QED
    BY <1>1, <1>2

(* What WritesOnce is about now it was about before the stage.                 *)
LEMMA AddressesBefore ==
    ASSUME RequestInv, Stage, NEW v, Serves(v), Addresses'
    PROVE  Addresses
  <1>1. UNCHANGED request /\ SameParts
    BY DEF Stage
  <1>2. request.verb # "get" /\ IsWriteForm
    BY <1>1, SameForm DEF Addresses, RequestInv
  <1>3. ASSUME ServedTwice
        PROVE  ServedTwice'
    <2>0. PICK k \in DOMAIN calls, i \in DOMAIN navigation :
              /\ navigation'[i].type \in Properties
              /\ calls[k].part = i + 1 /\ navigation'[i + 1].type = "ValueExpression"
      <3>1. PICK k \in DOMAIN calls, i \in DOMAIN navigation :
                /\ navigation[i].type \in Properties
                /\ calls[k].part = i + 1 /\ navigation[i + 1].type = "ValueExpression"
        BY <1>3 DEF ServedTwice
      <3>2. i + 1 \in DOMAIN navigation
        BY <3>1, PartOfCall DEF Stage
      <3> QED
        BY <1>1, <3>1, <3>2 DEF SameParts
    <2>1. CASE calls' = calls
      BY <1>1, <2>0, <2>1 DEF ServedTwice, SameParts
    <2>2. CASE calls' # calls
      <3>1. PICK c : calls' = Append(calls, c)
        BY <2>2 DEF Serves
      <3> DEFINE longer == Append(calls, c)
      <3>2. calls \in Seq(Range(calls))
        BY DEF RequestInv, StageInv
      <3>3. /\ DOMAIN calls = 1..Len(calls) /\ DOMAIN longer = 1..Len(longer)
            /\ Len(longer) = Len(calls) + 1 /\ Len(calls) \in Nat
            /\ \A j \in 1..Len(calls) : longer[j] = calls[j]
        BY <3>2, AppendCall, ZenonT(60)
      <3> HIDE DEF longer
      <3>4. k \in DOMAIN longer /\ longer[k] = calls[k]
        BY <3>3
      <3>5. calls' = longer
        BY <3>1 DEF longer
      <3> QED
        BY <1>1, <2>0, <3>4, <3>5, Zenon DEF ServedTwice, SameParts
    <2> QED
      BY <2>1, <2>2
  <1> QED
    BY <1>2, <1>3 DEF Addresses

(* A stage preserves the invariant if the method it calls writes only for the  *)
(* last segment or the property before $value, if it streams only before the   *)
(* last segment, and if the last one writes, a property or $value excepted.    *)
LEMMA StagePreserves ==
    ASSUME RequestInv, Stage, NEW v, Serves(v),
           Addresses =>
               /\ v # "get" => Index = Len(navigation) \/ ValueOfProperty(Index)
               /\ outcome' = "streaming" => Index < Len(navigation)
               /\ outcome' = "running" /\ Index = Len(navigation) =>
                      \/ calls' # calls /\ v # "get"
                      \/ Part.type \in Properties \cup {"ValueExpression"}
    PROVE  RequestInv'
  <1>1. NavigationInv' /\ StageInv'
    <2>1. calls' = calls \/ \E c : calls' = Append(calls, c) /\ c.part = Index
      BY DEF Serves
    <2> QED
      BY <2>1, StageTypes
  <1>2. ASSUME Addresses'
        PROVE  /\ \A k \in DOMAIN calls' :
                      IsWrite(calls'[k]) =>
                          /\ k = Len(calls')
                          /\ \/ calls'[k].part = Len(navigation)
                             \/ ValueOfProperty(calls'[k].part)
               /\ outcome' = "streaming" => Index' < Len(navigation)
               /\ outcome' \in {"running", "done"} /\ stage' = Len(navigation) => Written'
    <2>1. Addresses
      BY <1>2, AddressesBefore
    <2>2. /\ UNCHANGED request /\ SameParts /\ outcome = "running"
          /\ stage < Len(navigation) /\ Moves
      BY DEF Stage
    <2>3. Len(navigation) \in Nat /\ stage \in Nat /\ Index = stage + 1
      BY LenProperties DEF RequestInv, NavigationInv, StageInv, Index
    <2>4. outcome' = "streaming" => Index' < Len(navigation)
      BY <2>1, <2>2 DEF Moves, Index
    <2>5. CASE calls' = calls
      <3>1. \A k \in DOMAIN calls :
                IsWrite(calls[k]) =>
                    /\ k = Len(calls)
                    /\ calls[k].part = Len(navigation) \/ ValueOfProperty(calls[k].part)
        BY <2>1 DEF RequestInv, WriteInv
      <3>2. ASSUME outcome' \in {"running", "done"}, stage' = Len(navigation)
            PROVE  Written'
        <4>1. outcome' = "running" /\ Index = Len(navigation)
          BY <2>2, <2>3, <3>2 DEF Moves
        <4>2. Last(navigation).type \in Properties \cup {"ValueExpression"}
          BY <2>1, <2>5, <4>1 DEF Last, Part
        <4>3. Last(navigation').type = Last(navigation).type
          BY <2>2, SameForm DEF RequestInv, StageInv
        <4> QED
          BY <2>5, <4>2, <4>3 DEF Written, Unserved
      <3> QED
        BY <2>4, <2>5, <3>1, <3>2
    <2>6. CASE calls' # calls
      <3>1. PICK c : calls' = Append(calls, c) /\ c.part = Index /\ c.verb = v
        BY <2>6 DEF Serves
      <3> DEFINE longer == Append(calls, c)
      <3>2. calls \in Seq(Range(calls))
        BY DEF RequestInv, StageInv
      <3>3. /\ DOMAIN calls = 1..Len(calls) /\ DOMAIN longer = 1..Len(longer)
            /\ Len(longer) = Len(calls) + 1 /\ Len(calls) \in Nat
            /\ longer[Len(calls) + 1] = c
            /\ \A k \in 1..Len(calls) : longer[k] = calls[k]
            /\ longer # <<>> /\ Last(longer) = c
        BY <3>2, AppendCall, ZenonT(40)
      <3> HIDE DEF longer
      <3>4. calls' = longer
        BY <3>1 DEF longer
      <3>5. ASSUME NEW k \in DOMAIN calls, IsWrite(calls[k])
            PROVE  FALSE
        <4>1. calls[k].part = stage /\ ValueOfProperty(stage)
          BY <2>1, <2>2, <3>5, NothingWritten
        <4>2. /\ stage \in DOMAIN navigation /\ stage + 1 \in DOMAIN navigation
              /\ navigation[stage].type \in Properties /\ c.part = stage + 1
              /\ navigation[stage + 1].type = "ValueExpression"
          <5>1. stage \in DOMAIN navigation
            BY <2>2, <3>5, <4>1, PartOfCall
          <5>2. DOMAIN navigation = 1..Len(navigation)
            BY LenProperties DEF RequestInv, NavigationInv
          <5> QED
            BY <2>2, <2>3, <3>1, <4>1, <5>1, <5>2 DEF ValueOfProperty
        <4>3. Len(calls) + 1 \in DOMAIN longer
          BY <3>3
        <4>4. /\ stage \in DOMAIN navigation' /\ navigation'[stage].type \in Properties
              /\ navigation'[stage + 1].type = "ValueExpression"
          BY <2>2, <4>2 DEF SameParts
        <4>5. ServedTwice'
          BY <3>3, <3>4, <4>2, <4>3, <4>4, Zenon DEF ServedTwice
        <4> QED
          BY <1>2, <4>5 DEF Addresses
      <3>6. ASSUME NEW k \in DOMAIN longer, IsWrite(longer[k])
            PROVE  /\ k = Len(longer)
                   /\ longer[k].part = Len(navigation) \/ ValueOfProperty(longer[k].part)
        <4>1. k = Len(calls) + 1
          BY <3>3, <3>5, <3>6
        <4>2. longer[k] = c
          BY <3>3, <4>1
        <4>3. v # "get" /\ c.part = Index
          BY <3>1, <3>6, <4>2, Zenon DEF IsWrite
        <4> QED
          BY <2>1, <3>3, <4>1, <4>2, <4>3
      <3>7. ASSUME outcome' \in {"running", "done"}, stage' = Len(navigation)
            PROVE  Written'
        <4>1. outcome' = "running" /\ Index = Len(navigation)
          BY <2>2, <2>3, <3>7 DEF Moves
        <4>2. CASE v # "get"
          <5>1. IsWrite(Last(longer))
            BY <3>1, <3>3, <4>2, Zenon DEF IsWrite
          <5> QED
            BY <3>3, <3>4, <5>1 DEF Written
        <4>3. CASE Part.type \in Properties \cup {"ValueExpression"}
          <5>1. Last(navigation).type \in Properties \cup {"ValueExpression"}
            BY <4>1, <4>3 DEF Last, Part
          <5>2. Last(navigation').type = Last(navigation).type
            BY <2>2, SameForm DEF RequestInv, StageInv
          <5> QED
            BY <3>3, <3>4, <5>1, <5>2 DEF Written, Unserved
        <4> QED
          BY <2>1, <4>1, <4>2, <4>3
      <3> QED
        BY <2>4, <3>4, <3>6, <3>7
    <2> QED
      BY <2>5, <2>6
  <1>3. WriteInv'
    <2>1. SameParts /\ DOMAIN navigation = 1..Len(navigation) /\ Len(navigation) \in Nat
      BY LenProperties DEF Stage, RequestInv, NavigationInv
    <2>2. \A k \in DOMAIN calls' : calls'[k].part \in DOMAIN navigation
      <3>1. stage \in 0..Len(navigation) /\ stage < Len(navigation) /\ Reached' \in {stage, stage + 1}
        BY <2>1 DEF Stage, Moves, RequestInv, StageInv, Reached, Index
      <3>2. \A k \in DOMAIN calls' : calls'[k].part \in 1..Reached'
        BY <1>1 DEF StageInv
      <3> QED
        BY <2>1, <3>1, <3>2
    <2>3. \A i \in DOMAIN navigation : ValueOfProperty(i)' = ValueOfProperty(i)
      BY <2>1, SameForm DEF RequestInv
    <2> QED
      BY <1>2, <2>1, <2>2, <2>3 DEF WriteInv, SameParts
  <1> QED
    BY <1>1, <1>3 DEF RequestInv

-----------------------------------------------------------------------------
(* The actions of the stages.                                                  *)

(* Only the last entity of a write is served by its verb.                      *)
LEMMA VerbWrites ==
    ASSUME RequestInv, outcome = "running", stage < Len(navigation),
           request.verb # "get"
    PROVE  Verb # "get" <=> Index = Len(navigation)
  <1>1. Len(navigation) \in Nat /\ stage \in Nat /\ Index = stage + 1
    BY LenProperties DEF RequestInv, NavigationInv, StageInv, Index
  <1>2. request.verb \in WriteMethods
    BY RequestTypes DEF RequestInv, NavigationInv
  <1> QED
    BY <1>1, <1>2 DEF Verb, WriteMethods

(* The stage of an entity, as it ends for the verb of the segment.             *)
LEMMA EntityStage ==
    ASSUME RequestInv, outcome = "running", stage < Len(navigation),
           UNCHANGED <<dispatchVars, request, visited>>, SameParts,
           \/ outcome' = "error" /\ stage' = stage /\ calls' = calls
           \/ /\ \/ outcome' = "error" /\ stage' = stage
                 \/ outcome' = "running" /\ stage' = Index
                 \/ outcome' = "streaming" /\ stage' = stage /\ Verb = "get"
              /\ \E c : calls' = Append(calls, c) /\ c.part = Index /\ c.verb = Verb
    PROVE  RequestInv'
  <1>1. Stage
    BY DEF Stage, Moves, dispatchVars
  <1>2. Serves(Verb)
    BY DEF Serves
  <1>3. ASSUME Addresses
        PROVE  /\ Verb # "get" => Index = Len(navigation) \/ ValueOfProperty(Index)
               /\ outcome' = "streaming" => Index < Len(navigation)
               /\ outcome' = "running" /\ Index = Len(navigation) =>
                      \/ calls' # calls /\ Verb # "get"
                      \/ Part.type \in Properties \cup {"ValueExpression"}
    <2>1. Verb # "get" <=> Index = Len(navigation)
      BY <1>3, VerbWrites DEF Addresses
    <2>2. Len(navigation) \in Nat /\ stage \in Nat /\ Index = stage + 1
      BY LenProperties DEF RequestInv, NavigationInv, StageInv, Index
    <2>3. outcome' = "streaming" => Index < Len(navigation)
      BY <2>1, <2>2
    <2>4. outcome' = "running" => calls' # calls
      <3>1. calls \in Seq(Range(calls))
        BY DEF RequestInv, StageInv
      <3>2. ASSUME NEW c
            PROVE  Append(calls, c) # calls
        <4>1. Len(Append(calls, c)) = Len(calls) + 1 /\ Len(calls) \in Nat
          BY <3>1, AppendCall, ZenonT(60)
        <4> QED
          BY <4>1
      <3> QED
        BY <3>2, Zenon
    <2> QED
      BY <2>1, <2>3, <2>4
  <1> QED
    BY <1>1, <1>2, <1>3, StagePreserves

(* __read calls one method with the verb of its part, or fails.              *)
LEMMA ReadPreserves ==
    ASSUME RequestInv, outcome = "running", stage < Len(navigation),
           NEW c, NEW part, NEW filter, Read(c, part, filter)
    PROVE  RequestInv'
  <1> PICK fn, params : 
         IF fn = NoMethod THEN Fails(501)
         ELSE /\ calls' = Append(calls, Call(c, c, fn, Verb, params, filter))
              /\ IF <<c, fn.call>> \in server.streams /\ Verb = "get"
                 THEN StreamsOut
                 ELSE \E body_ : ReadReturns(c, Verb, ElementType(c), FALSE, body_)
              /\ navigation' = [navigation EXCEPT ![Index].key = part.key]
              /\ UNCHANGED <<dispatchVars, request, visited>>
    BY Zenon DEF Read
  <1>1. CASE fn = NoMethod
    <2>1. SameParts
      BY <1>1, PartsUnchanged DEF Fails, requestVars, RequestInv
    <2> QED
      BY <1>1, <2>1, EntityStage DEF Fails, requestVars
  <1>2. CASE fn # NoMethod
    <2> DEFINE call == Call(c, c, fn, Verb, params, filter)
    <2>1. calls' = Append(calls, call) /\ call.part = Index /\ call.verb = Verb
      BY <1>2 DEF Call
    <2>2. \/ outcome' = "error" /\ stage' = stage
          \/ outcome' = "running" /\ stage' = Index
          \/ outcome' = "streaming" /\ stage' = stage /\ Verb = "get"
      BY <1>2 DEF StreamsOut, ReadReturns
    <2>3. SameParts
      BY <1>2, KeyGiven DEF RequestInv
    <2> HIDE DEF call
    <2> QED
      BY <1>2, <2>1, <2>2, <2>3, EntityStage
  <1> QED
    BY <1>1, <1>2

(* A method of the navigation itself serves it with the verb of its part.    *)
LEMMA NavigateByMethodPreserves ==
    ASSUME RequestInv, outcome = "running", stage < Len(navigation),
           NEW fn, NEW n, NavigateByMethod(fn, n)
    PROVE  RequestInv'
  <1>1. PICK params : calls' = Append(calls, Call(ctrl, ctrl, fn, Verb, params, NoFilter))
    BY Zenon DEF NavigateByMethod
  <1>2. PICK body_ : ReadReturns(ctrl, Verb, n.target, TRUE, body_)
    BY Zenon DEF NavigateByMethod
  <1>3. UNCHANGED <<dispatchVars, requestVars>>
    BY Zenon DEF NavigateByMethod
  <1> DEFINE call == Call(ctrl, ctrl, fn, Verb, params, NoFilter)
  <1>4. calls' = Append(calls, call) /\ call.part = Index /\ call.verb = Verb
    BY <1>1 DEF Call
  <1>5. \/ outcome' = "error" /\ stage' = stage
        \/ outcome' = "running" /\ stage' = Index
    BY <1>2 DEF ReadReturns
  <1>6. SameParts
    BY <1>3, PartsUnchanged DEF requestVars, RequestInv
  <1> HIDE DEF call
  <1> QED
    BY <1>3, <1>4, <1>5, <1>6, EntityStage DEF requestVars

(* A navigation is served by one method, or read for what follows.           *)
LEMMA NavigatePreserves ==
    ASSUME RequestInv, outcome = "running", stage < Len(navigation),
           NEW n, NEW key, NEW filter, Navigate(n, key, filter)
    PROVE  RequestInv'
  <1>1. \/ \E fn : NavigateByMethod(fn, n)
        \/ Read(ControllerOf(n.target), [Part EXCEPT !.key = key], filter)
    BY Zenon DEF Navigate
  <1> QED
    BY <1>1, NavigateByMethodPreserves, ReadPreserves, Zenon

(* A stage fails.                                                              *)
LEMMA FailsPreserves ==
    ASSUME RequestInv, outcome \in {"running", "streaming"}, stage < Len(navigation),
           NEW code, Fails(code)
    PROVE  RequestInv'
  <1>1. NavigationInv'
    BY DEF Fails, RequestInv, NavigationInv, dispatchVars, requestVars
  <1>2. Len(navigation) \in Nat /\ stage \in Nat
    BY LenProperties DEF RequestInv, NavigationInv, StageInv
  <1>3. /\ UNCHANGED <<navigation, stage, calls, request>> /\ outcome' = "error"
    BY DEF Fails, requestVars
  <1>4. StageInv'
    BY <1>2, <1>3 DEF RequestInv, StageInv, Reached
  <1>5. WriteInv'
    BY <1>3 DEF RequestInv, WriteInv, Addresses, IsWriteForm, ServedTwice, ValueOfProperty
  <1> QED
    BY <1>1, <1>4, <1>5 DEF RequestInv

(* A segment that names entities is read, or written if it is the last.      *)
LEMMA EntityPreserves ==
    ASSUME RequestInv,
           \/ EntitySetName \/ EntityCollectionNavigationProperty
           \/ EntityNavigationProperty
    PROVE  RequestInv'
  <1>1. CASE EntitySetName
    BY <1>1, ReadPreserves DEF EntitySetName, At
  <1>2. CASE EntityCollectionNavigationProperty
    BY <1>2, NavigatePreserves, FailsPreserves
       DEF EntityCollectionNavigationProperty, At
  <1>3. CASE EntityNavigationProperty
    BY <1>3, NavigatePreserves, FailsPreserves DEF EntityNavigationProperty, At
  <1> QED
    BY <1>1, <1>2, <1>3

(* In a write, a stage that is not of an entity is the last one, or that of    *)
(* the property before $value.                                                 *)
LEMMA LastStage ==
    ASSUME RequestInv, Addresses, outcome = "running", stage < Len(navigation),
           Part.type \notin EntityParts
    PROVE  /\ Index = Len(navigation) \/ ValueOfProperty(Index)
           /\ Part.type \notin Properties => Index = Len(navigation)
           /\ Part.type # "CountExpression"
  <1>1. Len(navigation) \in Nat /\ stage \in Nat /\ Index = stage + 1
        /\ DOMAIN navigation = 1..Len(navigation)
    BY LenProperties DEF RequestInv, NavigationInv, StageInv, Index
  <1>2. Index \in DOMAIN navigation
    BY <1>1
  <1>3. IF Index < Len(navigation)
        THEN Part.type \in EntityParts \/ ValueOfProperty(Index)
        ELSE Part.type \notin {"QualifiedEntityTypeName", "CountExpression"}
    BY <1>2 DEF Addresses, IsWriteForm, Part
  <1>4. ValueOfProperty(Index) => Part.type \in Properties
    BY DEF ValueOfProperty, Part
  <1>5. Index < Len(navigation) \/ Index = Len(navigation)
    <2>1. Index \in Int /\ Len(navigation) \in Int /\ Index <= Len(navigation)
      BY <1>1, <1>2
    <2> HIDE DEF Index
    <2> QED
      BY <2>1
  <1>6. CASE Index < Len(navigation)
    <2>1. ValueOfProperty(Index) /\ Part.type \in Properties
      BY <1>3, <1>4, <1>6
    <2> QED
      BY <2>1 DEF Properties
  <1>7. CASE Index = Len(navigation)
    <2>1. ~(Index < Len(navigation))
      BY <1>1, <1>7
    <2> QED
      BY <1>3, <1>7, <2>1
  <1> QED
    BY <1>5, <1>6, <1>7

(* The stage of a property, a value, a link or an operation, as it ends.       *)
LEMMA OtherStage ==
    ASSUME RequestInv, outcome = "running", stage < Len(navigation),
           UNCHANGED <<dispatchVars, requestVars>>,
           Part.type \notin EntityParts, Moves,
           Serves(request.verb),
           outcome' = "streaming" => request.verb = "get",
           \/ Part.type \in Properties \cup {"ValueExpression", "CountExpression"}
           \/ outcome' = "running" /\ request.verb # "get" => calls' # calls
    PROVE  RequestInv'
  <1>1. Stage
    BY PartsUnchanged DEF Stage, dispatchVars, requestVars, RequestInv
  <1>2. ASSUME Addresses
        PROVE  /\ request.verb # "get" => Index = Len(navigation) \/ ValueOfProperty(Index)
               /\ outcome' = "streaming" => Index < Len(navigation)
               /\ outcome' = "running" /\ Index = Len(navigation) =>
                      \/ calls' # calls /\ request.verb # "get"
                      \/ Part.type \in Properties \cup {"ValueExpression"}
    BY <1>2, LastStage DEF Addresses
  <1> QED
    BY <1>1, <1>2, StagePreserves

(* Calling is seen in the sequence of calls.                                 *)
LEMMA AppendDiffers ==
    ASSUME StageInv, NEW c
    PROVE  Append(calls, c) # calls
  <1>1. Len(Append(calls, c)) = Len(calls) + 1 /\ Len(calls) \in Nat
    BY AppendCall, Zenon DEF StageInv
  <1> QED
    BY <1>1

(* A stage that calls one method serves its part with the verb it calls.     *)
LEMMA CallServes ==
    ASSUME NEW class, NEW found, NEW fn, NEW v, NEW params, NEW filter,
           calls' = Append(calls, Call(class, found, fn, v, params, filter))
    PROVE  Serves(v)
  <1> DEFINE call == Call(class, found, fn, v, params, filter)
  <1>1. call.part = Index /\ call.verb = v
    BY DEF Call
  <1> HIDE DEF call
  <1>2. calls' = Append(calls, call)
    BY DEF call
  <1> QED
    BY <1>1, <1>2, Zenon DEF Serves

(* A property is written as the last part, or before $value.                 *)
LEMMA PropertyPreserves ==
    ASSUME RequestInv, Property
    PROVE  RequestInv'
  <1>1. outcome = "running" /\ stage < Len(navigation) /\ Part.type \in Properties
    BY DEF Property, At
  <1> DEFINE key == navigation[stage].key
             value == IF result.body[1] = "entity"
                      THEN <<"value", Part.name, result.type, result.body[3]>>
                      ELSE <<"none">>
  <1>2. PICK fn \in {PropertyMethod} :
           IF result.type = None \/ (fn # NoMethod /\ ~Has(prevCtrl, fn.call))
           THEN Fails(500)
           ELSE /\ calls' = IF fn = NoMethod THEN calls
                            ELSE Append(calls, Call(prevCtrl, ctrl, fn, request.verb,
                                        AssignKeys(KeyParams(key), fn.key, key),
                                        NoFilter))
                /\ IF request.verb # "get"
                   THEN /\ result' = NoResult /\ status' = 204 /\ stage' = Index
                        /\ UNCHANGED outcome
                   ELSE IF Part.name \in server.streamed
                   THEN StreamsOut
                   ELSE /\ result' = [type |-> Part.name, body |-> value]
                        /\ status' = 200 /\ stage' = Index
                        /\ UNCHANGED outcome
                /\ UNCHANGED <<dispatchVars, requestVars, ctrl, prevCtrl, instance>>
    BY Zenon DEF Property
  <1> HIDE DEF key, value
  <1>3. CASE Fails(500)
    BY <1>1, <1>3, FailsPreserves
  <1>4. CASE ~Fails(500)
    <2>1. Serves(request.verb)
      <3>1. CASE fn = NoMethod
        BY <1>2, <1>4, <3>1 DEF Serves
      <3>2. CASE fn # NoMethod
        <4>1. calls' = Append(calls, Call(prevCtrl, ctrl, fn, request.verb,
                                  AssignKeys(KeyParams(key), fn.key, key), NoFilter))
          BY <1>2, <1>4, <3>2
        <4> QED
          BY <4>1, CallServes, Zenon
      <3> QED
        BY <3>1, <3>2
    <2>2. Moves /\ (outcome' = "streaming" => request.verb = "get")
      BY <1>1, <1>2, <1>4 DEF Moves, StreamsOut
    <2>3. Part.type \notin EntityParts
      BY <1>1 DEF Properties, EntityParts
    <2>4. UNCHANGED <<dispatchVars, requestVars>>
      BY <1>2, <1>4
    <2> QED
      BY <1>1, <2>1, <2>2, <2>3, <2>4, OtherStage
  <1> QED
    BY <1>3, <1>4

(* A type name calls nothing; IsWriteForm leaves out a write that ends in one.*)
LEMMA TypeNamePreserves ==
    ASSUME RequestInv, QualifiedTypeName
    PROVE  RequestInv'
  <1>1. /\ outcome = "running" /\ stage < Len(navigation)
        /\ Part.type = "QualifiedEntityTypeName"
        /\ UNCHANGED <<dispatchVars, requestVars, calls, outcome>> /\ stage' = Index
    BY DEF QualifiedTypeName, At
  <1>2. Stage /\ Serves("get")
    BY <1>1, PartsUnchanged DEF Stage, Moves, Serves, dispatchVars, requestVars, RequestInv
  <1>3. ASSUME Addresses
        PROVE  Index < Len(navigation)
    <2>1. Len(navigation) \in Nat /\ stage \in Nat /\ Index = stage + 1
          /\ DOMAIN navigation = 1..Len(navigation)
      BY LenProperties DEF RequestInv, NavigationInv, StageInv, Index
    <2>2. Index \in DOMAIN navigation
      BY <1>1, <2>1
    <2>3. ~(Index < Len(navigation)) => Part.type # "QualifiedEntityTypeName"
      BY <1>3, <2>2 DEF Addresses, IsWriteForm, Part
    <2> QED
      BY <1>1, <2>3
  <1>4. Addresses => Index # Len(navigation)
    <2>1. Len(navigation) \in Nat
      BY LenProperties DEF RequestInv, NavigationInv
    <2> QED
      BY <1>3, <2>1
  <1> QED
    BY <1>1, <1>2, <1>3, <1>4, StagePreserves

(* A bound operation or an import calls its own method.                      *)
LEMMA OperationPreserves ==
    ASSUME RequestInv, BoundOperation \/ OperationImport
    PROVE  RequestInv'
  <1>1. /\ outcome = "running" /\ stage < Len(navigation)
        /\ Part.type \in {"BoundActionCall", "BoundFunctionCall",
                          "FunctionImportCall", "ActionImportCall"}
    BY DEF BoundOperation, BoundOperations, OperationImport, At
  <1>2. \/ Fails(500)
        \/ /\ \E class, fn : calls' = Append(calls, Call(class, class, fn,
                                                       request.verb, <<>>, NoFilter))
           /\ FailsCalled(500) \/ \E body_, code : Stays(body_, code)
    BY Zenon DEF BoundOperation, OperationImport
  <1>3. CASE Fails(500)
    BY <1>1, <1>3, FailsPreserves
  <1>4. CASE ~Fails(500)
    <2>1. PICK class, fn : calls' = Append(calls, Call(class, class, fn, request.verb,
                                                       <<>>, NoFilter))
      BY <1>2, <1>4
    <2>2. Serves(request.verb)
      BY <2>1, CallServes, Zenon
    <2>3. /\ Moves /\ outcome' \in {"running", "error"}
          /\ UNCHANGED <<dispatchVars, requestVars>>
      BY <1>1, <1>2, <1>4 DEF Moves, Stays, FailsCalled
    <2>4. calls' # calls
      BY <2>1, AppendDiffers DEF RequestInv
    <2>5. Part.type \notin EntityParts
      BY <1>1 DEF EntityParts
    <2> QED
      BY <1>1, <2>2, <2>3, <2>4, <2>5, OtherStage
  <1> QED
    BY <1>3, <1>4

(* $count calls nothing; IsWriteForm leaves out a write that ends in it.     *)
LEMMA CountPreserves ==
    ASSUME RequestInv, Count(resultCount)
    PROVE  RequestInv'
  <1>0. CASE Fails(500)
    BY <1>0, FailsPreserves DEF Count, At
  <1> SUFFICES ASSUME ~Fails(500) PROVE RequestInv'
    BY <1>0
  <1>1. /\ outcome = "running" /\ stage < Len(navigation)
        /\ Part.type = "CountExpression"
        /\ UNCHANGED <<dispatchVars, requestVars, calls, outcome>> /\ stage' = Index
    BY DEF Count, At, Answers, Stays
  <1>2. Moves /\ Serves(request.verb)
    BY <1>1 DEF Moves, Serves
  <1>3. Part.type \notin EntityParts
    BY <1>1 DEF EntityParts
  <1> QED
    BY <1>1, <1>2, <1>3, OtherStage

(* $value calls the method of the raw value, or leaves it to the property.   *)
LEMMA RawValuePreserves ==
    ASSUME RequestInv, RawValue
    PROVE  RequestInv'
  <1>1. /\ outcome = "running" /\ stage < Len(navigation)
        /\ Part.type = "ValueExpression"
    BY DEF RawValue, At
  <1>0. CASE Fails(500)
    BY <1>0, <1>1, FailsPreserves
  <1> SUFFICES ASSUME ~Fails(500) PROVE RequestInv'
    BY <1>0
  <1>2. PICK fn, params, value :
          IF result.body = <<"stream">>
          THEN Stays(result.body, status) /\ UNCHANGED calls
          ELSE
          /\ calls' = IF fn = NoMethod THEN calls
                      ELSE Append(calls, Call(ctrl, ctrl, fn, request.verb, params, NoFilter))
          /\ IF result.type \in server.media /\ request.verb = "get"
             THEN IF fn = NoMethod
                  THEN FailsCalled(500)
                  ELSE /\ StreamsOut
                       /\ UNCHANGED <<dispatchVars, requestVars, ctrl, prevCtrl, instance>>
             ELSE Answers(value, IF result.type \in server.media THEN 204
                                 ELSE StatusOf(request.verb, value))
    BY Zenon DEF RawValue
  <1>3. Serves(request.verb)
    <2>1. CASE calls' = calls
      BY <2>1 DEF Serves
    <2>2. CASE calls' # calls
      <3>1. calls' = Append(calls, Call(ctrl, ctrl, fn, request.verb, params, NoFilter))
        BY <1>2, <2>2
      <3> QED
        BY <3>1, CallServes, Zenon
    <2> QED
      BY <2>1, <2>2
  <1>4. /\ Moves /\ UNCHANGED <<dispatchVars, requestVars>>
        /\ outcome' = "streaming" => request.verb = "get"
    BY <1>1, <1>2 DEF Moves, Stays, Answers, FailsCalled, StreamsOut
  <1>5. Part.type \notin EntityParts
    BY <1>1 DEF EntityParts
  <1> QED
    BY <1>1, <1>3, <1>4, <1>5, OtherStage

(* A reference that is written calls one method of the controller before.    *)
LEMMA ReferencePreserves ==
    ASSUME RequestInv, Reference
    PROVE  RequestInv'
  <1>1. /\ outcome = "running" /\ stage < Len(navigation)
        /\ Part.type = "RefExpression"
    BY DEF Reference, At
  <1> DEFINE link == <<"link", navigation[stage].name, result.type, Owner>>
  <1>0. CASE Fails(500)
    BY <1>0, <1>1, FailsPreserves
  <1> SUFFICES ASSUME ~Fails(500) PROVE RequestInv'
    BY <1>0
  <1>2. PICK fn, params :
          \/ request.verb = "get" /\ Stays(link, 200) /\ UNCHANGED calls
          \/ Fails(404)
          \/ /\ calls' = Append(calls, Call(prevCtrl, prevCtrl, fn, request.verb,
                                            params, NoFilter))
             /\ Stays(<<"none">>, 204)
    BY ZenonT(30) DEF Reference
  <1> HIDE DEF link
  <1>3. CASE Fails(404)
    BY <1>1, <1>3, FailsPreserves
  <1>4. CASE ~Fails(404)
    <2>1. \/ request.verb = "get" /\ Stays(link, 200) /\ UNCHANGED calls
          \/ /\ calls' = Append(calls, Call(prevCtrl, prevCtrl, fn, request.verb,
                                            params, NoFilter))
             /\ Stays(<<"none">>, 204)
      BY <1>2, <1>4
    <2>2. Serves(request.verb)
      <3>1. CASE calls' = calls
        BY <3>1 DEF Serves
      <3>2. CASE calls' # calls
        <4>1. calls' = Append(calls, Call(prevCtrl, prevCtrl, fn, request.verb,
                                          params, NoFilter))
          BY <2>1, <3>2
        <4> QED
          BY <4>1, CallServes, Zenon
      <3> QED
        BY <3>1, <3>2
    <2>3. Moves /\ outcome' = "running" /\ UNCHANGED <<dispatchVars, requestVars>>
      BY <1>1, <2>1 DEF Moves, Stays
    <2>4. request.verb # "get" => calls' # calls
      BY <2>1, AppendDiffers DEF RequestInv
    <2>5. Part.type \notin EntityParts
      BY <1>1 DEF EntityParts
    <2> QED
      BY <1>1, <2>2, <2>3, <2>4, <2>5, OtherStage
  <1> QED
    BY <1>3, <1>4

-----------------------------------------------------------------------------
(* The actions around the stages.                                              *)

LEMMA SkipPreserves ==
    ASSUME RequestInv, SkipStage
    PROVE  RequestInv'
  <1>1. /\ outcome = "running" /\ stage < Len(navigation) /\ Index < Len(navigation)
        /\ UNCHANGED <<dispatchVars, requestVars, calls, outcome>> /\ stage' = Index
    BY DEF SkipStage, Skipped
  <1>2. Stage /\ Serves("get")
    BY <1>1, PartsUnchanged DEF Stage, Moves, Serves, dispatchVars, requestVars, RequestInv
  <1>3. Index # Len(navigation)
    <2>1. Len(navigation) \in Nat /\ stage \in Nat /\ Index = stage + 1
      BY LenProperties DEF RequestInv, NavigationInv, StageInv, Index
    <2> QED
      BY <1>1, <2>1
  <1> QED
    BY <1>1, <1>2, <1>3, StagePreserves

(* What WritesOnce is about does not depend on the progress of the stages.     *)
LEMMA SameWrite ==
    ASSUME UNCHANGED <<request, navigation, calls>>
    PROVE  /\ Addresses' = Addresses /\ Written' = Written
           /\ \A i : ValueOfProperty(i)' = ValueOfProperty(i)
  BY DEF Addresses, IsWriteForm, ServedTwice, ValueOfProperty, Written, Unserved

(* Only a read streams, so the last part of a write is not reached this way. *)
LEMMA StreamEndsPreserves ==
    ASSUME RequestInv, StreamEnds
    PROVE  RequestInv'
  <1>1. /\ outcome = "streaming" /\ outcome' = "running" /\ stage' = Index
        /\ UNCHANGED <<server, request, visited, navigation, calls>>
    BY DEF StreamEnds, dispatchVars, requestVars
  <1>2. Len(navigation) \in Nat /\ stage \in Nat /\ Index = stage + 1
    BY LenProperties DEF RequestInv, NavigationInv, StageInv, Index
  <1>3. NavigationInv'
    BY <1>1 DEF RequestInv, NavigationInv
  <1>4. StageInv'
    BY <1>1, <1>2 DEF RequestInv, StageInv, Reached
  <1>5. WriteInv'
    <2>1. Addresses => stage' # Len(navigation)
      BY <1>1, <1>2 DEF RequestInv, WriteInv
    <2> QED
      BY <1>1, <2>1, SameWrite DEF RequestInv, WriteInv
  <1> QED
    BY <1>3, <1>4, <1>5 DEF RequestInv

(* The answer is given after the last stage.                                 *)
LEMMA FinishPreserves ==
    ASSUME RequestInv, Finish(Heard)
    PROVE  RequestInv'
  <1>1. /\ outcome = "running" /\ outcome' \in {"error", "done"}
        /\ stage = Len(navigation)
        /\ UNCHANGED <<server, request, visited, navigation, calls, stage>>
    BY DEF Finish, dispatchVars, requestVars
  <1>2. Len(navigation) \in Nat /\ stage \in Nat
    BY LenProperties DEF RequestInv, NavigationInv, StageInv
  <1>3. NavigationInv'
    BY <1>1 DEF RequestInv, NavigationInv
  <1>4. StageInv'
    BY <1>1, <1>2 DEF RequestInv, StageInv, Reached
  <1>5. WriteInv'
    BY <1>1, SameWrite DEF RequestInv, WriteInv
  <1> QED
    BY <1>3, <1>4, <1>5 DEF RequestInv

(* A method that throws ends the stages.                                     *)
LEMMA ThrowsPreserves ==
    ASSUME RequestInv, MethodThrows
    PROVE  RequestInv'
  <1>1. outcome \in {"running", "streaming"} /\ stage < Len(navigation) /\ Fails(500)
    BY DEF MethodThrows, RequestInv, StageInv
  <1> QED
    BY <1>1, FailsPreserves

(* Before the stages nothing has been called.                                  *)
LEMMA BeforeStages ==
    ASSUME NavigationInv', outcome' \in {"load", "visiting", "running", "error"},
           stage' = 0, calls' = <<>>,
           outcome' = "running" => navigation' # <<>>
    PROVE  RequestInv'
  <1>1. Len(navigation') \in Nat /\ (navigation' # <<>> => Len(navigation') # 0)
    BY LenProperties, EmptySeq DEF NavigationInv
  <1>2. DOMAIN <<>> = {}
    OBVIOUS
  <1>3. calls' \in Seq(Range(calls'))
    BY EmptySeq
  <1>4. StageInv'
    BY <1>1, <1>2, <1>3 DEF StageInv
  <1>5. WriteInv'
    BY <1>1, <1>2 DEF WriteInv
  <1> QED
    BY <1>4, <1>5 DEF RequestInv

(* Loading the classes and visiting the URL call nothing.                    *)
LEMMA BeforePreserves ==
    ASSUME RequestInv, Load \/ Begin \/ Visit \/ PushStages
    PROVE  RequestInv'
  <1>1. CASE Load
    <2>1. /\ outcome = "load" /\ UNCHANGED <<server, requestVars, stageVars>>
      BY <1>1 DEF Load, Decorate
    <2>2. NavigationInv'
      BY <2>1 DEF RequestInv, NavigationInv, StageInv, requestVars, stageVars
    <2> QED
      BY <2>1, <2>2, BeforeStages DEF RequestInv, StageInv, stageVars
  <1>2. CASE Begin
    <2>1. /\ outcome = "load" /\ outcome' = "visiting"
          /\ request' \in Requests[server.name]
          /\ UNCHANGED <<server, visited, navigation, stage, calls>>
      BY <1>2 DEF Begin, dispatchVars
    <2>2. request'.path \in Seq(Segment)
      BY <2>1, RequestTypes DEF RequestInv, NavigationInv
    <2>3. visited' \in 0..Len(request'.path)
      BY <2>1, <2>2, LenProperties DEF RequestInv, NavigationInv
    <2>4. NavigationInv'
      BY <2>1, <2>2, <2>3 DEF RequestInv, NavigationInv
    <2> QED
      BY <2>1, <2>4, BeforeStages DEF RequestInv, StageInv
  <1>3. CASE Visit
    <2>1. /\ outcome = "visiting" /\ visited < Len(request.path)
          /\ visited' = visited + 1
          /\ navigation' = VisitSegment(navigation, request.path[visited + 1])
          /\ UNCHANGED <<server, request, stage, calls, outcome>>
      BY <1>3 DEF Visit, dispatchVars, stageVars
    <2>2. request.path \in Seq(Segment) /\ visited \in 0..Len(request.path)
          /\ Len(request.path) \in Nat
      BY LenProperties DEF RequestInv, NavigationInv
    <2>3. visited + 1 \in 1..Len(request.path)
      BY <2>1, <2>2
    <2>4. request.path[visited + 1] \in Segment
      BY <2>2, <2>3, ElementOfSeq
    <2>5. navigation' \in Seq(Segment)
      BY <2>1, <2>4, VisitTypes DEF RequestInv, NavigationInv
    <2>6. NavigationInv'
      BY <2>1, <2>2, <2>3, <2>5, SegmentsAreParts DEF RequestInv, NavigationInv
    <2> QED
      BY <2>1, <2>6, BeforeStages DEF RequestInv, StageInv
  <1>4. CASE PushStages
    <2>1. /\ outcome = "visiting" /\ UNCHANGED <<server, request, visited, navigation>>
          /\ outcome' \in {"error", "running"} /\ UNCHANGED <<stage, calls>>
          /\ outcome' = "running" => navigation # <<>>
      BY <1>4 DEF PushStages, dispatchVars, requestVars
    <2>2. NavigationInv'
      BY <2>1 DEF RequestInv, NavigationInv
    <2> QED
      BY <2>1, <2>2, BeforeStages DEF RequestInv, StageInv
  <1> QED
    BY <1>1, <1>2, <1>3, <1>4

(* The streams, the delivery and stuttering leave the stages as they are.      *)
LEMMA RequestUnchanged ==
    ASSUME RequestInv, UNCHANGED processorVars
    PROVE  RequestInv'
  <1>1. UNCHANGED <<server, request, visited, navigation, calls, stage, outcome>>
    BY DEF processorVars, dispatchVars, requestVars, stageVars
  <1>2. NavigationInv' /\ StageInv'
    BY <1>1 DEF RequestInv, NavigationInv, StageInv, Reached
  <1>3. WriteInv'
    BY <1>1, SameWrite DEF RequestInv, WriteInv, Index
  <1> QED
    BY <1>2, <1>3 DEF RequestInv

-----------------------------------------------------------------------------
(* At the beginning nothing has been asked, visited or called.                 *)
LEMMA RequestInit ==
    ASSUME ResponseInit
    PROVE  RequestInv
  <1>1. /\ server \in Servers /\ request.path = <<>> /\ visited = 0
        /\ navigation = <<>> /\ stage = 0 /\ calls = <<>> /\ outcome = "load"
    BY DEF ResponseInit, ProcessorInit, DispatchInit, NoRequest
  <1>2. NavigationInv
    BY <1>1, EmptySeq, SegmentsAreParts DEF NavigationInv
  <1>3. DOMAIN <<>> = {} /\ Len(<<>>) = 0
    OBVIOUS
  <1>4. StageInv
    BY <1>1, <1>3, EmptySeq DEF StageInv
  <1>5. WriteInv
    BY <1>1, <1>3 DEF WriteInv
  <1> QED
    BY <1>2, <1>4, <1>5 DEF RequestInv

(* Every step of the processor, the stream and the delivery.                 *)
LEMMA RequestNext ==
    ASSUME RequestInv, ResponseNext
    PROVE  RequestInv'
  <1>1. CASE Working
    BY <1>1, BeforePreserves, SkipPreserves, EntityPreserves, PropertyPreserves,
       TypeNamePreserves, OperationPreserves, CountPreserves, RawValuePreserves,
       ReferencePreserves, ThrowsPreserves, FinishPreserves, Zenon DEF Working
  <1>2. CASE StageResumes
    <2>1. outcome = "streaming" /\ (StreamEnds \/ \E code : Fails(code))
      BY <1>2, Zenon DEF StageResumes
    <2> QED
      BY <2>1, StreamEndsPreserves, FailsPreserves DEF RequestInv, StageInv
  <1>3. CASE StartStream \/ Streaming \/ Deliver \/ DeliverError \/ AfterAnswer
    <2>1. UNCHANGED processorVars
      BY <1>3, Zenon DEF StartStream, Streaming, Deliver, DeliverError, AfterAnswer
    <2> QED
      BY <2>1, RequestUnchanged
  <1> QED
    BY <1>1, <1>2, <1>3 DEF ResponseNext

(* Whatever a request asks of whatever server: its path has been visited in    *)
(* order, its stages run in order, and its writes go as described above.       *)
THEOREM RequestHolds == ResponseSpec => []RequestInv
  <1>1. ASSUME RequestInv, UNCHANGED responseVars
        PROVE  RequestInv'
    BY <1>1, RequestUnchanged DEF responseVars
  <1>2. RequestInv /\ [ResponseNext]_responseVars => RequestInv'
    BY <1>1, RequestNext
  <1> QED
    BY <1>2, RequestInit, PTL DEF ResponseSpec

(* A write of a request is served by one method, once, for its last segment or *)
(* the property before $value; every entity on the way is only read; and what  *)
(* is answered without an error has been written.                              *)
THEOREM WritesOnceHolds == ResponseSpec => []WritesOnce
  <1>1. ASSUME RequestInv
        PROVE  WritesOnce
    <2> SUFFICES ASSUME Addresses
                 PROVE  /\ \A k \in DOMAIN calls :
                              IsWrite(calls[k]) =>
                                  /\ k = Len(calls)
                                  /\ \/ calls[k].part = Len(navigation)
                                     \/ ValueOfProperty(calls[k].part)
                        /\ outcome = "done" => Written
      BY DEF WritesOnce, Addresses, Written
    <2> QED
      BY <1>1 DEF RequestInv, StageInv, WriteInv
  <1> QED
    BY <1>1, RequestHolds, PTL

-------------------------------------------------------------------------------
(* The stream: everything pushed so far is the beginning of the right answer,  *)
(* and as long as the state of the transformation says it is.                  *)

(* Everything that _transform and _flush have pushed.                          *)
Pushed == Sent \o outbox

(* The chunks that _transform has been given.                                  *)
Taken == written - Len(inbox)

(* Before a method streams.                                                    *)
Unused ==
    /\ script = <<>> /\ way = "sink" /\ streamEnabled
    /\ written = 0 /\ ~sourceEnded /\ inbox = <<>> /\ busy = Idle
    /\ ~streamStart /\ ~streamObject /\ ~streamEnd
    /\ streamInlineCount = -1 /\ resultCount = 0
    /\ outbox = <<>> /\ flowing /\ ~ended /\ resBuffer = <<>> /\ received = <<>>
    /\ body = -1

(* What the stage waits for, or has waited for.                                *)
WaitInv ==
    /\ exec = "none" => Unused
    /\ exec = "processorEnd" => way = "sink"
    /\ exec \in {"method", "writerEnd"} => way = "writer"
    /\ exec = "sourceEnd" => way \in {"source", "media"}
    /\ exec = "resolved" => CASE way = "sink" -> ended
                              [] way = "writer" -> streamEnd
                              [] OTHER -> sourceEnded

(* The rows of a regular script that have been taken, and those converted.     *)
RowsTaken == IF Taken <= Heads THEN 0 ELSE Taken - Heads
Pending == IF busy = Idle THEN 0 ELSE 1
Closed == IF streamEnd THEN 1 ELSE 0

MediaProgress ==
    /\ ~streamObject /\ busy = Idle
    /\ streamStart <=> Taken > 0
    /\ Len(Pushed) = Taken

ObjectProgress ==
    /\ streamStart <=> Taken > 0
    /\ streamObject <=> Taken > 0
    /\ busy # Idle => Taken > Heads /\ busy = script[Taken]
    /\ resultCount = RowsTaken - Pending
    /\ Len(Pushed) = IF Taken = 0 THEN Closed
                     ELSE IF RowsTaken = 0 THEN 1 + Closed
                     ELSE 2 * RowsTaken - Pending + Closed

ProgressInv ==
    streamEnabled /\ Regular =>
        IF way = "media" THEN MediaProgress ELSE ObjectProgress

(* The count that was given last.                                              *)
LastOf(n, count) ==
    \/ count = -1 /\ \A i \in 1..n : script[i].count <= 0
    \/ \E i \in 1..n : /\ script[i].count > 0 /\ count = script[i].count
                       /\ \A j \in (i + 1)..n : script[j].count <= 0

CountInv == streamEnabled => LastOf(Taken, streamInlineCount)

(* What has been pushed is the beginning of the answer.                        *)
Right == /\ Len(Pushed) <= Len(Document)
         /\ \A i \in 1..Len(Pushed) : Pushed[i] = Document[i]

DocumentInv == streamEnabled /\ Regular => Right

-----------------------------------------------------------------------------
(* The lesser of two numbers.                                                  *)
LEMMA MinOfTwo ==
    ASSUME NEW a \in Int, NEW b \in Int
    PROVE  Min({a, b}) = IF a <= b THEN a ELSE b
  <1> DEFINE m == IF a <= b THEN a ELSE b
  <1>1. m \in {a, b} /\ \A y \in {a, b} : m <= y
    OBVIOUS
  <1>2. \A x \in {a, b} : (\A y \in {a, b} : x <= y) => x = m
    OBVIOUS
  <1> HIDE DEF m
  <1>3. Min({a, b}) = m
    BY <1>1, <1>2 DEF Min
  <1> QED
    BY <1>3 DEF m

(* The sequences of the readable side.                                         *)
PipeOK ==
    /\ outbox \in Seq(Tokens) /\ resBuffer \in Seq(Tokens)
    /\ received \in Seq(Tokens) /\ flowing \in BOOLEAN
    /\ Len(resBuffer) <= ResHigh
    /\ flowing => Len(resBuffer) < ResHigh /\ outbox = <<>>

(* Tokens joined, whatever the order of joining.                               *)
LEMMA Join ==
    ASSUME NEW a \in Seq(Tokens), NEW b \in Seq(Tokens)
    PROVE  /\ a \o b \in Seq(Tokens) /\ Len(a \o b) = Len(a) + Len(b)
           /\ Len(a) \in Nat /\ Len(b) \in Nat
           /\ \A i \in 1..Len(a) + Len(b) :
                 (a \o b)[i] = IF i <= Len(a) THEN a[i] ELSE b[i - Len(a)]
  BY ConcatProperties, LenProperties

(* Concatenation is associative.                                               *)
LEMMA JoinThree ==
    ASSUME NEW a \in Seq(Tokens), NEW b \in Seq(Tokens), NEW c \in Seq(Tokens)
    PROVE  (a \o b) \o c = a \o (b \o c)
  BY ConcatAssociative

(* A sequence is what it was cut into.                                         *)
LEMMA CutInTwo ==
    ASSUME NEW s \in Seq(Tokens), NEW n \in 0..Len(s)
    PROVE  /\ SubSeq(s, 1, n) \in Seq(Tokens) /\ Len(SubSeq(s, 1, n)) = n
           /\ SubSeq(s, n + 1, Len(s)) \in Seq(Tokens)
           /\ Len(SubSeq(s, n + 1, Len(s))) = Len(s) - n
           /\ SubSeq(s, 1, n) \o SubSeq(s, n + 1, Len(s)) = s
  <1>1. Len(s) \in Nat
    BY LenProperties
  <1>2. /\ SubSeq(s, 1, n) \in Seq(Tokens)
        /\ Len(SubSeq(s, 1, n)) = IF 1 <= n THEN n - 1 + 1 ELSE 0
    BY <1>1, SubSeqProperties, ElementOfSeq
  <1>3. /\ SubSeq(s, n + 1, Len(s)) \in Seq(Tokens)
        /\ Len(SubSeq(s, n + 1, Len(s))) =
              IF n + 1 <= Len(s) THEN Len(s) - (n + 1) + 1 ELSE 0
    BY <1>1, SubSeqProperties, ElementOfSeq
  <1>4. SubSeq(s, 1, n) \o SubSeq(s, n + 1, Len(s)) = SubSeq(s, 1, Len(s))
    <2> DEFINE l == Len(s)
    <2>1. 1 \in 1..(l + 1) /\ n \in (1 - 1)..l /\ l \in n..l
      BY <1>1
    <2> HIDE DEF l
    <2>2. SubSeq(s, 1, n) \o SubSeq(s, n + 1, l) = SubSeq(s, 1, l)
      BY <2>1, ConcatAdjacentSubSeq DEF l
    <2> QED
      BY <2>2 DEF l
  <1>5. Len(SubSeq(s, 1, n)) = n /\ Len(SubSeq(s, n + 1, Len(s))) = Len(s) - n
    BY <1>1, <1>2, <1>3
  <1>6. SubSeq(s, 1, Len(s)) = s
    BY SubSeqFull
  <1> QED
    BY <1>2, <1>3, <1>4, <1>5, <1>6, Zenon

(* What is forwarded is neither lost nor reordered, and while the processor    *)
(* flows nothing is kept back.                                                 *)
LEMMA ForwardKeeps ==
    ASSUME PipeOK, NEW tokens \in Seq(Tokens), Forward(tokens)
    PROVE  PipeOK' /\ received' = received
           /\ resBuffer' \o outbox' = resBuffer \o tokens
  <1> DEFINE room == ResHigh - Len(resBuffer)
             n == IF flowing THEN Min({Len(tokens), room}) ELSE 0
             m == IF flowing THEN (IF Len(tokens) <= room THEN Len(tokens) ELSE room) ELSE 0
  <1>1. Len(tokens) \in Nat /\ Len(resBuffer) \in Nat /\ ResHigh \in Nat
    BY LenProperties, HighAssumption DEF PipeOK
  <1>2. n = m
    <2>1. Len(tokens) \in Int /\ room \in Int
      BY <1>1
    <2>2. Min({Len(tokens), room}) = IF Len(tokens) <= room THEN Len(tokens) ELSE room
      BY <2>1, MinOfTwo
    <2> QED
      BY <2>2
  <1>3. m \in 0..Len(tokens) /\ m <= room
    BY <1>1 DEF PipeOK
  <1>4. /\ outbox' = SubSeq(tokens, n + 1, Len(tokens))
        /\ resBuffer' = resBuffer \o SubSeq(tokens, 1, n)
        /\ flowing' = (flowing /\ Len(resBuffer') < ResHigh)
        /\ received' = received
    BY DEF Forward
  <1>5. /\ outbox' = SubSeq(tokens, m + 1, Len(tokens))
        /\ resBuffer' = resBuffer \o SubSeq(tokens, 1, m)
    BY <1>2, <1>4
  <1>6. flowing /\ m < room => m = Len(tokens)
    BY <1>1
  <1> HIDE DEF n, m
  <1>7. /\ outbox' \in Seq(Tokens) /\ resBuffer' \in Seq(Tokens)
        /\ Len(outbox') = Len(tokens) - m /\ Len(resBuffer') = Len(resBuffer) + m
    BY <1>1, <1>3, <1>5, CutInTwo, Join DEF PipeOK
  <1>8. resBuffer' \o outbox' = resBuffer \o tokens
    <2> DEFINE a == SubSeq(tokens, 1, m)
               b == SubSeq(tokens, m + 1, Len(tokens))
    <2>1. a \in Seq(Tokens) /\ b \in Seq(Tokens) /\ a \o b = tokens
      BY <1>3, CutInTwo
    <2>2. resBuffer' = resBuffer \o a /\ outbox' = b
      BY <1>5
    <2>3. resBuffer \in Seq(Tokens)
      BY DEF PipeOK
    <2> HIDE DEF a, b
    <2>4. (resBuffer \o a) \o b = resBuffer \o (a \o b)
      BY <2>1, <2>3, JoinThree
    <2> QED
      BY <2>1, <2>2, <2>4
  <1>9. flowing' => Len(resBuffer') < ResHigh /\ outbox' = <<>>
    <2> SUFFICES ASSUME flowing'
                 PROVE  Len(resBuffer') < ResHigh /\ outbox' = <<>>
      OBVIOUS
    <2>0. flowing /\ Len(resBuffer') < ResHigh
      BY <1>4
    <2>1. m < room
      <3>1. Len(resBuffer) + m < ResHigh
        BY <1>7, <2>0
      <3>2. m \in Nat
        BY <1>3
      <3> QED
        BY <1>1, <3>1, <3>2
    <2>2. Len(outbox') = 0
      <3>1. m = Len(tokens) /\ Len(outbox') = Len(tokens) - m
        BY <1>6, <1>7, <2>0, <2>1
      <3> QED
        BY <1>1, <3>1
    <2> QED
      BY <1>4, <1>7, <2>2, EmptySeq
  <1>10. Len(resBuffer') <= ResHigh /\ flowing' \in BOOLEAN
    BY <1>1, <1>3, <1>4, <1>7
  <1> QED
    BY <1>4, <1>7, <1>8, <1>9, <1>10 DEF PipeOK

(* A push adds to the end of what has been pushed.                             *)
LEMMA PushAppends ==
    ASSUME PipeOK, NEW tokens \in Seq(Tokens), Push(tokens)
    PROVE  PipeOK' /\ Pushed' = Pushed \o tokens
  <1> DEFINE more == outbox \o tokens
             front == received \o resBuffer
  <1>0. /\ outbox \in Seq(Tokens) /\ resBuffer \in Seq(Tokens)
        /\ received \in Seq(Tokens)
    BY DEF PipeOK
  <1>1. more \in Seq(Tokens) /\ front \in Seq(Tokens)
    BY <1>0, Join
  <1>2. Forward(more)
    BY DEF Push
  <1>3. Pushed = front \o outbox /\ Pushed' = (received' \o resBuffer') \o outbox'
    BY DEF Pushed, Sent
  <1>4. front \o more = (front \o outbox) \o tokens
    <2> HIDE DEF front
    <2>1. (front \o outbox) \o tokens = front \o (outbox \o tokens)
      BY <1>0, <1>1, JoinThree
    <2> QED
      BY <2>1
  <1>5. received \o (resBuffer \o more) = front \o more
    <2> HIDE DEF more
    <2>1. (received \o resBuffer) \o more = received \o (resBuffer \o more)
      BY <1>0, <1>1, JoinThree
    <2> QED
      BY <2>1
  <1> HIDE DEF more, front
  <1>6. /\ PipeOK' /\ received' = received
        /\ resBuffer' \o outbox' = resBuffer \o more
    BY <1>1, <1>2, ForwardKeeps
  <1>7. resBuffer' \in Seq(Tokens) /\ outbox' \in Seq(Tokens)
    BY <1>6 DEF PipeOK
  <1>8. (received \o resBuffer') \o outbox' = received \o (resBuffer' \o outbox')
    BY <1>0, <1>7, JoinThree
  <1> QED
    BY <1>3, <1>4, <1>5, <1>6, <1>8

(* A sequence is its head before its tail.                                     *)
LEMMA HeadFirst ==
    ASSUME NEW s \in Seq(Tokens), s # <<>>
    PROVE  /\ Head(s) \in Tokens /\ <<Head(s)>> \in Seq(Tokens)
           /\ Tail(s) \in Seq(Tokens) /\ Len(Tail(s)) = Len(s) - 1 /\ Len(s) \in Nat
           /\ <<Head(s)>> \o Tail(s) = s
  <1>1. Len(s) \in Nat /\ Len(s) # 0
    BY LenProperties, EmptySeq
  <1>2. Head(s) \in Tokens /\ Tail(s) \in Seq(Tokens) /\ Len(Tail(s)) = Len(s) - 1
    BY HeadTailProperties
  <1>3. SubSeq(s, 1, Len(s)) = <<s[1]>> \o SubSeq(s, 2, Len(s))
    <2> DEFINE l == Len(s)
    <2>1. 1 \in 1..l /\ l \in 1..l
      BY <1>1
    <2> HIDE DEF l
    <2>2. SubSeq(s, 1, l) = <<s[1]>> \o SubSeq(s, 1 + 1, l)
      BY <2>1, SubSeqRecursiveFirst DEF l
    <2> QED
      BY <2>2 DEF l
  <1>4. SubSeq(s, 1, Len(s)) = s /\ Tail(s) = SubSeq(s, 2, Len(s))
    BY SubSeqFull, TailIsSubSeq
  <1>5. Head(s) = s[1]
    OBVIOUS
  <1>6. <<Head(s)>> \in Seq(Tokens)
    BY <1>2
  <1> QED
    BY <1>1, <1>2, <1>3, <1>4, <1>5, <1>6, Zenon

(* Reading moves tokens towards the client and changes nothing else; after the *)
(* request is over nothing is forwarded.                                       *)
LEMMA ReadingKeeps ==
    ASSUME PipeOK, ClientReads
    PROVE  /\ PipeOK' /\ Pushed' = Pushed
           /\ answer # "open" => Sent' = Sent /\ flowing' = flowing
           /\ outbox = <<>> => outbox' = <<>>
  <1> DEFINE drain == Len(resBuffer) = 1 /\ ~flowing /\ answer = "open"
             n == IF drain THEN Min({Len(outbox), ResHigh}) ELSE 0
             m == IF drain THEN (IF Len(outbox) <= ResHigh THEN Len(outbox) ELSE ResHigh)
                  ELSE 0
             a == SubSeq(outbox, 1, m)
             b == SubSeq(outbox, m + 1, Len(outbox))
             head == <<Head(resBuffer)>>
             tail == Tail(resBuffer)
  <1>0. /\ outbox \in Seq(Tokens) /\ resBuffer \in Seq(Tokens)
        /\ received \in Seq(Tokens) /\ flowing \in BOOLEAN
        /\ Len(outbox) \in Nat /\ Len(resBuffer) \in Nat
        /\ ResHigh \in Nat /\ ResHigh # 0 /\ resBuffer # <<>>
    BY LenProperties, HighAssumption DEF PipeOK, ClientReads
  <1>1. n = m
    <2>1. Len(outbox) \in Int /\ ResHigh \in Int
      BY <1>0
    <2>2. Min({Len(outbox), ResHigh}) = IF Len(outbox) <= ResHigh THEN Len(outbox) ELSE ResHigh
      BY <2>1, MinOfTwo
    <2> QED
      BY <2>2
  <1>2. /\ received' = Append(received, Head(resBuffer))
        /\ outbox' = SubSeq(outbox, n + 1, Len(outbox))
        /\ resBuffer' = Tail(resBuffer) \o SubSeq(outbox, 1, n)
        /\ flowing' = IF drain THEN n < ResHigh ELSE flowing
    BY DEF ClientReads
  <1>3. m \in 0..Len(outbox) /\ m <= ResHigh
    BY <1>0
  <1>4. /\ received' = received \o head
        /\ outbox' = b /\ resBuffer' = tail \o a
        /\ flowing' = IF drain THEN m < ResHigh ELSE flowing
    <2>1. Head(resBuffer) \in Tokens
      BY <1>0, HeadFirst
    <2>2. Append(received, Head(resBuffer)) = received \o <<Head(resBuffer)>>
      BY <1>0, <2>1, AppendIsConcat
    <2> HIDE DEF n, m
    <2> QED
      BY <1>1, <1>2, <2>2
  <1>5. /\ head \in Seq(Tokens) /\ tail \in Seq(Tokens) /\ head \o tail = resBuffer
        /\ Len(tail) = Len(resBuffer) - 1
    BY <1>0, HeadFirst
  <1>6. /\ a \in Seq(Tokens) /\ b \in Seq(Tokens) /\ a \o b = outbox
        /\ Len(a) = m /\ Len(b) = Len(outbox) - m
    <2> HIDE DEF m
    <2> QED
      BY <1>0, <1>3, CutInTwo
  <1>7. drain => Len(tail) = 0 /\ (m < ResHigh => m = Len(outbox))
    <2>1. drain => Len(resBuffer) = 1
      OBVIOUS
    <2>2. drain => (m < ResHigh => m = Len(outbox))
      BY <1>0
    <2> HIDE DEF tail, m, drain
    <2> QED
      BY <1>5, <2>1, <2>2
  <1>8. ~drain => m = 0
    OBVIOUS
  <1>9. flowing => outbox = <<>> /\ Len(resBuffer) < ResHigh
    BY DEF PipeOK
  <1>10. Len(resBuffer) <= ResHigh
    BY DEF PipeOK
  <1>11. drain \in BOOLEAN /\ (drain => ~flowing /\ answer = "open")
    OBVIOUS
  <1> HIDE DEF a, b, head, tail, m, n, drain
  <1>12. PipeOK'
    <2>a. tail \o a \in Seq(Tokens) /\ Len(tail \o a) = Len(tail) + Len(a)
      BY <1>5, <1>6, Join
    <2>b. received \o head \in Seq(Tokens)
      BY <1>0, <1>5, Join
    <2>c. flowing' \in BOOLEAN
      <3>1. flowing' = IF drain THEN m < ResHigh ELSE flowing
        BY <1>4
      <3>2. CASE drain
        <4>1. flowing' = (m < ResHigh)
          BY <3>1, <3>2
        <4> QED
          BY <4>1
      <3>3. CASE ~drain
        <4>1. flowing' = flowing
          BY <3>1, <3>3
        <4> QED
          BY <1>0, <4>1
      <3> QED
        BY <3>2, <3>3
    <2>1. /\ outbox' \in Seq(Tokens) /\ resBuffer' \in Seq(Tokens)
          /\ received' \in Seq(Tokens) /\ flowing' \in BOOLEAN
          /\ Len(resBuffer') = Len(tail) + m /\ Len(outbox') = Len(outbox) - m
      BY <1>4, <1>6, <2>a, <2>b, <2>c
    <2>d. m \in Nat /\ Len(tail) \in Nat
      BY <1>0, <1>3, <1>5, LenProperties
    <2>2. Len(resBuffer') <= ResHigh
      <3>1. CASE drain
        BY <1>0, <1>3, <1>7, <2>1, <2>d, <3>1
      <3>2. CASE ~drain
        BY <1>0, <1>5, <1>8, <1>10, <2>1, <2>d, <3>2
      <3> QED
        BY <3>1, <3>2
    <2>3. ASSUME flowing'
          PROVE  Len(resBuffer') < ResHigh /\ Len(outbox') = 0
      <3>1. CASE drain
        <4>1. m < ResHigh /\ m = Len(outbox) /\ Len(tail) = 0
          BY <1>4, <1>7, <2>3, <3>1
        <4> QED
          BY <1>0, <2>1, <2>d, <4>1
      <3>2. CASE ~drain
        <4>1. flowing /\ m = 0 /\ Len(outbox) = 0
          BY <1>4, <1>8, <1>9, <2>3, <3>2, EmptySeq
        <4> QED
          BY <1>0, <1>5, <1>9, <2>1, <4>1
      <3> QED
        BY <3>1, <3>2
    <2>4. flowing' => outbox' = <<>>
      BY <2>1, <2>3, EmptySeq
    <2> QED
      BY <2>1, <2>2, <2>3, <2>4 DEF PipeOK
  <1>13. Pushed' = Pushed
    <2>1. Pushed' = ((received \o head) \o (tail \o a)) \o b
      BY <1>4 DEF Pushed, Sent
    <2>2. tail \o a \in Seq(Tokens) /\ received \o head \in Seq(Tokens)
      BY <1>0, <1>5, <1>6, Join
    <2>3. ((received \o head) \o (tail \o a)) \o b = (received \o head) \o ((tail \o a) \o b)
      BY <1>6, <2>2, JoinThree
    <2>4. (tail \o a) \o b = tail \o outbox
      BY <1>5, <1>6, JoinThree
    <2>5. (received \o head) \o (tail \o outbox) = ((received \o head) \o tail) \o outbox
      <3> DEFINE front == received \o head
      <3> HIDE DEF front
      <3>1. front \in Seq(Tokens)
        BY <2>2 DEF front
      <3>2. (front \o tail) \o outbox = front \o (tail \o outbox)
        BY <1>0, <1>5, <3>1, JoinThree
      <3> QED
        BY <3>2 DEF front
    <2>6. (received \o head) \o tail = received \o resBuffer
      BY <1>0, <1>5, JoinThree
    <2>7. Pushed = (received \o resBuffer) \o outbox
      BY DEF Pushed, Sent
    <2> QED
      BY <2>1, <2>3, <2>4, <2>5, <2>6, <2>7
  <1>14. ASSUME ~drain
         PROVE  Sent' = Sent /\ flowing' = flowing
    <2>1. a = <<>>
      BY <1>6, <1>8, <1>14, EmptySeq
    <2>2. resBuffer' = tail
      BY <1>4, <1>5, <2>1, ConcatEmptySeq
    <2>3. (received \o head) \o tail = received \o resBuffer
      BY <1>0, <1>5, JoinThree
    <2> QED
      BY <1>4, <1>14, <2>2, <2>3 DEF Sent
  <1>15. outbox = <<>> => outbox' = <<>>
    <2> SUFFICES ASSUME outbox = <<>>
                 PROVE  outbox' = <<>>
      OBVIOUS
    <2>1. Len(outbox) = 0 /\ m = 0
      BY <1>0, <1>3, EmptySeq
    <2>2. Len(b) = 0
      BY <1>6, <2>1
    <2> QED
      BY <1>4, <1>6, <2>2, EmptySeq
  <1> QED
    BY <1>11, <1>12, <1>13, <1>14, <1>15

-----------------------------------------------------------------------------
(* What the variables hold beside those of the readable side.                  *)
WritableOK ==
    /\ way \in Ways /\ script \in Seq(Chunk) /\ streamEnabled \in BOOLEAN
    /\ written \in 0..Len(script) /\ sourceEnded \in BOOLEAN
    /\ inbox \in Seq(Chunk) /\ busy \in Chunk \cup {Idle}
    /\ streamStart \in BOOLEAN /\ streamObject \in BOOLEAN
    /\ streamEnd \in BOOLEAN /\ ended \in BOOLEAN
    /\ streamInlineCount \in Nat \cup {-1} /\ resultCount \in Nat
    /\ exec \in {"none", "method", "processorEnd", "writerEnd", "sourceEnd",
                 "resolved", "rejected"}
    /\ answer \in {"open", "ended", "failed", "crashed"}
    /\ body \in Nat \cup {-1}
    /\ streamEnd => sourceEnded /\ inbox = <<>> /\ busy = Idle

(* The chunks under way: those written and not taken, in order.                *)
InboxInv ==
    /\ sourceEnded => written = Len(script)
    /\ Len(inbox) <= written
    /\ \A i \in 1..Len(inbox) : inbox[i] = script[Taken + i]

(* What the way of the method and the end of the stream imply.                 *)
EndInv ==
    /\ way = "media" => streamEnabled /\ \A i \in DOMAIN script : script[i].count = -1
    /\ ended => streamEnd /\ outbox = <<>>
    /\ ~streamEnabled => /\ inbox = <<>> /\ busy = Idle /\ ~streamStart
                         /\ resultCount = written

StreamInv == PipeOK /\ WritableOK /\ InboxInv /\ EndInv /\ WaitInv

Pushable(x) == <<x>> \in Seq(Tokens)

(* Chunks are records of numbers.                                              *)
LEMMA Chunks ==
    /\ \A c \in Chunk : c.row \in Nat /\ c.count \in Nat \cup {-1}
    /\ Idle.row = 0 /\ Idle.count = -1 /\ Idle \notin Chunk
  <1>1. \A c \in Chunk : c.row \in Nat /\ c.count \in Nat \cup {-1}
    BY DEF Chunk
  <1>2. Idle.row = 0 /\ Idle.count = -1 /\ Idle \notin Chunk
    BY DEF Idle, Chunk
  <1> QED
    BY <1>1, <1>2

(* What is pushed for them are tokens.                                         *)
LEMMA TokensPushed ==
    /\ Pushable(<<"open">>) /\ Pushable(<<",">>) /\ Pushable(<<"empty">>)
    /\ \A r \in Nat : Pushable(<<"row", r>>)
    /\ \A n \in Nat \cup {-1} : Pushable(<<"close", n>>)
  <1>1. <<"open">> \in Tokens /\ <<",">> \in Tokens /\ <<"empty">> \in Tokens
    BY DEF Tokens
  <1>2. \A r \in Nat : <<"row", r>> \in Tokens
    BY DEF Tokens
  <1>3. \A n \in Nat \cup {-1} : <<"close", n>> \in Tokens
    BY DEF Tokens
  <1>4. \A x \in Tokens : Pushable(x)
    BY DEF Pushable
  <1> QED
    BY <1>1, <1>2, <1>3, <1>4, Zenon

(* The first chunk of the inbox is the next of the script.                     *)
LEMMA NextChunk ==
    ASSUME WritableOK, InboxInv, inbox # <<>>
    PROVE  /\ Taken \in Nat /\ Taken + 1 \in 1..Len(script) /\ Len(inbox) \in Nat \ {0}
           /\ Head(inbox) = script[Taken + 1] /\ Head(inbox) \in Chunk
           /\ Tail(inbox) \in Seq(Chunk) /\ Len(Tail(inbox)) = Len(inbox) - 1
           /\ \A i \in 1..Len(inbox) - 1 : Tail(inbox)[i] = inbox[i + 1]
  <1>1. /\ inbox \in Seq(Chunk) /\ Len(inbox) \in Nat /\ Len(inbox) # 0
        /\ written \in 0..Len(script) /\ Len(script) \in Nat /\ Len(inbox) <= written
    BY LenProperties, EmptySeq DEF WritableOK, InboxInv
  <1>2. /\ Head(inbox) \in Chunk /\ Tail(inbox) \in Seq(Chunk)
        /\ Len(Tail(inbox)) = Len(inbox) - 1
        /\ \A i \in 1..Len(Tail(inbox)) : Tail(inbox)[i] = inbox[i + 1]
    BY <1>1, HeadTailProperties, EmptySeq
  <1>3. Head(inbox) = inbox[1] /\ inbox[1] = script[Taken + 1]
    BY <1>1 DEF InboxInv
  <1> QED
    BY <1>1, <1>2, <1>3 DEF Taken

(* What a transformation pushes.                                               *)
LEMMA Pushes ==
    ASSUME StreamInv
    PROVE  /\ inbox # <<>> => <<<<"row", Head(inbox).row>>>> \in Seq(Tokens)
           /\ Prefix \in Seq(Tokens)
           /\ <<<<"row", busy.row>>>> \in Seq(Tokens)
           /\ (IF streamEnabled THEN Closing ELSE <<>>) \in Seq(Tokens)
  <1>0. <<>> \in Seq(Tokens)
    OBVIOUS
  <1>1. inbox # <<>> => Pushable(<<"row", Head(inbox).row>>)
    <2>1. inbox # <<>> => Head(inbox) \in Chunk
      BY NextChunk DEF StreamInv
    <2> QED
      BY <2>1, Chunks, TokensPushed, Zenon
  <1>2. busy.row \in Nat /\ streamInlineCount \in Nat \cup {-1}
    BY Chunks DEF StreamInv, WritableOK
  <1>3. Pushable(<<"row", busy.row>>) /\ Pushable(<<"close", streamInlineCount>>)
    BY <1>2, TokensPushed, Zenon
  <1>4. Prefix \in Seq(Tokens)
    <2>1. <<<<"open">>>> \in Seq(Tokens) /\ <<<<",">>>> \in Seq(Tokens)
      BY TokensPushed, Zenon DEF Pushable
    <2> QED
      BY <1>0, <2>1, Zenon DEF Prefix
  <1>5. Closing \in Seq(Tokens)
    <2>1. <<<<"close", streamInlineCount>>>> \in Seq(Tokens) /\ <<<<"empty">>>> \in Seq(Tokens)
      BY <1>3, TokensPushed, Zenon DEF Pushable
    <2> QED
      BY <1>0, <2>1, Zenon DEF Closing
  <1> QED
    BY <1>0, <1>1, <1>3, <1>4, <1>5, Zenon DEF Pushable

(* The readable side keeps its form.                                           *)
LEMMA PipeStep ==
    ASSUME StreamInv, StreamNext
    PROVE  PipeOK'
  <1> USE DEF StreamInv
  <1>1. CASE ClientReads
    BY <1>1, ReadingKeeps
  <1>2. ASSUME NEW tokens \in Seq(Tokens), Push(tokens)
        PROVE  PipeOK'
    BY <1>2, PushAppends
  <1>3. CASE TransformBuffer
    BY <1>2, <1>3, Pushes DEF TransformBuffer, CanTake
  <1>4. CASE TransformObject
    BY <1>2, <1>4, Pushes DEF TransformObject
  <1>5. CASE Converted
    BY <1>2, <1>5, Pushes DEF Converted
  <1>6. CASE Flush
    BY <1>2, <1>6, Pushes DEF Flush
  <1>7. ASSUME UNCHANGED pipeline
        PROVE  PipeOK'
    BY <1>7 DEF PipeOK, pipeline
  <1> QED
    BY <1>1, <1>3, <1>4, <1>5, <1>6, <1>7
    DEF StreamNext, SourceWrites, EndSource, Converting, ConversionFails, LateFailure, EmitEnd, Return,
        Respond, RespondError

(* WritableOK is kept by every step.                                           *)
LEMMA WritableStep ==
    ASSUME StreamInv, exec # "none", StreamNext
    PROVE  WritableOK'
  <1> USE DEF StreamInv, WritableOK, source, flags, verdict, pipeline
  <1>0. /\ Len(script) \in Nat /\ \A i \in 1..Len(script) : script[i] \in Chunk
    BY LenProperties, ElementOfSeq
  <1>a. sourceEnded => written = Len(script)
    BY DEF InboxInv
  <1>1. CASE SourceWrites
    <2>1. written + 1 \in 1..Len(script)
      BY <1>0, <1>1 DEF SourceWrites
    <2>2. Append(inbox, script[written + 1]) \in Seq(Chunk)
      BY <1>0, <2>1, AppendProperties
    <2>3. ~streamEnd
      BY <1>a, <1>1 DEF SourceWrites
    <2>4. inbox' \in Seq(Chunk) /\ resultCount' \in Nat
      <3>1. CASE streamEnabled
        BY <1>1, <2>2, <3>1 DEF SourceWrites
      <3>2. CASE ~streamEnabled
        BY <1>1, <3>2 DEF SourceWrites
      <3> QED
        BY <3>1, <3>2
    <2>5. written' \in 0..Len(script')
      BY <1>0, <1>1, <2>1 DEF SourceWrites
    <2> QED
      BY <1>1, <2>3, <2>4, <2>5 DEF SourceWrites
  <1>2. CASE EndSource
    BY <1>2, <1>a DEF EndSource
  <1>3. CASE TransformBuffer
    <2>1. /\ inbox # <<>> /\ Tail(inbox) \in Seq(Chunk) /\ Head(inbox) \in Chunk
          /\ Head(inbox).count \in Nat \cup {-1}
      BY <1>3, NextChunk, Chunks DEF TransformBuffer, CanTake
    <2>2. ~streamEnd
      BY <2>1
    <2> QED
      BY <1>3, <2>1, <2>2 DEF TransformBuffer
  <1>4. CASE TransformObject
    <2>1. /\ inbox # <<>> /\ Tail(inbox) \in Seq(Chunk) /\ Head(inbox) \in Chunk
          /\ Head(inbox).count \in Nat \cup {-1}
      BY <1>4, NextChunk, Chunks DEF TransformObject, CanTake
    <2>2. ~streamEnd
      BY <2>1
    <2> QED
      BY <1>4, <2>1, <2>2 DEF TransformObject
  <1>5. CASE Converted
    BY <1>5 DEF Converted
  <1>6. CASE ConversionFails \/ LateFailure
    BY <1>6 DEF ConversionFails, LateFailure
  <1>7. CASE Flush
    BY <1>7, <1>a DEF Flush, CanFlush
  <1>8. CASE EmitEnd
    BY <1>8 DEF EmitEnd, CanEnd
  <1>9. CASE ClientReads
    BY <1>9 DEF ClientReads
  <1>10. CASE Return
    BY <1>10 DEF Return
  <1>11. CASE Respond
    BY <1>11 DEF Respond
  <1>12. CASE RespondError
    BY <1>12 DEF RespondError
  <1> QED
    BY <1>1, <1>2, <1>3, <1>4, <1>5, <1>6, <1>7, <1>8, <1>9, <1>10, <1>11, <1>12 DEF StreamNext

(* InboxInv is kept: chunks are taken in the order they were written.          *)
LEMMA InboxStep ==
    ASSUME StreamInv, exec # "none", StreamNext
    PROVE  InboxInv'
  <1> USE DEF StreamInv, InboxInv, Taken, source, flags, verdict, pipeline
  <1>0. /\ Len(script) \in Nat /\ \A i \in 1..Len(script) : script[i] \in Chunk
        /\ Len(inbox) \in Nat /\ inbox \in Seq(Chunk) /\ written \in 0..Len(script)
    BY LenProperties, ElementOfSeq DEF WritableOK
  <1>1. CASE SourceWrites
    <2>1. /\ written + 1 \in 1..Len(script) /\ written' = written + 1
          /\ script' = script /\ sourceEnded' = sourceEnded /\ ~sourceEnded
      BY <1>0, <1>1 DEF SourceWrites
    <2>2. CASE streamEnabled
      <3> DEFINE c == script[written + 1]
      <3>1. inbox' = Append(inbox, c) /\ c \in Chunk
        BY <1>0, <1>1, <2>1, <2>2 DEF SourceWrites
      <3> HIDE DEF c
      <3>2. /\ Len(inbox') = Len(inbox) + 1
            /\ \A i \in 1..Len(inbox) : inbox'[i] = inbox[i]
            /\ inbox'[Len(inbox) + 1] = c
        BY <1>0, <3>1, AppendProperties
      <3>3. c = script[written - Len(inbox) + (Len(inbox) + 1)]
        BY <1>0 DEF c
      <3>4. ASSUME NEW i \in 1..Len(inbox')
            PROVE  inbox'[i] = script[written - Len(inbox) + i]
        <4>1. CASE i = Len(inbox) + 1
          BY <3>2, <3>3, <4>1
        <4>2. CASE i # Len(inbox) + 1
          <5>1. i \in 1..Len(inbox)
            BY <1>0, <3>2, <4>2
          <5> QED
            BY <3>2, <5>1
        <4> QED
          BY <4>1, <4>2
      <3>5. written' - Len(inbox') = written - Len(inbox) /\ Len(inbox') <= written'
        BY <1>0, <2>1, <3>2
      <3> QED
        BY <2>1, <3>4, <3>5
    <2>3. CASE ~streamEnabled
      <3>1. inbox = <<>> /\ inbox' = <<>>
        BY <1>1, <2>3 DEF SourceWrites, EndInv
      <3> QED
        BY <1>0, <2>1, <3>1, EmptySeq
    <2> QED
      BY <2>2, <2>3
  <1>2. CASE EndSource
    BY <1>2 DEF EndSource
  <1>3. CASE TransformBuffer \/ TransformObject
    <2>1. /\ inbox # <<>> /\ inbox' = Tail(inbox)
          /\ written' = written /\ script' = script /\ sourceEnded' = sourceEnded
      BY <1>3 DEF TransformBuffer, TransformObject, CanTake
    <2>2. /\ Len(inbox') = Len(inbox) - 1
          /\ \A i \in 1..Len(inbox) - 1 : inbox'[i] = inbox[i + 1]
      BY <2>1, NextChunk
    <2>3. \A i \in 1..Len(inbox') : inbox'[i] = script[written' - Len(inbox') + i]
      <3> SUFFICES ASSUME NEW i \in 1..Len(inbox')
                   PROVE  inbox'[i] = script[written' - Len(inbox') + i]
        OBVIOUS
      <3>1. i + 1 \in 1..Len(inbox) /\ inbox'[i] = inbox[i + 1]
        BY <1>0, <2>2
      <3>2. inbox[i + 1] = script[written - Len(inbox) + (i + 1)]
        BY <3>1
      <3>3. written' - Len(inbox') + i = written - Len(inbox) + (i + 1)
        BY <1>0, <2>1, <2>2
      <3> QED
        BY <3>1, <3>2, <3>3
    <2> QED
      BY <1>0, <2>1, <2>2, <2>3
  <1>4. ASSUME UNCHANGED <<script, written, inbox, sourceEnded>>
        PROVE  InboxInv'
    BY <1>4
  <1> QED
    BY <1>1, <1>2, <1>3, <1>4
    DEF StreamNext, Converted, Converting, ConversionFails, LateFailure, Flush, EmitEnd, ClientReads, Return,
        Respond, RespondError

(* EndInv is kept: after its end nothing is pushed, and a stream that is only  *)
(* counted is never transformed.                                               *)
LEMMA EndStep ==
    ASSUME StreamInv, exec # "none", StreamNext
    PROVE  EndInv'
  <1> USE DEF StreamInv, EndInv, source, flags, verdict, pipeline
  <1>0. /\ streamEnd => inbox = <<>> /\ busy = Idle
        /\ written \in Nat /\ resultCount \in Nat /\ streamEnabled \in BOOLEAN
    BY LenProperties DEF WritableOK
  <1>1. way' = way /\ script' = script /\ streamEnabled' = streamEnabled
    BY DEF StreamNext, SourceWrites, EndSource, TransformBuffer, TransformObject, Converted, Converting, ConversionFails, LateFailure, Flush, EmitEnd, ClientReads, Return, Respond, RespondError
  <1>2. ended' => streamEnd' /\ outbox' = <<>>
    <2>1. CASE EmitEnd
      BY <2>1 DEF EmitEnd, CanEnd
    <2>2. CASE ClientReads
      BY <2>2, ReadingKeeps DEF ClientReads
    <2>3. CASE TransformBuffer \/ TransformObject \/ Converted \/ Flush
      BY <1>0, <2>3 DEF TransformBuffer, TransformObject, Converted, Converting, Flush,
                        CanTake, CanFlush
    <2>4. ASSUME UNCHANGED <<ended, streamEnd, outbox>>
          PROVE  ended' => streamEnd' /\ outbox' = <<>>
      BY <2>4
    <2> QED
      BY <2>1, <2>2, <2>3, <2>4
      DEF StreamNext, SourceWrites, EndSource, Converting, ConversionFails, LateFailure, Return, Respond, RespondError
  <1>3. ~streamEnabled => /\ inbox' = <<>> /\ busy' = Idle /\ ~streamStart'
                          /\ resultCount' = written'
    BY DEF StreamNext, CanTake, SourceWrites, EndSource, TransformBuffer, TransformObject, Converted, Converting, ConversionFails, LateFailure, Flush, EmitEnd, ClientReads, Return, Respond, RespondError
  <1> QED
    BY <1>1, <1>2, <1>3

(* WaitInv is kept: what a stage waited for has happened.                      *)
LEMMA WaitStep ==
    ASSUME StreamInv, exec # "none", StreamNext
    PROVE  WaitInv' /\ exec' # "none"
  <1> USE DEF StreamInv, WaitInv, source, flags, verdict, pipeline
  <1>1. way' = way /\ (ended => ended') /\ (streamEnd => streamEnd') /\ (sourceEnded => sourceEnded')
    BY DEF StreamNext, SourceWrites, EndSource, TransformBuffer, TransformObject, Converted, Converting, ConversionFails, LateFailure, Flush, EmitEnd, ClientReads, Return, Respond, RespondError
  <1>2. way \in {"sink", "source", "writer", "media"}
    BY DEF WritableOK, Ways
  <1>3. CASE EndSource
    BY <1>1, <1>2, <1>3 DEF EndSource
  <1>4. CASE EmitEnd
    BY <1>1, <1>2, <1>4 DEF EmitEnd, CanEnd
  <1>5. CASE Return
    BY <1>1, <1>2, <1>5 DEF Return
  <1>6. CASE ConversionFails \/ LateFailure
    BY <1>1, <1>2, <1>6 DEF ConversionFails, LateFailure
  <1>7. ASSUME UNCHANGED exec
        PROVE  WaitInv' /\ exec' # "none"
    BY <1>1, <1>2, <1>7
  <1> QED
    BY <1>3, <1>4, <1>5, <1>6, <1>7
    DEF StreamNext, SourceWrites, TransformBuffer, TransformObject, Converted, Flush,
        ClientReads, Respond, RespondError

-----------------------------------------------------------------------------
(* The answer a client should get depends on the method alone.                 *)
LEMMA SameAnswer ==
    ASSUME UNCHANGED <<way, script>>
    PROVE  /\ Heads' = Heads /\ (Regular <=> Regular') /\ Document' = Document
           /\ LastCount' = LastCount
  <1>1. way' = way /\ script' = script
    OBVIOUS
  <1>2. Heads' = Heads
    BY <1>1, Zenon DEF Heads, CountsFirst
  <1>3. Regular <=> Regular'
    BY <1>1, Zenon DEF Regular, CountsFirst
  <1>4. LastCount' = LastCount
    <2>1. Counted' = Counted
      BY <1>1, Zenon DEF Counted
    <2> QED
      BY <1>1, <2>1, Zenon DEF LastCount
  <1>5. Rows' = Rows
    BY <1>1, <1>2, Zenon DEF Rows
  <1>6. Document' = Document
    BY <1>1, <1>4, <1>5, Zenon DEF Document
  <1> QED
    BY <1>2, <1>3, <1>4, <1>6

(* Where the counts of a regular script are.                                   *)
LEMMA HeadsOf ==
    ASSUME WritableOK, Regular
    PROVE  /\ Heads \in 0..Len(script) /\ Len(script) \in Nat
           /\ \A i \in 1..Len(script) :
                 /\ script[i] \in Chunk
                 /\ CountOnly(script[i]) <=> i <= Heads
                 /\ i > Heads => script[i].row > 0
  <1>1. Len(script) \in Nat /\ \A i \in 1..Len(script) : script[i] \in Chunk
    BY LenProperties, ElementOfSeq DEF WritableOK
  <1>2. Heads \in 0..Len(script) /\ CountsFirst(Heads)
    BY Zenon DEF Heads, Regular
  <1>3. \A i \in 1..Len(script) : script[i].row = 0 <=> i <= Heads
    <2>1. DOMAIN script = 1..Len(script)
      BY LenProperties DEF WritableOK
    <2> HIDE DEF Heads
    <2> QED
      BY <1>2, <2>1, Zenon DEF CountsFirst
  <1>4. \A i \in 1..Len(script) : script[i].row = 0 => script[i].count > 0
    BY LenProperties DEF Regular, WritableOK
  <1> QED
    BY <1>1, <1>2, <1>3, <1>4, Chunks DEF CountOnly, HasCount

(* The rows of a regular script.                                               *)
RowCount == Len(script) - Heads
RowToken(r) == <<"row", script[Heads + r].row>>
Comma == <<",">>

(* In a regular script the rows follow the counts, and each has a number.      *)
LEMMA RowsFollow ==
    ASSUME WritableOK, Regular
    PROVE  /\ RowCount \in Nat /\ Len(Rows) = RowCount /\ (Rows = <<>> <=> RowCount = 0)
           /\ \A r \in 1..RowCount : Rows[r] = script[Heads + r] /\ Rows[r].row \in Nat
  <1> DEFINE l == Len(script)
             h == Heads
  <1>1. /\ h \in 0..l /\ l \in Nat /\ script \in Seq(Chunk)
        /\ \A i \in 1..l : script[i] \in Chunk
    BY HeadsOf DEF WritableOK
  <1> HIDE DEF l, h
  <1>2. /\ SubSeq(script, h + 1, l) \in Seq(Chunk)
        /\ Len(SubSeq(script, h + 1, l)) = IF h + 1 <= l THEN l - (h + 1) + 1 ELSE 0
        /\ \A i \in 1..(l - (h + 1) + 1) :
              SubSeq(script, h + 1, l)[i] = script[(h + 1) + i - 1]
    BY <1>1, SubSeqProperties DEF l
  <1>3. Len(SubSeq(script, h + 1, l)) = l - h
    BY <1>1, <1>2
  <1>4. SubSeq(script, h + 1, l) = <<>> <=> l - h = 0
    BY <1>2, <1>3, EmptySeq
  <1>5. ASSUME NEW r \in 1..(l - h)
        PROVE  /\ SubSeq(script, h + 1, l)[r] = script[h + r]
               /\ script[h + r].row \in Nat
    <2>1. h + r \in 1..l /\ (h + 1) + r - 1 = h + r /\ r \in 1..(l - (h + 1) + 1)
      BY <1>1
    <2>2. script[h + r] \in Chunk
      BY <1>1, <2>1
    <2> QED
      BY <1>2, <2>1, <2>2, Chunks
  <1>6. Rows = SubSeq(script, h + 1, l) /\ RowCount = l - h
    BY Zenon DEF Rows, RowCount, h, l
  <1>7. l - h \in Nat
    BY <1>1
  <1>8. ASSUME NEW r \in 1..RowCount
        PROVE  Rows[r] = script[Heads + r] /\ Rows[r].row \in Nat
    <2>1. r \in 1..(l - h)
      BY <1>6
    <2>2. Rows[r] = script[h + r] /\ script[h + r].row \in Nat
      BY <1>5, <1>6, <2>1
    <2> QED
      BY <2>2 DEF h
  <1>9. RowCount \in Nat /\ Len(Rows) = RowCount /\ (Rows = <<>> <=> RowCount = 0)
    BY <1>3, <1>4, <1>6, <1>7
  <1> QED
    BY <1>8, <1>9

(* The last count is the only one that no other follows.                       *)
LEMMA LastCountIs ==
    ASSUME WritableOK, NEW count, LastOf(Len(script), count)
    PROVE  count = LastCount
  <1> DEFINE l == Len(script)
  <1>1. /\ l \in Nat /\ DOMAIN script = 1..l
        /\ \A i \in 1..l : script[i].count \in Nat \cup {-1}
    BY LenProperties, ElementOfSeq, Chunks DEF WritableOK
  <1> HIDE DEF l
  <1>2. Counted = {i \in 1..l : script[i].count > 0}
    BY <1>1 DEF Counted
  <1>3. CASE count = -1 /\ \A i \in 1..l : script[i].count <= 0
    <2>1. Counted = {}
      BY <1>1, <1>2, <1>3
    <2> QED
      BY <1>3, <2>1 DEF LastCount
  <1>4. CASE \E i \in 1..l : /\ script[i].count > 0 /\ count = script[i].count
                             /\ \A j \in (i + 1)..l : script[j].count <= 0
    <2>1. PICK i \in 1..l : /\ script[i].count > 0 /\ count = script[i].count
                            /\ \A j \in (i + 1)..l : script[j].count <= 0
      BY <1>4
    <2>2. i \in Counted
      BY <1>2, <2>1
    <2>3. \A j \in Counted : j <= i
      <3> SUFFICES ASSUME NEW j \in Counted, j > i
                   PROVE  FALSE
        BY <1>2
      <3>1. j \in (i + 1)..l /\ script[j].count > 0 /\ script[j].count \in Nat \cup {-1}
        BY <1>1, <1>2
      <3> QED
        BY <2>1, <3>1
    <2>4. \A x \in Counted : (\A y \in Counted : x >= y) => x = i
      BY <1>1, <1>2, <2>2, <2>3
    <2>5. \A y \in Counted : i >= y
      BY <1>1, <1>2, <2>3
    <2>6. Max(Counted) = i
      BY <2>2, <2>4, <2>5 DEF Max
    <2> QED
      BY <2>1, <2>2, <2>6 DEF LastCount
  <1> QED
    BY <1>3, <1>4 DEF LastOf, l

(* A set of numbers up to l has a greatest.                                    *)
LEMMA GreatestNatural ==
    ASSUME NEW l \in Nat, NEW S \in SUBSET (1..l), S # {}
    PROVE  \E m \in S : \A k \in S : k <= m
  <1> DEFINE R == OpToRel(<, Nat)
             T == {l - k : k \in S}
  <1>1. T \subseteq Nat /\ T # {}
    <2>1. \A k \in S : l - k \in Nat
      OBVIOUS
    <2>2. PICK k \in S : TRUE
      OBVIOUS
    <2>3. l - k \in T
      OBVIOUS
    <2> QED
      BY <2>1, <2>3
  <1>2. \A k, m \in Nat : k < m => <<k, m>> \in R
    BY DEF OpToRel
  <1>3. IsWellFoundedOn(R, Nat)
    BY NatLessThanWellFounded, Zenon DEF OpToRel
  <1> HIDE DEF R
  <1>4. \E t \in T : \A u \in T : ~(<<u, t>> \in R)
    <2> HIDE DEF T
    <2> QED
      BY <1>1, <1>3, WFMin
  <1>5. PICK m \in S : \A k \in S : ~(<<l - k, l - m>> \in R)
    BY <1>4
  <1>6. \A k \in S : ~(l - k < l - m)
    BY <1>1, <1>2, <1>5
  <1> QED
    BY <1>6

(* The last count is a count.                                                  *)
LEMMA LastCountType ==
    ASSUME WritableOK
    PROVE  LastCount \in Nat \cup {-1}
  <1>1. /\ Len(script) \in Nat /\ DOMAIN script = 1..Len(script)
        /\ \A i \in 1..Len(script) : script[i].count \in Nat \cup {-1}
    BY LenProperties, ElementOfSeq, Chunks DEF WritableOK
  <1>2. Counted \in SUBSET (1..Len(script))
    BY <1>1 DEF Counted
  <1>3. CASE Counted = {}
    BY <1>3 DEF LastCount
  <1>4. CASE Counted # {}
    <2>1. PICK m \in Counted : \A k \in Counted : k <= m
      BY <1>1, <1>2, <1>4, GreatestNatural, Zenon
    <2>2. \A x \in Counted : (\A y \in Counted : x >= y) => x = m
      BY <1>2, <2>1
    <2>3. \A y \in Counted : m >= y
      BY <1>2, <2>1
    <2>4. Max(Counted) = m
      BY <2>1, <2>2, <2>3 DEF Max
    <2> QED
      BY <1>1, <1>2, <1>4, <2>4 DEF LastCount
  <1> QED
    BY <1>3, <1>4

(* A function on 1..n is a sequence of length n.                               *)
LEMMA IsSequence ==
    ASSUME NEW n \in Nat, NEW f \in [1..n -> Tokens]
    PROVE  f \in Seq(Tokens) /\ Len(f) = n
  <1>1. f \in Seq(Tokens)
    BY SeqDef
  <1>2. DOMAIN f = 1..n /\ DOMAIN f = 1..Len(f) /\ Len(f) \in Nat
    BY <1>1, LenProperties
  <1> QED
    BY <1>1, <1>2

(* The right answer, token by token.                                           *)
LEMMA DocumentIs ==
    ASSUME WritableOK, Regular
    PROVE  /\ Document \in Seq(Tokens)
           /\ way = "media" =>
                 /\ Len(Document) = Len(script)
                 /\ \A i \in 1..Len(script) : Document[i] = <<"row", script[i].row>>
           /\ way # "media" /\ script = <<>> =>
                 Len(Document) = 1 /\ Document[1] = <<"empty">>
           /\ way # "media" /\ script # <<>> =>
                 /\ Len(Document) = IF RowCount = 0 THEN 2 ELSE 2 * RowCount + 1
                 /\ Document[1] = <<"open">>
                 /\ Document[Len(Document)] = <<"close", LastCount>>
                 /\ \A r \in 1..RowCount : Document[2 * r] = RowToken(r)
                 /\ \A r \in 1..RowCount : r < RowCount => Document[2 * r + 1] = Comma
  <1>1. /\ script \in Seq(Chunk) /\ Len(script) \in Nat /\ DOMAIN script = 1..Len(script)
        /\ \A i \in 1..Len(script) : <<"row", script[i].row>> \in Tokens
    <2>1. \A i \in 1..Len(script) : script[i] \in Chunk
      BY HeadsOf
    <2>2. \A i \in 1..Len(script) : script[i].row \in Nat
      BY <2>1, Chunks
    <2>3. \A r \in Nat : <<"row", r>> \in Tokens
      BY DEF Tokens
    <2> QED
      BY <2>2, <2>3, LenProperties, Zenon DEF WritableOK
  <1>2. CASE way = "media"
    <2> DEFINE bare == [i \in DOMAIN script |-> <<"row", script[i].row>>]
               l == Len(script)
    <2>1. Document = bare
      BY <1>2, Zenon DEF Document
    <2>2. bare \in [1..l -> Tokens] /\ l \in Nat
      BY <1>1, Zenon
    <2>3. \A i \in 1..l : bare[i] = <<"row", script[i].row>>
      BY <1>1, Zenon
    <2> HIDE DEF bare, l
    <2>4. bare \in Seq(Tokens) /\ Len(bare) = l
      BY <2>2, IsSequence
    <2> QED
      BY <1>2, <2>1, <2>3, <2>4, Zenon DEF l
  <1>3. CASE way # "media" /\ script = <<>>
    <2>1. Document = <<<<"empty">>>>
      BY <1>3, Zenon DEF Document
    <2>2. <<<<"empty">>>> \in Seq(Tokens)
      BY TokensPushed, Zenon DEF Pushable
    <2>3. Len(<<<<"empty">>>>) = 1 /\ <<<<"empty">>>>[1] = <<"empty">>
      OBVIOUS
    <2> QED
      BY <1>3, <2>1, <2>2, <2>3, Zenon
  <1>4. CASE way # "media" /\ script # <<>>
    <2> DEFINE open == <<<<"open">>>>
               close == <<<<"close", LastCount>>>>
               n == IF Rows = <<>> THEN 0 ELSE 2 * Len(Rows) - 1
               row(k) == <<"row", Rows[(k + 1) \div 2].row>>
               middle == [k \in 1..n |-> IF k % 2 = 1 THEN row(k) ELSE <<",">>]
    <2>1. Document = (open \o middle) \o close
      BY <1>4, Zenon DEF Document
    <2>2. /\ RowCount \in Nat /\ n = IF RowCount = 0 THEN 0 ELSE 2 * RowCount - 1
          /\ n \in Nat
      <3>1. RowCount \in Nat /\ Len(Rows) = RowCount /\ (Rows = <<>> <=> RowCount = 0)
        BY RowsFollow
      <3> HIDE DEF row, middle, open, close
      <3> QED
        BY <3>1
    <2>3. \A r \in 1..RowCount : <<"row", Rows[r].row>> = RowToken(r) /\ RowToken(r) \in Tokens
      <3>1. \A r \in 1..RowCount : Rows[r] = script[Heads + r] /\ Rows[r].row \in Nat
        BY RowsFollow
      <3>2. \A r \in Nat : <<"row", r>> \in Tokens
        BY DEF Tokens
      <3> QED
        BY <3>1, <3>2, Zenon DEF RowToken
    <2>4. Comma \in Tokens
      BY DEF Comma, Tokens
    <2>5. \A k \in 1..n : middle[k] = IF k % 2 = 1 THEN row(k) ELSE Comma
      BY Zenon DEF Comma
    <2>6. middle = [k \in 1..n |-> middle[k]]
      BY Zenon
    <2>7. open \in Seq(Tokens) /\ Len(open) = 1 /\ open[1] = <<"open">>
      <3>1. open \in Seq(Tokens)
        BY TokensPushed, Zenon DEF Pushable
      <3> QED
        BY <3>1
    <2>8. close \in Seq(Tokens) /\ Len(close) = 1 /\ close[1] = <<"close", LastCount>>
      <3>1. close \in Seq(Tokens)
        BY LastCountType, TokensPushed, Zenon DEF Pushable
      <3> QED
        BY <3>1
    <2> HIDE DEF open, close, n, row, middle
    <2>9. \A r \in 1..RowCount : 2 * r - 1 \in 1..n /\ middle[2 * r - 1] = RowToken(r)
      <3> SUFFICES ASSUME NEW r \in 1..RowCount
                   PROVE  2 * r - 1 \in 1..n /\ middle[2 * r - 1] = RowToken(r)
        OBVIOUS
      <3> DEFINE k == 2 * r - 1
      <3>1. k \in 1..n /\ k % 2 = 1 /\ (k + 1) \div 2 = r
        BY <2>2
      <3>2. middle[k] = row(k)
        BY <2>5, <3>1
      <3>3. row(k) = <<"row", Rows[r].row>>
        BY <3>1, Zenon DEF row
      <3> HIDE DEF k
      <3>4. middle[k] = RowToken(r)
        BY <2>3, <3>2, <3>3, Zenon
      <3> QED
        BY <3>1, <3>4 DEF k
    <2>10. \A r \in 1..RowCount : r < RowCount =>
                2 * r \in 1..n /\ middle[2 * r] = Comma
      <3> SUFFICES ASSUME NEW r \in 1..RowCount, r < RowCount
                   PROVE  2 * r \in 1..n /\ middle[2 * r] = Comma
        OBVIOUS
      <3> DEFINE k == 2 * r
      <3>1. k \in 1..n /\ k % 2 # 1
        BY <2>2
      <3> HIDE DEF k
      <3>2. middle[k] = Comma
        BY <2>5, <3>1
      <3> QED
        BY <3>1, <3>2 DEF k
    <2>11. middle \in Seq(Tokens) /\ Len(middle) = n
      <3>1. ASSUME NEW k \in 1..n
            PROVE  middle[k] \in Tokens
        <4>1. CASE k % 2 = 1
          <5>1. (k + 1) \div 2 \in 1..RowCount
            BY <2>2, <4>1
          <5>2. middle[k] = row(k)
            BY <2>5, <4>1
          <5>3. row(k) \in Tokens
            BY <2>3, <5>1, Zenon DEF row
          <5> QED
            BY <5>2, <5>3
        <4>2. CASE k % 2 # 1
          <5>1. middle[k] = Comma
            BY <2>5, <4>2
          <5> QED
            BY <2>4, <5>1
        <4> QED
          BY <4>1, <4>2
      <3>2. middle \in [1..n -> Tokens]
        BY <2>6, <3>1, Zenon
      <3> QED
        BY <2>2, <3>2, IsSequence
    <2>12. /\ open \o middle \in Seq(Tokens) /\ Len(open \o middle) = 1 + n
           /\ \A i \in 1..1 + n :
                 (open \o middle)[i] = IF i <= 1 THEN open[i] ELSE middle[i - 1]
      <3>1. /\ open \o middle \in Seq(Tokens)
            /\ Len(open \o middle) = Len(open) + Len(middle)
            /\ \A i \in 1..Len(open) + Len(middle) : (open \o middle)[i] =
                  IF i <= Len(open) THEN open[i] ELSE middle[i - Len(open)]
        BY <2>7, <2>11, Join
      <3> QED
        BY <2>7, <2>11, <3>1
    <2> DEFINE front == open \o middle
    <2>13. /\ front \in Seq(Tokens) /\ Len(front) = 1 + n /\ front[1] = <<"open">>
           /\ \A i \in 1..n : front[i + 1] = middle[i]
      <3>1. front[1] = <<"open">>
        BY <2>2, <2>7, <2>12
      <3>2. ASSUME NEW i \in 1..n
            PROVE  front[i + 1] = middle[i]
        <4>1. i + 1 \in 1..1 + n /\ ~(i + 1 <= 1) /\ (i + 1) - 1 = i
          BY <2>2
        <4> QED
          BY <2>12, <4>1
      <3> QED
        BY <2>12, <3>1, <3>2
    <2> HIDE DEF front
    <2>14. /\ Document \in Seq(Tokens) /\ Len(Document) = n + 2
           /\ \A i \in 1..n + 1 : Document[i] = front[i]
           /\ Document[n + 2] = <<"close", LastCount>>
      <3>1. /\ front \o close \in Seq(Tokens)
            /\ Len(front \o close) = Len(front) + Len(close)
            /\ \A i \in 1..Len(front) + Len(close) : (front \o close)[i] =
                  IF i <= Len(front) THEN front[i] ELSE close[i - Len(front)]
        BY <2>8, <2>13, Join
      <3>2. Document = front \o close
        BY <2>1 DEF front
      <3>3. Len(front) + Len(close) = n + 2 /\ Len(front) = n + 1
        BY <2>2, <2>8, <2>13
      <3>4. \A i \in 1..n + 1 : Document[i] = front[i]
        BY <2>2, <3>1, <3>2, <3>3
      <3>5. Document[n + 2] = close[1]
        <4>1. n + 2 \in 1..n + 2 /\ ~(n + 2 <= n + 1) /\ (n + 2) - (n + 1) = 1
          BY <2>2
        <4> QED
          BY <3>1, <3>2, <3>3, <4>1
      <3> QED
        BY <2>8, <3>1, <3>2, <3>3, <3>4, <3>5
    <2>15. ASSUME NEW r \in 1..RowCount
           PROVE  Document[2 * r] = RowToken(r)
      <3>1. 2 * r - 1 \in 1..n /\ middle[2 * r - 1] = RowToken(r)
        BY <2>9
      <3>2. (2 * r - 1) + 1 = 2 * r /\ 2 * r \in 1..n + 1
        BY <2>2, <3>1
      <3> QED
        BY <2>13, <2>14, <3>1, <3>2
    <2>16. ASSUME NEW r \in 1..RowCount, r < RowCount
           PROVE  Document[2 * r + 1] = Comma
      <3>1. 2 * r \in 1..n /\ middle[2 * r] = Comma
        BY <2>10, <2>16
      <3>2. 2 * r + 1 \in 1..n + 1
        BY <2>2, <3>1
      <3> QED
        BY <2>13, <2>14, <3>1, <3>2
    <2>17. Document[1] = <<"open">>
      BY <2>2, <2>13, <2>14
    <2>18. Len(Document) = IF RowCount = 0 THEN 2 ELSE 2 * RowCount + 1
      BY <2>2, <2>14
    <2> QED
      BY <1>4, <2>14, <2>15, <2>16, <2>17, <2>18
  <1> QED
    BY <1>2, <1>3, <1>4, Zenon

-----------------------------------------------------------------------------
(* A step leaves the method as it is, and only a transformation takes a chunk. *)
LEMMA MethodFixed ==
    ASSUME StreamInv, exec # "none", StreamNext
    PROVE  /\ UNCHANGED <<way, script, streamEnabled>>
           /\ Heads' = Heads /\ (Regular <=> Regular') /\ Document' = Document
           /\ LastCount' = LastCount /\ RowCount' = RowCount
           /\ Taken \in 0..Len(script) /\ Len(script) \in Nat
           /\ streamEnabled => Taken' = IF TransformBuffer \/ TransformObject
                                        THEN Taken + 1 ELSE Taken
  <1>1. UNCHANGED <<way, script, streamEnabled>>
    BY DEF StreamNext, SourceWrites, EndSource, TransformBuffer, TransformObject,
           Converted, Converting, ConversionFails, LateFailure, Flush, EmitEnd, ClientReads, Return, Respond,
           RespondError, source
  <1>2. /\ Heads' = Heads /\ (Regular <=> Regular') /\ Document' = Document
        /\ LastCount' = LastCount
    BY <1>1, SameAnswer
  <1>3. RowCount' = RowCount
    BY <1>1, <1>2 DEF RowCount
  <1>4. /\ Len(script) \in Nat /\ Len(inbox) \in Nat /\ written \in 0..Len(script)
        /\ Len(inbox) <= written /\ inbox \in Seq(Chunk)
        /\ \A i \in 1..Len(script) : script[i] \in Chunk
    BY LenProperties, ElementOfSeq DEF StreamInv, WritableOK, InboxInv
  <1>5. Taken \in 0..Len(script)
    BY <1>4 DEF Taken
  <1>6. ASSUME streamEnabled
        PROVE  Taken' = IF TransformBuffer \/ TransformObject THEN Taken + 1 ELSE Taken
    <2>1. CASE TransformBuffer \/ TransformObject
      <3>1. inbox # <<>> /\ inbox' = Tail(inbox) /\ written' = written
        BY <2>1 DEF TransformBuffer, TransformObject, CanTake, source
      <3>2. Len(Tail(inbox)) = Len(inbox) - 1
        BY <3>1, NextChunk DEF StreamInv
      <3> QED
        BY <1>4, <2>1, <3>1, <3>2 DEF Taken
    <2>2. CASE SourceWrites
      <3>1. written' = written + 1 /\ inbox' = Append(inbox, script[written + 1])
        BY <1>6, <2>2 DEF SourceWrites
      <3>2. script[written + 1] \in Chunk
        BY <1>4, <2>2 DEF SourceWrites
      <3>3. Len(inbox') = Len(inbox) + 1
        BY <1>4, <3>1, <3>2, AppendProperties
      <3>4. ~(TransformBuffer \/ TransformObject)
        BY <2>2 DEF SourceWrites, TransformBuffer, TransformObject
      <3> QED
        BY <1>4, <3>1, <3>3, <3>4 DEF Taken
    <2>3. ASSUME UNCHANGED <<written, inbox>>, ~(TransformBuffer \/ TransformObject)
          PROVE  Taken' = IF TransformBuffer \/ TransformObject THEN Taken + 1 ELSE Taken
      BY <2>3 DEF Taken
    <2> QED
      BY <2>1, <2>2, <2>3
      DEF StreamNext, EndSource, Converted, Converting, ConversionFails, LateFailure, Flush, EmitEnd, ClientReads,
          Return, Respond, RespondError, source
  <1> QED
    BY <1>1, <1>2, <1>3, <1>4, <1>5, <1>6

(* What each step pushes.                                                      *)
LEMMA PushedStep ==
    ASSUME StreamInv, StreamNext
    PROVE  /\ Pushed \in Seq(Tokens)
           /\ TransformBuffer =>
                 Pushed' = Pushed \o <<<<"row", Head(inbox).row>>>> /\ inbox # <<>>
           /\ TransformObject => Pushed' = Pushed \o Prefix
           /\ Converted => Pushed' = Pushed \o <<<<"row", busy.row>>>>
           /\ Flush => Pushed' = Pushed \o (IF streamEnabled THEN Closing ELSE <<>>)
           /\ ~(TransformBuffer \/ TransformObject \/ Converted \/ Flush) =>
                 Pushed' = Pushed
  <1>0. /\ PipeOK /\ outbox \in Seq(Tokens) /\ resBuffer \in Seq(Tokens)
        /\ received \in Seq(Tokens)
    BY DEF StreamInv, PipeOK
  <1>1. Pushed \in Seq(Tokens)
    <2>1. received \o resBuffer \in Seq(Tokens)
      BY <1>0, Join
    <2> DEFINE front == received \o resBuffer
    <2> HIDE DEF front
    <2>2. front \o outbox \in Seq(Tokens)
      BY <1>0, <2>1, Join DEF front
    <2> QED
      BY <2>2 DEF Pushed, Sent, front
  <1>2. ASSUME NEW tokens \in Seq(Tokens), Push(tokens)
        PROVE  Pushed' = Pushed \o tokens
    BY <1>0, <1>2, PushAppends
  <1>3. ASSUME TransformBuffer
        PROVE  Pushed' = Pushed \o <<<<"row", Head(inbox).row>>>> /\ inbox # <<>>
    <2>1. inbox # <<>> /\ Push(<<<<"row", Head(inbox).row>>>>)
      BY <1>3 DEF TransformBuffer, CanTake
    <2> QED
      BY <1>2, <2>1, Pushes
  <1>4. TransformObject => Pushed' = Pushed \o Prefix
    BY <1>2, Pushes DEF TransformObject
  <1>5. Converted => Pushed' = Pushed \o <<<<"row", busy.row>>>>
    BY <1>2, Pushes DEF Converted
  <1>6. Flush => Pushed' = Pushed \o (IF streamEnabled THEN Closing ELSE <<>>)
    BY <1>2, Pushes DEF Flush
  <1>7. ASSUME ~(TransformBuffer \/ TransformObject \/ Converted \/ Flush)
        PROVE  Pushed' = Pushed
    <2>1. CASE ClientReads
      BY <1>0, <2>1, ReadingKeeps
    <2>2. ASSUME UNCHANGED pipeline
          PROVE  Pushed' = Pushed
      BY <2>2 DEF Pushed, Sent, pipeline
    <2> QED
      BY <1>7, <2>1, <2>2
      DEF StreamNext, SourceWrites, EndSource, Converting, ConversionFails, LateFailure, EmitEnd, Return,
          Respond, RespondError
  <1> QED
    BY <1>1, <1>3, <1>4, <1>5, <1>6, <1>7

(* Pushing the next token of the answer.                                       *)
LEMMA PushRight ==
    ASSUME Pushed \in Seq(Tokens), Document \in Seq(Tokens), Document' = Document,
           Right, NEW x, <<x>> \in Seq(Tokens), Pushed' = Pushed \o <<x>>,
           Len(Pushed) < Len(Document), Document[Len(Pushed) + 1] = x
    PROVE  Right' /\ Len(Pushed') = Len(Pushed) + 1
  <1> DEFINE s == Pushed
             next == Pushed'
             d == Document
             one == <<x>>
  <1>1. Len(one) = 1 /\ one[1] = x /\ Len(d) \in Nat /\ Len(s) \in Nat
    BY LenProperties
  <1>2. /\ s \in Seq(Tokens) /\ one \in Seq(Tokens) /\ next = s \o one
        /\ Len(s) < Len(d) /\ d[Len(s) + 1] = x
        /\ \A i \in 1..Len(s) : s[i] = d[i]
    BY DEF Right
  <1> HIDE DEF s, next, d, one
  <1>3. /\ Len(next) = Len(s) + Len(one)
        /\ \A i \in 1..Len(s) + Len(one) :
              next[i] = IF i <= Len(s) THEN s[i] ELSE one[i - Len(s)]
    BY <1>2, Join
  <1>4. Len(next) = Len(s) + 1 /\ Len(next) <= Len(d)
    BY <1>1, <1>2, <1>3
  <1>5. ASSUME NEW i \in 1..Len(next)
        PROVE  next[i] = d[i]
    <2>1. CASE i <= Len(s)
      <3>1. i \in 1..Len(s) /\ i \in 1..Len(s) + Len(one)
        BY <1>1, <1>4, <2>1
      <3>2. next[i] = s[i]
        BY <1>3, <2>1, <3>1
      <3> QED
        BY <1>2, <3>1, <3>2
    <2>2. CASE ~(i <= Len(s))
      <3>1. i = Len(s) + 1 /\ i - Len(s) = 1 /\ i \in 1..Len(s) + Len(one)
        BY <1>1, <1>4, <2>2
      <3>2. next[i] = one[1]
        BY <1>3, <2>2, <3>1
      <3> QED
        BY <1>1, <1>2, <3>1, <3>2
    <2> QED
      BY <2>1, <2>2
  <1> QED
    BY <1>4, <1>5 DEF Right, s, next, d

-----------------------------------------------------------------------------
(* All that holds of a stream.                                                 *)
FullInv == StreamInv /\ ProgressInv /\ CountInv /\ DocumentInv

(* The count after one more chunk.                                             *)
LEMMA LastOfNext ==
    ASSUME WritableOK, NEW n \in Nat, n + 1 <= Len(script), NEW count, LastOf(n, count)
    PROVE  LastOf(n + 1, IF HasCount(script[n + 1]) THEN script[n + 1].count ELSE count)
  <1>1. Len(script) \in Nat /\ \A i \in 1..Len(script) : script[i].count \in Nat \cup {-1}
    BY LenProperties, ElementOfSeq, Chunks DEF WritableOK
  <1>2. CASE script[n + 1].count > 0
    <2>1. n + 1 \in 1..n + 1 /\ (n + 1 + 1)..n + 1 = {}
      OBVIOUS
    <2> QED
      BY <1>2, <2>1 DEF LastOf, HasCount
  <1>3. CASE ~(script[n + 1].count > 0)
    <2>1. script[n + 1].count <= 0
      BY <1>1, <1>3
    <2>2. \A m \in Nat : m..n + 1 = (m..n) \cup (IF m <= n + 1 THEN {n + 1} ELSE {})
      OBVIOUS
    <2>3. CASE count = -1 /\ \A i \in 1..n : script[i].count <= 0
      <3>1. \A i \in 1..n + 1 : script[i].count <= 0
        BY <2>1, <2>2, <2>3
      <3> QED
        BY <1>3, <2>3, <3>1 DEF LastOf, HasCount
    <2>4. CASE \E i \in 1..n : /\ script[i].count > 0 /\ count = script[i].count
                               /\ \A j \in (i + 1)..n : script[j].count <= 0
      <3>1. PICK i \in 1..n : /\ script[i].count > 0 /\ count = script[i].count
                              /\ \A j \in (i + 1)..n : script[j].count <= 0
        BY <2>4
      <3>2. \A j \in (i + 1)..n + 1 : script[j].count <= 0
        BY <2>1, <2>2, <3>1
      <3>3. i \in 1..n + 1
        OBVIOUS
      <3> QED
        BY <1>3, <3>1, <3>2, <3>3 DEF LastOf, HasCount
    <2> QED
      BY <2>3, <2>4 DEF LastOf
  <1> QED
    BY <1>2, <1>3

(* CountInv is kept: a transformation remembers the count it was given last.   *)
LEMMA CountStep ==
    ASSUME FullInv, exec # "none", StreamNext
    PROVE  CountInv'
  <1> SUFFICES ASSUME streamEnabled'
               PROVE  LastOf(Taken, streamInlineCount)'
    BY DEF CountInv
  <1> USE DEF FullInv, StreamInv
  <1>1. /\ streamEnabled /\ script' = script /\ way' = way /\ Taken \in Nat
        /\ Taken' = IF TransformBuffer \/ TransformObject THEN Taken + 1 ELSE Taken
    <2>1. /\ UNCHANGED <<way, script, streamEnabled>>
          /\ Taken \in 0..Len(script) /\ Len(script) \in Nat
          /\ streamEnabled => Taken' = IF TransformBuffer \/ TransformObject
                                       THEN Taken + 1 ELSE Taken
      BY MethodFixed, Zenon
    <2>2. streamEnabled
      BY <2>1
    <2>3. Taken \in Nat
      BY <2>1
    <2> QED
      BY <2>1, <2>2, <2>3, Zenon
  <1>2. LastOf(Taken, streamInlineCount)
    BY <1>1 DEF CountInv
  <1>3. ASSUME TransformBuffer \/ TransformObject
        PROVE  /\ Taken + 1 <= Len(script) /\ Head(inbox) = script[Taken + 1]
               /\ Taken + 1 \in DOMAIN script
    <2>1. inbox # <<>>
      BY <1>3 DEF TransformBuffer, TransformObject, CanTake
    <2>2. Taken + 1 \in 1..Len(script) /\ Head(inbox) = script[Taken + 1] /\ Len(script) \in Nat
      BY <2>1, NextChunk, MethodFixed
    <2>3. DOMAIN script = 1..Len(script)
      BY LenProperties DEF WritableOK
    <2> QED
      BY <1>1, <2>2, <2>3
  <1> DEFINE after == IF HasCount(script[Taken + 1]) THEN script[Taken + 1].count
                      ELSE streamInlineCount
  <1>4. CASE TransformBuffer
    <2>1. way = "media" /\ streamInlineCount' = streamInlineCount
      BY <1>4 DEF TransformBuffer
    <2>2. script[Taken + 1].count = -1
      BY <1>3, <1>4, <2>1 DEF EndInv
    <2>3. after = streamInlineCount
      BY <2>2 DEF HasCount
    <2>4. LastOf(Taken + 1, after)
      BY <1>1, <1>2, <1>3, <1>4, LastOfNext
    <2>5. LastOf(Taken + 1, streamInlineCount)
      BY <2>3, <2>4
    <2> QED
      BY <1>1, <1>4, <2>1, <2>5 DEF LastOf
  <1>5. CASE TransformObject
    <2>1. streamInlineCount' = after
      BY <1>3, <1>5 DEF TransformObject
    <2>2. LastOf(Taken + 1, after)
      BY <1>1, <1>2, <1>3, <1>5, LastOfNext
    <2> HIDE DEF after
    <2> QED
      BY <1>1, <1>5, <2>1, <2>2 DEF LastOf
  <1>6. CASE ~(TransformBuffer \/ TransformObject)
    <2>1. streamInlineCount' = streamInlineCount
      BY <1>6 DEF StreamNext, SourceWrites, EndSource, Converted, Converting, ConversionFails, LateFailure,
                  Flush, EmitEnd, ClientReads, Return, Respond, RespondError, flags
    <2> QED
      BY <1>1, <1>2, <1>6, <2>1 DEF LastOf
  <1> QED
    BY <1>4, <1>5, <1>6

(* The numbers of a stream of entities.                                        *)
LEMMA ObjectFacts ==
    ASSUME FullInv, exec # "none", StreamNext, streamEnabled, Regular, way # "media"
    PROVE  /\ ObjectProgress /\ Right /\ WritableOK
           /\ Len(script) \in Nat /\ Heads \in 0..Len(script) /\ Taken \in 0..Len(script)
           /\ RowCount = Len(script) - Heads
           /\ Len(Pushed) \in Nat /\ Pushed \in Seq(Tokens) /\ Document \in Seq(Tokens)
           /\ Document' = Document /\ Heads' = Heads /\ script' = script
           /\ streamStart \in BOOLEAN /\ streamObject \in BOOLEAN /\ streamEnd \in BOOLEAN
           /\ resultCount \in Nat
  <1>1. ObjectProgress /\ Right
    BY DEF FullInv, ProgressInv, DocumentInv
  <1>2. /\ WritableOK /\ streamStart \in BOOLEAN /\ streamObject \in BOOLEAN
        /\ streamEnd \in BOOLEAN /\ resultCount \in Nat
    BY DEF FullInv, StreamInv, WritableOK
  <1>3. Len(script) \in Nat /\ Heads \in 0..Len(script)
    BY <1>2, HeadsOf
  <1>4. /\ Taken \in 0..Len(script) /\ Document' = Document /\ Heads' = Heads
        /\ script' = script
    BY MethodFixed, Zenon DEF FullInv
  <1>5. Pushed \in Seq(Tokens)
    BY PushedStep, Zenon DEF FullInv
  <1>6. Len(Pushed) \in Nat
    BY <1>5, LenProperties
  <1>7. Document \in Seq(Tokens)
    BY <1>2, DocumentIs, Zenon
  <1> QED
    BY <1>1, <1>2, <1>3, <1>4, <1>5, <1>6, <1>7, Zenon DEF RowCount

(* Taking a chunk opens the answer or separates two rows.                      *)
LEMMA TransformObjectRight ==
    ASSUME FullInv, exec # "none", StreamNext, streamEnabled, Regular, way # "media",
           TransformObject
    PROVE  ObjectProgress' /\ Right'
  <1> DEFINE l == Len(script)
             h == Heads
             t == Taken
             p == Len(Pushed)
             c == script[t + 1]
  <1>1. /\ ObjectProgress /\ Right /\ WritableOK /\ l \in Nat /\ h \in 0..l /\ t \in 0..l
        /\ RowCount = l - h /\ p \in Nat /\ Pushed \in Seq(Tokens)
        /\ Document \in Seq(Tokens) /\ Document' = Document
        /\ Heads' = h /\ script' = script
        /\ streamStart \in BOOLEAN /\ streamEnd \in BOOLEAN /\ resultCount \in Nat
    BY ObjectFacts, Zenon
  <1>2. /\ inbox # <<>> /\ busy = Idle /\ Head(inbox) = c /\ t + 1 \in 1..l /\ ~streamEnd
    <2>1. inbox # <<>> /\ busy = Idle
      BY DEF TransformObject, CanTake
    <2>2. Head(inbox) = c /\ t + 1 \in 1..l
      BY <2>1, NextChunk DEF FullInv, StreamInv
    <2>3. ~streamEnd
      BY <2>1 DEF FullInv, StreamInv, WritableOK
    <2> QED
      BY <2>1, <2>2, <2>3
  <1>3. t' = t + 1
    <2>1. t' = IF TransformBuffer \/ TransformObject THEN t + 1 ELSE t
      BY MethodFixed DEF FullInv
    <2> QED
      BY <2>1
  <1>4. c \in Chunk /\ c # Idle /\ (CountOnly(c) <=> t + 1 <= h)
    BY <1>2, HeadsOf, Chunks DEF FullInv, StreamInv
  <1>5. /\ busy' = IF CountOnly(c) THEN Idle ELSE c
        /\ streamObject' = TRUE /\ streamStart' = TRUE
        /\ resultCount' = resultCount /\ streamEnd' = streamEnd
        /\ Pushed' = Pushed \o Prefix
    BY <1>2, PushedStep DEF TransformObject, FullInv
  <1>6. /\ streamStart <=> t > 0
        /\ resultCount = IF t <= h THEN 0 ELSE t - h
        /\ p = IF t = 0 THEN 0 ELSE IF t <= h THEN 1 ELSE 2 * (t - h)
    BY <1>1, <1>2 DEF ObjectProgress, RowsTaken, Pending, Closed
  <1>7. script # <<>>
    BY <1>2, EmptySeq
  <1>8. /\ Len(Document) = IF RowCount = 0 THEN 2 ELSE 2 * RowCount + 1
        /\ Document[1] = <<"open">>
        /\ \A r \in 1..RowCount : r < RowCount => Document[2 * r + 1] = Comma
    BY <1>7, DocumentIs DEF FullInv, StreamInv
  <1> DEFINE q == IF t = 0 THEN 1 ELSE IF t <= h THEN 1 ELSE 2 * (t - h) + 1
  <1>9. Right' /\ Len(Pushed') = q
    <2>1. CASE t = 0
      <3>1. Prefix = <<<<"open">>>>
        <4>1. ~streamStart
          BY <1>6, <2>1
        <4> QED
          BY <4>1, Zenon DEF Prefix
      <3>2. p = 0 /\ p < Len(Document) /\ q = 1
        BY <1>1, <1>6, <1>8, <2>1
      <3>3. Document[p + 1] = <<"open">>
        BY <1>8, <3>2
      <3>4. <<<<"open">>>> \in Seq(Tokens)
        BY TokensPushed, Zenon DEF Pushable
      <3>5. Right' /\ Len(Pushed') = p + 1
        BY <1>1, <1>5, <3>1, <3>2, <3>3, <3>4, PushRight, Zenon
      <3> QED
        BY <3>2, <3>5
    <2>2. CASE t # 0 /\ t <= h
      <3>1. Prefix = <<>>
        <4>1. streamStart /\ ~(resultCount > 0)
          BY <1>1, <1>6, <2>2
        <4> QED
          BY <4>1, Zenon DEF Prefix
      <3>2. Pushed' = Pushed
        BY <1>1, <1>5, <3>1, ConcatEmptySeq
      <3>3. Right'
        BY <1>1, <3>2, Zenon DEF Right
      <3> QED
        BY <1>6, <2>2, <3>2, <3>3
    <2>3. CASE t > h
      <3>1. Prefix = <<Comma>>
        <4>1. streamStart /\ resultCount > 0
          BY <1>1, <1>6, <2>3
        <4> QED
          BY <4>1, Zenon DEF Prefix, Comma
      <3>2. p = 2 * (t - h) /\ p < Len(Document) /\ q = p + 1
        BY <1>1, <1>2, <1>6, <1>8, <2>3
      <3>3. t - h \in 1..RowCount /\ t - h < RowCount
        BY <1>1, <1>2, <2>3
      <3>4. Document[p + 1] = Comma
        BY <1>8, <3>2, <3>3
      <3>5. <<Comma>> \in Seq(Tokens)
        BY TokensPushed, Zenon DEF Pushable, Comma
      <3>6. Right' /\ Len(Pushed') = p + 1
        BY <1>1, <1>5, <3>1, <3>2, <3>4, <3>5, PushRight, Zenon
      <3> QED
        BY <3>2, <3>6
    <2> QED
      BY <1>1, <2>1, <2>2, <2>3
  <1>10. ObjectProgress'
    <2>1. RowsTaken' = IF t + 1 <= h THEN 0 ELSE t + 1 - h
      BY <1>1, <1>3 DEF RowsTaken
    <2>2. Pending' = (IF t + 1 <= h THEN 0 ELSE 1) /\ Closed' = 0
      BY <1>2, <1>4, <1>5 DEF Pending, Closed
    <2>3. resultCount' = RowsTaken' - Pending'
      BY <1>1, <1>5, <1>6, <2>1, <2>2
    <2>4. Len(Pushed') = IF t' = 0 THEN Closed'
                         ELSE IF RowsTaken' = 0 THEN 1 + Closed'
                         ELSE 2 * RowsTaken' - Pending' + Closed'
      BY <1>1, <1>3, <1>9, <2>1, <2>2
    <2>5. busy' # Idle => t' > Heads' /\ busy' = script'[t']
      BY <1>1, <1>3, <1>4, <1>5
    <2>6. (streamStart' <=> t' > 0) /\ (streamObject' <=> t' > 0)
      BY <1>1, <1>3, <1>5
    <2> QED
      BY <2>3, <2>4, <2>5, <2>6 DEF ObjectProgress
  <1> QED
    BY <1>9, <1>10

(* A converted entity is the next row.                                         *)
LEMMA ConvertedRight ==
    ASSUME FullInv, exec # "none", StreamNext, streamEnabled, Regular, way # "media",
           Converted
    PROVE  ObjectProgress' /\ Right'
  <1> DEFINE l == Len(script)
             h == Heads
             t == Taken
             p == Len(Pushed)
  <1>1. /\ ObjectProgress /\ Right /\ WritableOK /\ l \in Nat /\ h \in 0..l /\ t \in 0..l
        /\ RowCount = l - h /\ p \in Nat /\ Pushed \in Seq(Tokens)
        /\ Document \in Seq(Tokens) /\ Document' = Document
        /\ Heads' = h /\ script' = script
        /\ streamStart \in BOOLEAN /\ streamEnd \in BOOLEAN /\ resultCount \in Nat
    BY ObjectFacts, Zenon
  <1>2. busy # Idle /\ ~streamEnd
    BY <1>1 DEF Converted, Converting, WritableOK
  <1>3. /\ t' = t /\ busy' = Idle /\ resultCount' = resultCount + 1
        /\ streamStart' = streamStart /\ streamObject' = streamObject
        /\ streamEnd' = streamEnd
    <2>1. inbox' = inbox /\ written' = written
      BY DEF Converted, source
    <2> QED
      BY <2>1 DEF Converted, Taken
  <1>4. /\ t > h /\ busy = script[t] /\ p = 2 * (t - h) - 1 /\ resultCount = t - h - 1
    BY <1>1, <1>2 DEF ObjectProgress, RowsTaken, Pending, Closed
  <1>5. script # <<>>
    BY <1>1, <1>4, EmptySeq
  <1>6. /\ Len(Document) = 2 * RowCount + 1
        /\ \A r \in 1..RowCount : Document[2 * r] = RowToken(r)
    <2>1. RowCount # 0
      BY <1>1, <1>4
    <2> QED
      BY <1>5, <2>1, DocumentIs DEF FullInv, StreamInv
  <1> DEFINE x == <<"row", busy.row>>
  <1>7. Document[p + 1] = x
    <2>1. t - h \in 1..RowCount /\ p + 1 = 2 * (t - h) /\ h + (t - h) = t
      BY <1>1, <1>4
    <2>2. Document[p + 1] = RowToken(t - h)
      BY <1>6, <2>1
    <2>3. RowToken(t - h) = <<"row", script[h + (t - h)].row>>
      BY Zenon DEF RowToken
    <2> HIDE DEF p, h, t
    <2> QED
      BY <1>4, <2>1, <2>2, <2>3, Zenon
  <1>8. <<x>> \in Seq(Tokens) /\ Pushed' = Pushed \o <<x>>
    BY Pushes, PushedStep, Zenon DEF FullInv
  <1>9. p < Len(Document)
    BY <1>1, <1>4, <1>6
  <1>10. Right' /\ Len(Pushed') = p + 1
    BY <1>1, <1>7, <1>8, <1>9, PushRight, Zenon
  <1>11. ObjectProgress'
    <2>1. RowsTaken' = t - h /\ Pending' = 0 /\ Closed' = 0
      BY <1>1, <1>2, <1>3, <1>4 DEF RowsTaken, Pending, Closed
    <2>2. resultCount' = RowsTaken' - Pending'
      BY <1>1, <1>3, <1>4, <2>1
    <2>3. Len(Pushed') = IF t' = 0 THEN Closed'
                         ELSE IF RowsTaken' = 0 THEN 1 + Closed'
                         ELSE 2 * RowsTaken' - Pending' + Closed'
      BY <1>1, <1>3, <1>4, <1>10, <2>1
    <2>4. (streamStart' <=> t' > 0) /\ (streamObject' <=> t' > 0)
      BY <1>1, <1>3 DEF ObjectProgress
    <2> QED
      BY <1>3, <2>2, <2>3, <2>4 DEF ObjectProgress
  <1> QED
    BY <1>10, <1>11

(* When a stream flushes, every chunk has been taken.                          *)
LEMMA FlushTakesAll ==
    ASSUME StreamInv, Flush
    PROVE  /\ Taken = Len(script) /\ Taken' = Taken /\ busy = Idle /\ busy' = Idle
           /\ ~streamEnd /\ streamEnd' = TRUE
           /\ UNCHANGED <<script, streamStart, streamObject, resultCount>>
  <1>1. /\ sourceEnded /\ inbox = <<>> /\ inbox' = inbox /\ written' = written
        /\ busy = Idle /\ busy' = Idle /\ ~streamEnd /\ streamEnd' = TRUE
        /\ UNCHANGED <<script, streamStart, streamObject, resultCount>>
    BY DEF Flush, CanFlush, source
  <1>2. written = Len(script) /\ Len(script) \in Nat /\ Len(inbox) = 0
    BY <1>1, LenProperties, EmptySeq DEF StreamInv, InboxInv, WritableOK
  <1> QED
    BY <1>1, <1>2 DEF Taken

(* The flush closes the answer with the last count, or answers without a row.  *)
LEMMA FlushRight ==
    ASSUME FullInv, exec # "none", StreamNext, streamEnabled, Regular, way # "media",
           Flush
    PROVE  ObjectProgress' /\ Right'
  <1> DEFINE l == Len(script)
             h == Heads
             t == Taken
             p == Len(Pushed)
  <1>1. /\ ObjectProgress /\ Right /\ WritableOK /\ l \in Nat /\ h \in 0..l /\ t \in 0..l
        /\ RowCount = l - h /\ p \in Nat /\ Pushed \in Seq(Tokens)
        /\ Document \in Seq(Tokens) /\ Document' = Document
        /\ Heads' = h /\ script' = script
        /\ streamStart \in BOOLEAN /\ streamEnd \in BOOLEAN /\ resultCount \in Nat
    BY ObjectFacts, Zenon
  <1>2. /\ t = l /\ t' = t /\ busy = Idle /\ busy' = Idle /\ ~streamEnd /\ streamEnd' = TRUE
        /\ UNCHANGED <<script, streamStart, streamObject, resultCount>>
    BY FlushTakesAll DEF FullInv
  <1>3. /\ streamStart <=> l > 0
        /\ streamObject <=> l > 0
        /\ resultCount = IF l <= h THEN 0 ELSE l - h
        /\ p = IF l = 0 THEN 0 ELSE IF l <= h THEN 1 ELSE 2 * (l - h)
    BY <1>1, <1>2 DEF ObjectProgress, RowsTaken, Pending, Closed
  <1>4. Pushed' = Pushed \o Closing /\ Closing \in Seq(Tokens)
    BY Pushes, PushedStep, Zenon DEF FullInv
  <1>5. Right' /\ Len(Pushed') = p + 1
    <2>1. CASE l > 0
      <3> DEFINE x == <<"close", streamInlineCount>>
      <3>1. streamObject
        BY <1>3, <2>1
      <3>2. Closing = <<x>>
        BY <3>1, Zenon DEF Closing
      <3>3. streamInlineCount = LastCount
        <4>1. LastOf(Len(script), streamInlineCount)
          BY <1>2 DEF FullInv, CountInv
        <4> QED
          BY <1>1, <4>1, LastCountIs
      <3>4. script # <<>>
        BY <2>1, EmptySeq
      <3>5. /\ Len(Document) = IF RowCount = 0 THEN 2 ELSE 2 * RowCount + 1
            /\ Document[Len(Document)] = <<"close", LastCount>>
        BY <1>1, <3>4, DocumentIs
      <3>6. p < Len(Document) /\ p + 1 = Len(Document)
        BY <1>1, <1>3, <2>1, <3>5
      <3>7. Document[p + 1] = x
        BY <3>3, <3>5, <3>6, Zenon
      <3> QED
        BY <1>1, <1>4, <3>2, <3>6, <3>7, PushRight, Zenon
    <2>2. CASE l = 0
      <3>1. ~streamObject /\ ~streamStart /\ p = 0
        BY <1>3, <2>2
      <3>2. Closing = <<<<"empty">>>>
        BY <3>1, Zenon DEF Closing
      <3>3. script = <<>>
        BY <1>1, <2>2, EmptySeq DEF WritableOK
      <3>4. Len(Document) = 1 /\ Document[1] = <<"empty">>
        BY <1>1, <3>3, DocumentIs
      <3>5. p < Len(Document) /\ Document[p + 1] = <<"empty">>
        BY <3>1, <3>4
      <3> QED
        BY <1>1, <1>4, <3>2, <3>5, PushRight, Zenon
    <2> QED
      BY <1>1, <2>1, <2>2
  <1>6. ObjectProgress'
    <2>1. RowsTaken' = (IF l <= h THEN 0 ELSE l - h) /\ Pending' = 0 /\ Closed' = 1
      BY <1>1, <1>2 DEF RowsTaken, Pending, Closed
    <2>2. resultCount' = RowsTaken' - Pending'
      BY <1>1, <1>2, <1>3, <2>1
    <2>3. Len(Pushed') = IF t' = 0 THEN Closed'
                         ELSE IF RowsTaken' = 0 THEN 1 + Closed'
                         ELSE 2 * RowsTaken' - Pending' + Closed'
      BY <1>1, <1>2, <1>3, <1>5, <2>1
    <2>4. (streamStart' <=> t' > 0) /\ (streamObject' <=> t' > 0)
      BY <1>1, <1>2, <1>3
    <2> QED
      BY <1>2, <2>2, <2>3, <2>4 DEF ObjectProgress
  <1> QED
    BY <1>5, <1>6

(* The steps of a stream of entities.                                          *)
LEMMA ObjectStep ==
    ASSUME FullInv, exec # "none", StreamNext, streamEnabled, Regular, way # "media"
    PROVE  ObjectProgress' /\ Right'
  <1>1. CASE TransformObject
    BY <1>1, TransformObjectRight
  <1>2. CASE Converted
    BY <1>2, ConvertedRight
  <1>3. CASE Flush
    BY <1>3, FlushRight
  <1>4. CASE ~(TransformObject \/ Converted \/ Flush)
    <2>1. ~TransformBuffer
      BY DEF TransformBuffer
    <2>2. Pushed' = Pushed
      BY <1>4, <2>1, PushedStep DEF FullInv
    <2>3. Taken' = Taken
      BY <1>4, <2>1, MethodFixed DEF FullInv
    <2>4. UNCHANGED <<busy, streamStart, streamObject, resultCount, streamEnd>>
      BY <1>4, <2>1 DEF StreamNext, SourceWrites, EndSource, Converting, ConversionFails, LateFailure, EmitEnd,
                        ClientReads, Return, Respond, RespondError, flags
    <2>5. /\ ObjectProgress /\ Right /\ Document' = Document /\ Heads' = Heads
          /\ script' = script
      BY ObjectFacts, Zenon
    <2>6. RowsTaken' = RowsTaken /\ Pending' = Pending /\ Closed' = Closed
      BY <2>3, <2>4, <2>5 DEF RowsTaken, Pending, Closed
    <2>7. Right'
      BY <2>2, <2>5, Zenon DEF Right
    <2>8. ObjectProgress'
      BY <2>2, <2>3, <2>4, <2>5, <2>6 DEF ObjectProgress
    <2> QED
      BY <2>7, <2>8
  <1> QED
    BY <1>1, <1>2, <1>3, <1>4

(* The steps of a stream of buffers: each goes out as it is.                   *)
LEMMA MediaStep ==
    ASSUME FullInv, exec # "none", StreamNext, streamEnabled, Regular, way = "media"
    PROVE  MediaProgress' /\ Right'
  <1> DEFINE l == Len(script)
             t == Taken
             p == Len(Pushed)
  <1>1. /\ MediaProgress /\ Right /\ WritableOK
    BY DEF FullInv, StreamInv, ProgressInv, DocumentInv
  <1>2. /\ l \in Nat /\ t \in 0..l /\ Document' = Document /\ script' = script
    BY MethodFixed, Zenon DEF FullInv
  <1>3. /\ Pushed \in Seq(Tokens) /\ p = t
    BY <1>1, PushedStep, Zenon DEF FullInv, MediaProgress
  <1>4. /\ Document \in Seq(Tokens) /\ Len(Document) = l
        /\ \A i \in 1..l : Document[i] = <<"row", script[i].row>>
    BY <1>1, DocumentIs, Zenon
  <1>5. script # <<>> /\ l > 0
    <2>1. script # <<>>
      BY DEF Regular
    <2> QED
      BY <1>1, <1>2, <2>1, EmptySeq DEF WritableOK
  <1>6. ~TransformObject /\ ~Converted /\ (Flush => Pushed' = Pushed)
    <2>1. ~TransformObject /\ ~Converted
      BY <1>1 DEF TransformObject, Converted, Converting, MediaProgress
    <2>2. ASSUME Flush
          PROVE  Pushed' = Pushed
      <3>1. t = l
        BY <2>2, FlushTakesAll DEF FullInv
      <3>2. streamStart /\ ~streamObject
        BY <1>1, <1>5, <3>1 DEF MediaProgress
      <3>3. Closing = <<>>
        BY <3>2, Zenon DEF Closing
      <3>4. Pushed' = Pushed \o Closing
        BY <2>2, PushedStep, Zenon DEF FullInv
      <3> QED
        BY <1>3, <3>3, <3>4, ConcatEmptySeq
    <2> QED
      BY <2>1, <2>2
  <1>7. CASE TransformBuffer
    <2> DEFINE x == <<"row", Head(inbox).row>>
    <2>1. inbox # <<>> /\ Pushed' = Pushed \o <<x>>
      BY <1>7, PushedStep, Zenon DEF FullInv
    <2>2. <<x>> \in Seq(Tokens)
      BY <2>1, Pushes, Zenon DEF FullInv
    <2>3. t + 1 \in 1..l /\ Head(inbox) = script[t + 1]
      BY <2>1, NextChunk DEF FullInv, StreamInv
    <2>4. Document[t + 1] = x
      BY <1>4, <2>3, Zenon
    <2>5. p < Len(Document) /\ Document[p + 1] = x
      BY <1>2, <1>3, <1>4, <2>3, <2>4
    <2>6. Right' /\ Len(Pushed') = p + 1
      BY <1>1, <1>2, <1>3, <1>4, <2>1, <2>2, <2>5, PushRight, Zenon
    <2>7. t' = t + 1
      BY <1>7, MethodFixed DEF FullInv
    <2>8. streamStart' = TRUE /\ streamObject' = streamObject /\ busy' = busy
      BY <1>7 DEF TransformBuffer
    <2> QED
      BY <1>1, <1>2, <1>3, <2>6, <2>7, <2>8 DEF MediaProgress
  <1>8. CASE ~TransformBuffer
    <2>1. Pushed' = Pushed
      BY <1>6, <1>8, PushedStep DEF FullInv
    <2>2. t' = t
      BY <1>6, <1>8, MethodFixed DEF FullInv
    <2>3. UNCHANGED <<busy, streamStart, streamObject>>
      BY <1>6, <1>8 DEF StreamNext, SourceWrites, EndSource, Converting, ConversionFails, LateFailure, Flush,
                        EmitEnd, ClientReads, Return, Respond, RespondError, flags
    <2>4. Right'
      BY <1>1, <1>2, <2>1, Zenon DEF Right
    <2>5. MediaProgress'
      BY <1>1, <2>1, <2>2, <2>3 DEF MediaProgress
    <2> QED
      BY <2>4, <2>5
  <1> QED
    BY <1>7, <1>8

(* Every step keeps all that holds of a stream.                                *)
LEMMA FullStep ==
    ASSUME FullInv, exec # "none", StreamNext
    PROVE  FullInv' /\ exec' # "none"
  <1>1. StreamInv' /\ exec' # "none"
    BY PipeStep, WritableStep, InboxStep, EndStep, WaitStep DEF FullInv, StreamInv
  <1>2. CountInv'
    BY CountStep
  <1>3. /\ UNCHANGED <<way, script, streamEnabled>> /\ (Regular <=> Regular')
    BY MethodFixed, Zenon DEF FullInv
  <1>4. ProgressInv' /\ DocumentInv'
    <2>1. CASE streamEnabled /\ Regular /\ way = "media"
      BY <1>3, <2>1, MediaStep, Zenon DEF ProgressInv, DocumentInv
    <2>2. CASE streamEnabled /\ Regular /\ way # "media"
      BY <1>3, <2>2, ObjectStep, Zenon DEF ProgressInv, DocumentInv
    <2>3. CASE ~(streamEnabled /\ Regular)
      BY <1>3, <2>3, Zenon DEF ProgressInv, DocumentInv
    <2> QED
      BY <2>1, <2>2, <2>3, Zenon
  <1> QED
    BY <1>1, <1>2, <1>4 DEF FullInv

-----------------------------------------------------------------------------
(* A stream of which nothing has happened yet, connected or not.               *)
Untouched ==
    /\ way \in Ways /\ script \in Seq(Chunk) /\ streamEnabled \in BOOLEAN
    /\ way = "media" => streamEnabled /\ \A i \in DOMAIN script : script[i].count = -1
    /\ written = 0 /\ sourceEnded = FALSE
    /\ inbox = <<>> /\ busy = Idle
    /\ streamStart = FALSE /\ streamObject = FALSE /\ streamEnd = FALSE
    /\ streamInlineCount = -1 /\ resultCount = 0
    /\ outbox = <<>> /\ flowing = TRUE /\ ended = FALSE
    /\ resBuffer = <<>> /\ received = <<>> /\ body = -1
    /\ answer \in {"open", "ended", "failed", "crashed"}
    /\ \/ exec = FirstWait(way)
       \/ exec = "none" /\ script = <<>> /\ way = "sink" /\ streamEnabled

(* Whatever method is called, the invariant holds before it streams.           *)
LEMMA UntouchedInv == Untouched => FullInv
  <1> SUFFICES ASSUME Untouched
               PROVE  FullInv
    OBVIOUS
  <1>1. /\ Len(script) \in Nat /\ Len(inbox) = 0 /\ Len(resBuffer) = 0 /\ Taken = 0
        /\ <<>> \in Seq(Tokens) /\ <<>> \in Seq(Chunk)
    <2>1. Len(script) \in Nat
      BY LenProperties DEF Untouched
    <2>2. inbox = <<>> /\ resBuffer = <<>> /\ written = 0
      BY DEF Untouched
    <2>3. Len(inbox) = 0 /\ Len(resBuffer) = 0 /\ written = 0
      BY <2>2
    <2>4. Taken = 0
      BY <2>3 DEF Taken
    <2> QED
      BY <2>1, <2>3, <2>4
  <1>2. exec \in {"none", "method", "processorEnd", "sourceEnd"}
    BY DEF Untouched, FirstWait
  <1>3. PipeOK
    BY <1>1, HighAssumption DEF PipeOK, Untouched
  <1>4. WritableOK
    <2>1. /\ way \in Ways /\ script \in Seq(Chunk) /\ streamEnabled \in BOOLEAN
          /\ sourceEnded \in BOOLEAN /\ inbox \in Seq(Chunk) /\ busy \in Chunk \cup {Idle}
          /\ answer \in {"open", "ended", "failed", "crashed"}
      BY <1>1, Zenon DEF Untouched
    <2>2. /\ written \in 0..Len(script) /\ resultCount \in Nat
          /\ streamInlineCount \in Nat \cup {-1} /\ body \in Nat \cup {-1}
      BY <1>1 DEF Untouched
    <2>3. /\ streamStart \in BOOLEAN /\ streamObject \in BOOLEAN /\ ~streamEnd
          /\ streamEnd \in BOOLEAN /\ ended \in BOOLEAN
      BY DEF Untouched
    <2>4. exec \in {"none", "method", "processorEnd", "writerEnd", "sourceEnd",
                   "resolved", "rejected"}
      BY <1>2
    <2> QED
      BY <2>1, <2>2, <2>3, <2>4 DEF WritableOK
  <1>5. InboxInv
    BY <1>1 DEF InboxInv, Untouched
  <1>6. EndInv
    BY DEF EndInv, Untouched
  <1>7. WaitInv
    BY DEF WaitInv, Untouched, FirstWait, Ways, Unused
  <1>8. CountInv
    BY <1>1 DEF CountInv, LastOf, Untouched
  <1>9. Pushed = <<>> /\ Len(Pushed) = 0
    <2>1. <<>> \o <<>> = <<>>
      BY <1>1, ConcatEmptySeq
    <2>2. Pushed = (<<>> \o <<>>) \o <<>>
      BY DEF Pushed, Sent, Untouched
    <2> QED
      BY <2>1, <2>2
  <1>10. ASSUME Regular
         PROVE  Right /\ MediaProgress /\ ObjectProgress
    <2>1. Heads \in 0..Len(script)
      BY <1>4, <1>10, HeadsOf
    <2>2. MediaProgress
      BY <1>1, <1>9 DEF MediaProgress, Untouched
    <2>3. RowsTaken = 0 /\ Pending = 0 /\ Closed = 0
      BY <1>1, <2>1 DEF RowsTaken, Pending, Closed, Untouched
    <2>4. ObjectProgress
      BY <1>1, <1>9, <2>3 DEF ObjectProgress, Untouched
    <2>5. Len(Document) \in Nat
      BY <1>4, <1>10, DocumentIs, LenProperties
    <2>6. Right
      BY <1>9, <2>5 DEF Right
    <2> QED
      BY <2>2, <2>4, <2>6
  <1> QED
    BY <1>3, <1>4, <1>5, <1>6, <1>7, <1>8, <1>10, Zenon
    DEF FullInv, StreamInv, ProgressInv, DocumentInv

(* What holds of a stream does not depend on whether it has been answered.     *)
LEMMA FullStays ==
    ASSUME FullInv, answer' \in {"open", "ended", "failed", "crashed"},
           UNCHANGED <<source, inbox, busy, flags, pipeline, ended, exec, body>>
    PROVE  FullInv'
  <1>1. /\ UNCHANGED <<way, script, streamEnabled, written, sourceEnded, inbox, busy>>
        /\ UNCHANGED <<streamStart, streamObject, streamEnd, streamInlineCount, resultCount>>
        /\ UNCHANGED <<outbox, flowing, resBuffer, received, ended, exec, body>>
    BY DEF source, flags, pipeline
  <1>2. /\ Heads' = Heads /\ (Regular <=> Regular') /\ Document' = Document
    BY <1>1, SameAnswer
  <1>3. Taken' = Taken /\ Pushed' = Pushed
    BY <1>1 DEF Taken, Pushed, Sent
  <1>4. RowsTaken' = RowsTaken /\ Pending' = Pending /\ Closed' = Closed
    BY <1>1, <1>2, <1>3 DEF RowsTaken, Pending, Closed
  <1>5. PipeOK'
    BY <1>1 DEF FullInv, StreamInv, PipeOK
  <1>6. WritableOK'
    BY <1>1 DEF FullInv, StreamInv, WritableOK
  <1>7. InboxInv' /\ EndInv'
    BY <1>1, <1>3 DEF FullInv, StreamInv, InboxInv, EndInv
  <1>8. WaitInv'
    BY <1>1 DEF FullInv, StreamInv, WaitInv, Unused
  <1>9. CountInv'
    BY <1>1, <1>3 DEF FullInv, CountInv, LastOf
  <1>10. MediaProgress <=> MediaProgress'
    BY <1>1, <1>3 DEF MediaProgress
  <1>11. ObjectProgress <=> ObjectProgress'
    BY <1>1, <1>2, <1>3, <1>4 DEF ObjectProgress
  <1>12. Right <=> Right'
    BY <1>2, <1>3, Zenon DEF Right
  <1>13. ProgressInv' /\ DocumentInv'
    BY <1>1, <1>2, <1>10, <1>11, <1>12, Zenon DEF FullInv, ProgressInv, DocumentInv
  <1> QED
    BY <1>5, <1>6, <1>7, <1>8, <1>9, <1>13, Zenon DEF FullInv, StreamInv

-----------------------------------------------------------------------------
(* What has been sent is the beginning of what has been pushed.                *)
LEMMA SentFirst ==
    ASSUME PipeOK
    PROVE  /\ Sent \in Seq(Tokens) /\ Len(Sent) \in Nat /\ Pushed \in Seq(Tokens)
           /\ Len(Pushed) = Len(Sent) + Len(outbox) /\ Len(outbox) \in Nat
           /\ \A i \in 1..Len(Sent) : Pushed[i] = Sent[i]
           /\ outbox = <<>> => Pushed = Sent
  <1>1. Sent \in Seq(Tokens) /\ outbox \in Seq(Tokens)
    BY Join DEF PipeOK, Sent
  <1> DEFINE s == Sent
             o == outbox
  <1> HIDE DEF s, o
  <1>2. /\ s \in Seq(Tokens) /\ o \in Seq(Tokens) /\ Pushed = s \o o
    BY <1>1 DEF Pushed, s, o
  <1>3. /\ s \o o \in Seq(Tokens) /\ Len(s \o o) = Len(s) + Len(o)
        /\ Len(s) \in Nat /\ Len(o) \in Nat
        /\ \A i \in 1..Len(s) + Len(o) :
              (s \o o)[i] = IF i <= Len(s) THEN s[i] ELSE o[i - Len(s)]
    BY <1>2, Join
  <1>4. \A i \in 1..Len(s) : (s \o o)[i] = s[i]
    BY <1>3
  <1>5. o = <<>> => s \o o = s
    BY <1>2, ConcatEmptySeq
  <1> QED
    BY <1>2, <1>3, <1>4, <1>5, Zenon DEF s, o

(* The first tokens of two sequences agree.                                    *)
LEMMA PrefixFrom ==
    ASSUME NEW s \in Seq(Tokens), NEW d \in Seq(Tokens), Len(s) <= Len(d),
           \A i \in 1..Len(s) : s[i] = d[i]
    PROVE  IsPrefix(s, d)
  <1> DEFINE n == Len(s)
  <1>1. n \in Nat /\ Len(d) \in Nat
    BY LenProperties
  <1>2. SubSeq(s, 1, n) = s
    BY SubSeqFull
  <1>3. /\ SubSeq(d, 1, n) \in Seq(Tokens) /\ Len(SubSeq(d, 1, n)) = n
        /\ \A i \in 1..n : SubSeq(d, 1, n)[i] = d[i]
    <2> HIDE DEF n
    <2>1. \A i \in 1..n : d[i] \in Tokens
      BY <1>1, ElementOfSeq DEF n
    <2>2. /\ SubSeq(d, 1, n) \in Seq(Tokens)
          /\ Len(SubSeq(d, 1, n)) = IF 1 <= n THEN n - 1 + 1 ELSE 0
          /\ \A i \in 1..(n - 1 + 1) : SubSeq(d, 1, n)[i] = d[1 + i - 1]
      BY <1>1, <2>1, SubSeqProperties
    <2> QED
      BY <1>1, <2>2
  <1>4. SubSeq(d, 1, n) = s
    <2> DEFINE t == SubSeq(d, 1, n)
    <2>1. t \in Seq(Tokens) /\ Len(t) = Len(s) /\ \A i \in 1..Len(t) : t[i] = s[i]
      BY <1>3
    <2> HIDE DEF t
    <2>2. t = s
      BY <2>1, SeqEqual
    <2> QED
      BY <2>2 DEF t
  <1> QED
    BY <1>2, <1>4 DEF IsPrefix

(* What was sent is what was pushed without what is still in the processor,    *)
(* and that is the beginning of the document.                                  *)
LEMMA SentInOrderFrom == FullInv => SentInOrder
  <1> SUFFICES ASSUME FullInv, streamEnabled, Regular
               PROVE  IsPrefix(Sent, Document)
    BY DEF SentInOrder
  <1>1. Right /\ Document \in Seq(Tokens)
    BY DocumentIs, Zenon DEF FullInv, StreamInv, DocumentInv
  <1>2. /\ Sent \in Seq(Tokens) /\ Len(Sent) \in Nat /\ Pushed \in Seq(Tokens)
        /\ Len(Pushed) = Len(Sent) + Len(outbox) /\ Len(outbox) \in Nat
        /\ \A i \in 1..Len(Sent) : Pushed[i] = Sent[i]
    BY SentFirst DEF FullInv, StreamInv
  <1>3. Len(Sent) <= Len(Document) /\ Len(Sent) <= Len(Pushed)
    <2>1. Len(Document) \in Nat
      BY <1>1, LenProperties
    <2> QED
      BY <1>1, <1>2, <2>1 DEF Right
  <1>4. ASSUME NEW i \in 1..Len(Sent)
        PROVE  Sent[i] = Document[i]
    <2>1. i \in 1..Len(Pushed)
      BY <1>2, <1>3
    <2>2. Pushed[i] = Document[i]
      BY <1>1, <2>1, Zenon DEF Right
    <2> QED
      BY <1>2, <2>2, Zenon
  <1> QED
    BY <1>1, <1>2, <1>3, <1>4, PrefixFrom, Zenon

(* The whole answer has gone out when as much of it as there is has.           *)
LEMMA WholeAnswer ==
    ASSUME FullInv, streamEnabled, Regular, outbox = <<>>, Len(Pushed) = Len(Document)
    PROVE  Sent = Document
  <1> DEFINE s == Sent
             d == Document
  <1>1. d \in Seq(Tokens) /\ \A i \in 1..Len(Pushed) : Pushed[i] = d[i]
    BY DocumentIs, Zenon DEF FullInv, StreamInv, DocumentInv, Right
  <1>2. s \in Seq(Tokens) /\ Pushed = s
    BY SentFirst DEF FullInv, StreamInv
  <1>3. Len(s) = Len(d) /\ \A i \in 1..Len(s) : s[i] = d[i]
    BY <1>1, <1>2
  <1> HIDE DEF s, d
  <1>4. s = d
    BY <1>1, <1>2, <1>3, SeqEqual
  <1> QED
    BY <1>4 DEF s, d

(* A stream that has flushed has pushed all of its answer.                     *)
LEMMA FlushedAll ==
    ASSUME FullInv, streamEnabled, Regular, streamEnd
    PROVE  Len(Pushed) = Len(Document)
  <1>1. sourceEnded /\ inbox = <<>> /\ busy = Idle
    BY DEF FullInv, StreamInv, WritableOK
  <1>2. Taken = Len(script) /\ Len(script) \in Nat /\ Heads \in 0..Len(script)
    <2>1. written = Len(script) /\ Len(script) \in Nat /\ Len(inbox) = 0
      BY <1>1, LenProperties DEF FullInv, StreamInv, InboxInv, WritableOK
    <2>2. Heads \in 0..Len(script)
      BY HeadsOf DEF FullInv, StreamInv
    <2> QED
      BY <2>1, <2>2 DEF Taken
  <1>3. CASE way = "media"
    BY <1>2, <1>3, DocumentIs DEF FullInv, StreamInv, ProgressInv, MediaProgress
  <1>4. CASE way # "media"
    <2>1. /\ Len(Pushed) = IF Taken = 0 THEN 1
                           ELSE IF Taken <= Heads THEN 2 ELSE 2 * (Taken - Heads) + 1
      BY <1>1, <1>2, <1>4
      DEF FullInv, ProgressInv, ObjectProgress, RowsTaken, Pending, Closed
    <2>2. CASE script = <<>>
      <3>1. Len(Document) = 1
        BY <1>4, <2>2, DocumentIs DEF FullInv, StreamInv
      <3> QED
        BY <1>2, <2>1, <2>2, <3>1
    <2>3. CASE script # <<>>
      <3>1. Len(Document) = IF RowCount = 0 THEN 2 ELSE 2 * RowCount + 1
        BY <1>4, <2>3, DocumentIs DEF FullInv, StreamInv
      <3>2. Len(script) # 0
        BY <2>3, EmptySeq DEF FullInv, StreamInv, WritableOK
      <3> QED
        BY <1>2, <2>1, <3>1, <3>2 DEF RowCount
    <2> QED
      BY <2>2, <2>3
  <1> QED
    BY <1>3, <1>4

-----------------------------------------------------------------------------
(* Answering a stream that was delivered loses nothing that was not excepted.  *)
LEMMA RespondLosesNothing ==
    ASSUME FullInv, FullInv', exec # "none", Respond
    PROVE  NothingLost'
  <1> SUFFICES ASSUME streamEnabled', Regular'
               PROVE  \/ Sent' = Document'
                      \/ way' # "sink" /\ ~flowing'
                      \/ way' = "source" /\ ~streamEnd'
    BY DEF NothingLost
  <1>1. /\ UNCHANGED <<way, script, streamEnabled, written, sourceEnded, inbox, busy>>
        /\ UNCHANGED <<streamEnd, ended, outbox, flowing, resBuffer, received, exec>>
        /\ exec = "resolved" /\ ~CanTake
    BY DEF Respond, source, flags, pipeline
  <1>2. (Regular <=> Regular') /\ Document' = Document /\ Sent' = Sent
    <2>1. (Regular <=> Regular') /\ Document' = Document
      BY <1>1, SameAnswer
    <2>2. Sent' = Sent
      BY <1>1 DEF Sent
    <2> QED
      BY <2>1, <2>2
  <1>3. streamEnabled /\ Regular
    BY <1>1, <1>2
  <1>4. way \in {"sink", "source", "writer", "media"} /\ flowing \in BOOLEAN
    BY DEF FullInv, StreamInv, WritableOK, PipeOK, Ways
  <1>5. CASE streamEnd /\ outbox = <<>>
    <2>1. Sent = Document
      BY <1>3, <1>5, FlushedAll, WholeAnswer
    <2> QED
      BY <1>2, <2>1
  <1>6. CASE way = "sink"
    <2>1. ended
      BY <1>1, <1>6 DEF FullInv, StreamInv, WaitInv
    <2>2. streamEnd /\ outbox = <<>>
      BY <2>1 DEF FullInv, StreamInv, EndInv
    <2> QED
      BY <1>5, <2>2
  <1>7. flowing => outbox = <<>>
    BY DEF FullInv, StreamInv, PipeOK
  <1>8. CASE way \in {"source", "writer"}
    <2>1. way = "writer" => streamEnd
      BY <1>1 DEF FullInv, StreamInv, WaitInv
    <2> QED
      BY <1>1, <1>5, <1>7, <1>8, <2>1
  <1>9. CASE way = "media" /\ flowing
    <2>1. outbox = <<>> /\ Len(outbox) = 0 /\ OutHigh \in Nat \ {0}
      BY <1>7, <1>9, HighAssumption
    <2>2. MediaProgress /\ sourceEnded
      BY <1>1, <1>3, <1>9 DEF FullInv, StreamInv, ProgressInv, WaitInv
    <2>3. inbox = <<>>
      BY <1>1, <2>1, <2>2 DEF CanTake, MediaProgress
    <2>4. Taken = Len(script)
      <3>1. written = Len(script) /\ Len(inbox) = 0 /\ Len(script) \in Nat
        BY <2>2, <2>3, LenProperties DEF FullInv, StreamInv, InboxInv, WritableOK
      <3> QED
        BY <3>1 DEF Taken
    <2>5. Len(Pushed) = Len(Document)
      BY <1>3, <1>9, <2>2, <2>4, DocumentIs DEF MediaProgress, FullInv, StreamInv
    <2>6. Sent = Document
      BY <1>3, <2>1, <2>5, WholeAnswer
    <2> QED
      BY <1>2, <2>6
  <1>10. CASE way = "media" /\ ~flowing
    BY <1>1, <1>10
  <1> QED
    BY <1>4, <1>6, <1>8, <1>9, <1>10

(* A step of a stream loses nothing that was not excepted.                     *)
LEMMA NothingLostStep ==
    ASSUME FullInv, exec # "none", StreamNext, NothingLost
    PROVE  NothingLost'
  <1>1. FullInv'
    BY FullStep
  <1>2. CASE Respond
    BY <1>1, <1>2, RespondLosesNothing
  <1>3. CASE ~Respond /\ answer = "open"
    <2>1. answer' # "ended"
      BY <1>3 DEF StreamNext, SourceWrites, EndSource, TransformBuffer, TransformObject,
                  Converted, Converting, ConversionFails, LateFailure, Flush, EmitEnd, ClientReads, Return,
                  RespondError, verdict
    <2> QED
      BY <2>1 DEF NothingLost
  <1>4. CASE ~Respond /\ answer # "open"
    <2> SUFFICES ASSUME ~LateFailure
                 PROVE  NothingLost'
      BY DEF LateFailure, NothingLost
    <2>1. ClientReads
      BY <1>4 DEF StreamNext, SourceWrites, EndSource, TransformBuffer, TransformObject,
                  Converted, ConversionFails, Flush, EmitEnd, Return, RespondError
    <2>2. Sent' = Sent /\ flowing' = flowing
      BY <1>4, <2>1, ReadingKeeps DEF FullInv, StreamInv
    <2>3. /\ UNCHANGED <<way, script, streamEnabled, streamEnd, exec, answer>>
      BY <2>1 DEF ClientReads, source, flags, verdict
    <2>4. (Regular <=> Regular') /\ Document' = Document
      BY <2>3, SameAnswer
    <2> QED
      BY <2>2, <2>3, <2>4, Zenon DEF NothingLost
  <1> QED
    BY <1>2, <1>3, <1>4

(* A streamed collection that is counted: the count is of all it wrote.        *)
LEMMA CountIsRowsStep ==
    ASSUME FullInv, exec # "none", StreamNext, CountIsRows
    PROVE  CountIsRows'
  <1>1. UNCHANGED <<way, script, streamEnabled>>
    BY MethodFixed, Zenon DEF FullInv
  <1>2. Counted' = Counted
    BY <1>1, Zenon DEF Counted
  <1>3. CASE Respond /\ ~streamEnabled
    <2>1. body' = resultCount /\ exec = "resolved"
      BY <1>3 DEF Respond
    <2>2. resultCount = written
      BY <1>3 DEF FullInv, StreamInv, EndInv
    <2>3. sourceEnded
      BY <2>1 DEF FullInv, StreamInv, WaitInv, EndInv, WritableOK
    <2>4. written = Len(script)
      BY <2>3 DEF FullInv, StreamInv, InboxInv
    <2> QED
      BY <1>1, <2>1, <2>2, <2>4 DEF CountIsRows
  <1>4. CASE Respond /\ streamEnabled
    BY <1>4 DEF CountIsRows, Respond
  <1>5. CASE ~Respond
    <2>1. body' = body
      BY <1>5 DEF StreamNext, SourceWrites, EndSource, TransformBuffer, TransformObject,
                  Converted, Converting, ConversionFails, LateFailure, Flush, EmitEnd, ClientReads, Return,
                  RespondError, verdict
    <2> QED
      BY <1>1, <1>2, <2>1, Zenon DEF CountIsRows
  <1> QED
    BY <1>3, <1>4, <1>5

-----------------------------------------------------------------------------
(* What holds of a response: of its stream, of what it has sent, and that no   *)
(* stream begins when the response is over.                                    *)
OverInv == exec = "none" /\ answer # "open" => outcome \in {"done", "error"}

ResponseInv == FullInv /\ NothingLost /\ CountIsRows /\ OverInv

(* A stream that has just been connected.                                      *)
Connected == Untouched /\ NothingLost /\ CountIsRows /\ OverInv

(* Connecting a stream finds the response open and nothing streamed.           *)
LEMMA StartStep ==
    ASSUME ResponseInv, StartStream
    PROVE  Connected'
  <1>1. /\ exec = "none" /\ outcome = "streaming" /\ answer = "open"
    BY DEF StartStream, ResponseInv, OverInv
  <1>2. Unused
    BY <1>1 DEF ResponseInv, FullInv, StreamInv, WaitInv
  <1>3. PICK s \in Streams : /\ way' = s.way /\ script' = s.script
                             /\ streamEnabled' = s.streamEnabled
                             /\ exec' = FirstWait(s.way)
    BY DEF StartStream
  <1>4. IsStream(s)
    BY StreamsAssumption
  <1>5. /\ UNCHANGED <<written, sourceEnded, inbox, busy, streamStart, streamObject>>
        /\ UNCHANGED <<streamEnd, streamInlineCount, resultCount, outbox, flowing>>
        /\ UNCHANGED <<resBuffer, received, ended, answer, body>>
    BY DEF StartStream, flags, pipeline
  <1>6. /\ way' \in Ways /\ script' \in Seq(Chunk) /\ streamEnabled' \in BOOLEAN
        /\ way' = "media" =>
              streamEnabled' /\ \A i \in DOMAIN script' : script'[i].count = -1
        /\ exec' = FirstWait(way')
    BY <1>3, <1>4, Zenon DEF IsStream
  <1>7. /\ written' = 0 /\ sourceEnded' = FALSE /\ inbox' = <<>> /\ busy' = Idle
        /\ streamStart' = FALSE /\ streamObject' = FALSE /\ streamEnd' = FALSE
        /\ streamInlineCount' = -1 /\ resultCount' = 0
        /\ outbox' = <<>> /\ flowing' = TRUE /\ ended' = FALSE
        /\ resBuffer' = <<>> /\ received' = <<>> /\ body' = -1 /\ answer' = "open"
    <2>1. /\ flowing \in BOOLEAN /\ sourceEnded \in BOOLEAN /\ streamStart \in BOOLEAN
          /\ streamObject \in BOOLEAN /\ streamEnd \in BOOLEAN /\ ended \in BOOLEAN
      BY DEF ResponseInv, FullInv, StreamInv, WritableOK, PipeOK
    <2> QED
      BY <1>1, <1>2, <1>5, <2>1, Zenon DEF Unused
  <1>8. Untouched'
    BY <1>6, <1>7, Zenon DEF Untouched
  <1>9. NothingLost' /\ CountIsRows' /\ OverInv'
    BY <1>7, Zenon DEF NothingLost, CountIsRows, OverInv
  <1> QED
    BY <1>8, <1>9 DEF Connected

(* Steps of the stages leave the stream as it is.                              *)
LEMMA StageStep ==
    ASSUME ResponseInv, UNCHANGED streamVars, exec = "none" => answer = "open"
    PROVE  ResponseInv'
  <1>1. /\ UNCHANGED <<source, inbox, busy, flags, pipeline, ended, exec, answer, body>>
    BY DEF streamVars, verdict
  <1>2. /\ UNCHANGED <<way, script, streamEnabled, streamEnd, flowing>>
        /\ UNCHANGED <<resBuffer, received, exec, answer, body>>
    BY <1>1 DEF source, flags, pipeline
  <1>3. answer' \in {"open", "ended", "failed", "crashed"}
    BY <1>2 DEF ResponseInv, FullInv, StreamInv, WritableOK
  <1>4. FullInv'
    BY <1>1, <1>3, FullStays DEF ResponseInv
  <1>5. (Regular <=> Regular') /\ Document' = Document /\ Sent' = Sent
    <2>1. (Regular <=> Regular') /\ Document' = Document
      BY <1>2, SameAnswer
    <2>2. Sent' = Sent
      BY <1>2 DEF Sent
    <2> QED
      BY <2>1, <2>2
  <1>6. NothingLost'
    BY <1>2, <1>5, Zenon DEF ResponseInv, NothingLost
  <1>7. CountIsRows'
    <2>1. Counted' = Counted
      BY <1>2, Zenon DEF Counted
    <2> QED
      BY <1>2, <2>1, Zenon DEF ResponseInv, CountIsRows
  <1>8. OverInv'
    BY <1>2 DEF OverInv
  <1> QED
    BY <1>4, <1>6, <1>7, <1>8 DEF ResponseInv

(* An answer without a stream, or an error.                                    *)
LEMMA AnswerStep ==
    ASSUME ResponseInv, outcome' = outcome, outcome \in {"done", "error"},
           answer' \in {"ended", "failed"}, exec = "none" \/ answer' = "failed",
           UNCHANGED <<source, inbox, busy, flags, pipeline, ended, exec, body>>
    PROVE  ResponseInv'
  <1>1. FullInv'
    BY FullStays DEF ResponseInv
  <1>2. NothingLost'
    BY Zenon DEF NothingLost
  <1>3. CountIsRows'
    <2>1. script' = script /\ body' = body
      BY DEF source
    <2>2. Counted' = Counted
      BY <2>1, Zenon DEF Counted
    <2> QED
      BY <2>1, <2>2, Zenon DEF ResponseInv, CountIsRows
  <1>4. OverInv'
    BY DEF OverInv
  <1> QED
    BY <1>1, <1>2, <1>3, <1>4 DEF ResponseInv

(* Every step of a response.                                                   *)
LEMMA ResponseStep == ResponseInv /\ [ResponseNext]_responseVars => ResponseInv' \/ Connected'
  <1> SUFFICES ASSUME ResponseInv, [ResponseNext]_responseVars
               PROVE  ResponseInv' \/ Connected'
    OBVIOUS
  <1>1. ASSUME exec # "none", StreamNext
        PROVE  ResponseInv'
    <2>1. FullInv' /\ exec' # "none"
      BY <1>1, FullStep DEF ResponseInv
    <2>2. NothingLost' /\ CountIsRows'
      BY <1>1, NothingLostStep, CountIsRowsStep DEF ResponseInv
    <2> QED
      BY <2>1, <2>2 DEF ResponseInv, OverInv
  <1>2. CASE Working
    BY <1>2, StageStep DEF Working
  <1>3. CASE StartStream
    BY <1>3, StartStep
  <1>4. CASE Streaming
    BY <1>1, <1>4 DEF Streaming, StreamNext
  <1>5. CASE StageResumes
    <2>1. exec # "none" /\ UNCHANGED streamVars
      BY <1>5 DEF StageResumes
    <2> QED
      BY <2>1, StageStep
  <1>6. CASE Deliver
    <2>1. outcome = "done" /\ outcome' = outcome
      BY <1>6 DEF Deliver, processorVars, stageVars
    <2>2. CASE exec # "none" /\ (Respond \/ RespondError)
      BY <1>1, <2>2 DEF StreamNext
    <2>3. CASE /\ exec = "none" /\ answer' \in {"ended", "failed"}
               /\ UNCHANGED <<source, inbox, busy, flags, pipeline, ended, exec, body>>
      BY <2>1, <2>3, AnswerStep
    <2> QED
      BY <1>6, <2>2, <2>3 DEF Deliver
  <1>7. CASE DeliverError
    <2>1. /\ outcome = "error" /\ outcome' = outcome /\ answer' = "failed"
          /\ UNCHANGED <<source, inbox, busy, flags, pipeline, ended, exec, body>>
      BY <1>7 DEF DeliverError, processorVars, stageVars
    <2> QED
      BY <2>1, AnswerStep
  <1>8. CASE UNCHANGED responseVars
    <2>1. outcome' = outcome /\ UNCHANGED streamVars
      BY <1>8 DEF responseVars, processorVars, stageVars
    <2>2. CASE exec = "none" => answer = "open"
      BY <2>1, <2>2, StageStep
    <2>3. CASE exec = "none" /\ answer # "open"
      <3>1. /\ UNCHANGED <<source, inbox, busy, flags, pipeline, ended, exec, body>>
            /\ answer' = answer
        BY <2>1 DEF streamVars, verdict
      <3>2. outcome \in {"done", "error"}
        BY <2>3 DEF ResponseInv, OverInv
      <3>3. answer' \in {"open", "ended", "failed", "crashed"}
        BY <3>1 DEF ResponseInv, FullInv, StreamInv, WritableOK
      <3>4. FullInv'
        BY <3>1, <3>3, FullStays DEF ResponseInv
      <3>5. NothingLost'
        BY <2>3, <3>1, Zenon DEF NothingLost
      <3>6. CountIsRows'
        <4>1. script' = script /\ body' = body
          BY <3>1 DEF source
        <4>2. Counted' = Counted
          BY <4>1, Zenon DEF Counted
        <4> QED
          BY <4>1, <4>2, Zenon DEF ResponseInv, CountIsRows
      <3>7. OverInv'
        BY <2>1, <3>2 DEF OverInv
      <3> QED
        BY <3>4, <3>5, <3>6, <3>7 DEF ResponseInv
    <2> QED
      BY <2>2, <2>3
  <1>9. CASE AfterAnswer
    <2>1. LateFailure /\ busy # Idle
      BY <1>9 DEF AfterAnswer, LateFailure, Converting
    <2>2. exec # "none"
      BY <2>1 DEF ResponseInv, FullInv, StreamInv, WaitInv, Unused
    <2> QED
      BY <1>1, <2>1, <2>2 DEF StreamNext
  <1> QED
    BY <1>2, <1>3, <1>4, <1>5, <1>6, <1>7, <1>8, <1>9 DEF ResponseNext

(* A response that was just connected keeps the whole invariant.               *)
LEMMA ConnectedInv == Connected => ResponseInv
  BY UntouchedInv DEF Connected, ResponseInv

(* Every request starts with such a response.                                  *)
LEMMA ResponseStarts == ResponseInit => ResponseInv
  <1> SUFFICES ASSUME ResponseInit
               PROVE  Connected
    BY ConnectedInv
  <1>1. Untouched
    <2>1. "sink" \in Ways /\ <<>> \in Seq(Chunk) /\ "sink" # "media"
      BY DEF Ways
    <2> QED
      BY <2>1, Zenon DEF ResponseInit, NothingStreamed, Untouched
  <1>2. answer = "open" /\ body = -1
    BY DEF ResponseInit, NothingStreamed
  <1> QED
    BY <1>1, <1>2, Zenon DEF Connected, NothingLost, CountIsRows, OverInv

(* For all methods, streamed rows and high-water marks, the invariant holds in *)
(* every state of every request.                                               *)
LEMMA ResponseInvariant == ResponseSpec => []ResponseInv
  BY ResponseStarts, ResponseStep, ConnectedInv, PTL DEF ResponseSpec

-----------------------------------------------------------------------------
(* The variables of a stream keep their types, the processor flows only while  *)
(* the response has room, and nothing is written after the end.                *)
THEOREM StreamTypes == ResponseSpec => []StreamTypeOK
  <1>1. ResponseInv => StreamTypeOK
    BY DEF ResponseInv, FullInv, StreamInv, WritableOK, PipeOK, StreamTypeOK
  <1> QED
    BY <1>1, ResponseInvariant, PTL

(* What the client has been sent of a regular stream is at any time the        *)
(* beginning of the right answer: _transform, _flush, the back-pressure of     *)
(* pause() and resume(), failing conversions and a request that ends early     *)
(* neither drop, double, reorder nor wrongly separate a row.                   *)
THEOREM SentInOrderHolds == ResponseSpec => []SentInOrder
  <1>1. ResponseInv => SentInOrder
    BY SentInOrderFrom DEF ResponseInv
  <1> QED
    BY <1>1, ResponseInvariant, PTL

(* A streamed response that ended normally is complete, unless the processor   *)
(* was paused when the handler removed its listeners, or the method returned   *)
(* its source while conversions were running.                                  *)
THEOREM NothingLostHolds == ResponseSpec => []NothingLost
  <1>1. ResponseInv => NothingLost
    BY DEF ResponseInv
  <1> QED
    BY <1>1, ResponseInvariant, PTL

(* When the $count of a streamed collection is answered, all of its rows have  *)
(* been counted.                                                               *)
THEOREM CountIsRowsHolds == ResponseSpec => []CountIsRows
  <1>1. ResponseInv => CountIsRows
    BY DEF ResponseInv
  <1> QED
    BY <1>1, ResponseInvariant, PTL

-----------------------------------------------------------------------------
(* The count of what was streamed.                                             *)

(* A URL ends in its $value; what a streaming stage leaves is a stream, and    *)
(* what a $count makes of it is counted, only behind a stream that is not      *)
(* sent.  A verb that is not a GET goes on with a number as with something it  *)
(* created, and ends with it only where a stage listens; and a request that    *)
(* was answered has counted what it did not send.                              *)
ValueInv ==
    /\ outcome = "load" => navigation = <<>>
    /\ \A i \in DOMAIN navigation :
           /\ navigation[i].name = "$value" => navigation[i].type = "ValueExpression"
           /\ IsLast(navigation[i]) => i = Len(navigation) /\ visited = Len(request.path)
FreshInv == outcome \in {"load", "visiting"} => result = NoResult /\ exec = "none"
ResultInv ==
    outcome \in {"running", "streaming", "done"} =>
        /\ "body" \in DOMAIN result
        /\ outcome = "streaming" =>
               result.body = <<"stream">> /\ Part.type # "CountExpression"
        /\ result.body[1] \in {"stream", "counted"} => outcome = "streaming" \/ exec # "none"
        /\ exec # "none" /\ streamEnabled =>
               /\ result.body[1] # "counted"
               /\ \A i \in (stage + 1)..Len(navigation) :
                      navigation[i].type # "CountExpression"
NumberInv ==
    outcome \in {"running", "streaming", "done"} /\ result.body[1] \in {"count", "counted"} =>
        \/ request.verb = "get"
        \/ status = 201 /\ (outcome = "done" => Heard)
EndedInv ==
    answer = "ended" =>
        /\ outcome = "done"
        /\ exec # "none" /\ ~streamEnabled => body # -1
CountedInv == ValueInv /\ FreshInv /\ ResultInv /\ NumberInv /\ EndedInv

(* The visitor makes parts of segments, and the last of them is $value's.      *)
LEMMA ValueIsLast ==
    ASSUME RequestInv, ValueInv, Visit
    PROVE  ValueInv'
  <1> DEFINE s == request.path[visited + 1]
  <1>1. /\ outcome = "visiting" /\ visited < Len(request.path)
        /\ visited' = visited + 1 /\ UNCHANGED <<request, outcome>>
        /\ navigation' = VisitSegment(navigation, s)
    BY DEF Visit, stageVars
  <1>2. /\ request.path \in Seq(Segment) /\ navigation \in Seq(Segment)
        /\ visited \in 0..Len(request.path) /\ Len(request.path) \in Nat
        /\ server \in Servers /\ request \in Requests[server.name]
    BY <1>1, LenProperties DEF RequestInv, NavigationInv
  <1>3. visited + 1 \in DOMAIN request.path
    BY <1>1, <1>2, LenProperties
  <1>4. /\ s \in Segment
        /\ s.name = "$value" => s.type = "ValueExpression"
        /\ IsLast(s) => visited' = Len(request.path)
    <2>1. IsPath(server, request.path)
      BY <1>2, ModelledAssumption, Zenon DEF IsModelled
    <2>2. /\ IsLast(s) => visited + 1 = Len(request.path)
          /\ s.name = "$value" => s.type = "ValueExpression"
      BY <1>3, <2>1, Zenon DEF IsPath
    <2>3. s \in Segment
      BY <1>2, <1>3, ElementOfSeq
    <2> QED
      BY <1>1, <2>2, <2>3
  <1>5. /\ DOMAIN navigation = 1..Len(navigation) /\ Len(navigation) \in Nat
        /\ \A i \in DOMAIN navigation : navigation[i] \in Segment
    BY <1>2, LenProperties, ElementOfSeq
  <1>6. \A i \in DOMAIN navigation :
            navigation[i].name # "$value" /\ navigation[i].type # "RefExpression"
    BY <1>1, <1>2 DEF ValueInv, IsLast
  <1> HIDE DEF s
  <1>7. CASE s.type \in {"SimpleKey", "CompoundKey"}
    <2>1. navigation' = [navigation EXCEPT ![Len(navigation)].key = s.key]
      BY <1>1, <1>7 DEF VisitSegment
    <2>2. DOMAIN navigation' = DOMAIN navigation
      BY <2>1
    <2>3. \A i \in DOMAIN navigation : /\ navigation'[i].name = navigation[i].name
                                       /\ navigation'[i].type = navigation[i].type
      BY <1>5, <2>1 DEF Segment
    <2> QED
      BY <1>1, <1>6, <2>2, <2>3 DEF ValueInv, IsLast
  <1>8. CASE navigation' = navigation
    BY <1>1, <1>6, <1>8 DEF ValueInv, IsLast
  <1>9. CASE navigation' = Append(navigation, s)
    <2>1. /\ Len(navigation') = Len(navigation) + 1
          /\ DOMAIN navigation' = 1..(Len(navigation) + 1)
          /\ navigation'[Len(navigation) + 1] = s
          /\ \A i \in 1..Len(navigation) : navigation'[i] = navigation[i]
      <3>1. Append(navigation, s) \in Seq(Segment)
        BY <1>2, <1>4
      <3> QED
        BY <1>2, <1>4, <1>9, <3>1, AppendProperties, LenProperties
    <2> QED
      BY <1>1, <1>4, <1>5, <1>6, <2>1 DEF ValueInv, IsLast
  <1> QED
    BY <1>1, <1>7, <1>8, <1>9 DEF VisitSegment

(* A stage changes nothing of the request but keys of its parts.               *)
LEMMA StagesKeepParts ==
    ASSUME NavigationInv,
           \/ SkipStage \/ EntitySetName
           \/ EntityCollectionNavigationProperty \/ EntityNavigationProperty
           \/ Property \/ QualifiedTypeName \/ BoundOperation \/ OperationImport
           \/ Count(resultCount) \/ RawValue \/ Reference
    PROVE  UNCHANGED <<request, visited>> /\ SameParts
  <1>1. ASSUME UNCHANGED requestVars
        PROVE  UNCHANGED <<request, visited>> /\ SameParts
    BY <1>1, PartsUnchanged DEF requestVars
  <1>2. ASSUME NEW c, NEW part, NEW filter, Read(c, part, filter)
        PROVE  UNCHANGED <<request, visited>> /\ SameParts
    <2>1. \/ UNCHANGED requestVars
          \/ /\ UNCHANGED <<request, visited>>
             /\ navigation' = [navigation EXCEPT ![Index].key = part.key]
      BY <1>2, Zenon DEF Read, Fails
    <2> QED
      BY <1>1, <2>1, KeyGiven
  <1>3. ASSUME NEW n, NEW key, NEW filter, Navigate(n, key, filter)
        PROVE  UNCHANGED <<request, visited>> /\ SameParts
    <2>1. \/ UNCHANGED requestVars
          \/ Read(ControllerOf(n.target), [Part EXCEPT !.key = key], filter)
      BY <1>3, Zenon DEF Navigate, NavigateByMethod
    <2> QED
      BY <1>1, <1>2, <2>1
  <1>4. CASE SkipStage \/ QualifiedTypeName \/ Count(resultCount)
    BY <1>1, <1>4 DEF SkipStage, QualifiedTypeName, Count, Answers, Stays, Fails
  <1>5. CASE EntitySetName
    BY <1>2, <1>5, Zenon DEF EntitySetName
  <1>6. CASE EntityCollectionNavigationProperty \/ EntityNavigationProperty
    <2>1. UNCHANGED requestVars \/ \E n, key, filter : Navigate(n, key, filter)
      BY <1>6, Zenon DEF EntityCollectionNavigationProperty, EntityNavigationProperty, Fails
    <2> QED
      BY <1>1, <1>3, <2>1
  <1>7. CASE Property
    <2>1. UNCHANGED requestVars
      BY <1>7, Zenon DEF Property, Fails
    <2> QED
      BY <1>1, <2>1
  <1>8. CASE BoundOperation \/ OperationImport
    <2>1. UNCHANGED requestVars
      BY <1>8, Zenon DEF BoundOperation, OperationImport, Fails, FailsCalled, Stays
    <2> QED
      BY <1>1, <2>1
  <1>9. CASE RawValue \/ Reference
    <2>1. UNCHANGED requestVars
      BY <1>9, ZenonT(30) DEF RawValue, Reference, Fails, FailsCalled, Answers, Stays
    <2> QED
      BY <1>1, <2>1
  <1> QED
    BY <1>4, <1>5, <1>6, <1>7, <1>8, <1>9

(* The stages and the streams leave the parts as they are.                     *)
LEMMA ValueStays ==
    ASSUME ValueInv, outcome # "load", outcome' # "load",
           UNCHANGED <<request, visited>>, SameParts \/ UNCHANGED navigation
    PROVE  ValueInv'
  BY DEF ValueInv, SameParts, IsLast

-----------------------------------------------------------------------------
(* What a stage may leave: rows to stream, an error, or a result that is no    *)
(* stream and no number, or the one it found, or, behind $count, a number.     *)
Plain(b) == b[1] \notin {"stream", "counted", "count"}
Created == request.verb = "get" \/ status' = 201
Leaves ==
    \/ outcome' = "error"
    \/ /\ outcome' = "streaming" /\ stage' = stage
       /\ "body" \in DOMAIN result' /\ result'.body = <<"stream">>
       /\ Part.type # "CountExpression"
    \/ /\ outcome' = "running" /\ stage' = Index
       /\ "body" \in DOMAIN result'
       /\ \/ Plain(result'.body)
          \/ result'.body = result.body /\ (status' = status \/ Created)
          \/ /\ Part.type = "CountExpression" /\ Created
             /\ result'.body[1] = "count" \/ result.body[1] = "stream"

LEMMA StageCounts ==
    ASSUME RequestInv, CountedInv, outcome = "running", stage < Len(navigation),
           answer = "open", UNCHANGED <<request, visited, streamVars>>, SameParts, Leaves
    PROVE  CountedInv'
  <1>1. ValueInv'
    BY ValueStays DEF CountedInv, Leaves
  <1>2. UNCHANGED <<exec, answer, streamEnabled>>
    BY DEF streamVars, source, verdict
  <1>3. EndedInv' /\ FreshInv'
    BY <1>2 DEF EndedInv, FreshInv, Leaves
  <1>4. /\ Len(navigation) \in Nat /\ stage \in Nat /\ Index = stage + 1
        /\ DOMAIN navigation = 1..Len(navigation) /\ Index \in DOMAIN navigation
    BY LenProperties DEF RequestInv, NavigationInv, StageInv, Index
  <1>10. /\ Len(navigation') = Len(navigation)
         /\ \A i \in DOMAIN navigation : navigation'[i].type = navigation[i].type
    BY DEF SameParts
  <1>5. /\ "body" \in DOMAIN result
        /\ result.body[1] \in {"stream", "counted"} => exec # "none"
        /\ exec # "none" /\ streamEnabled =>
               /\ result.body[1] # "counted"
               /\ \A i \in (stage + 1)..Len(navigation) :
                      navigation[i].type # "CountExpression"
    BY DEF CountedInv, ResultInv
  <1>6. exec # "none" /\ streamEnabled => Part.type # "CountExpression"
    BY <1>4, <1>5 DEF Part
  <1>7. CASE outcome' = "error"
    BY <1>1, <1>3, <1>7 DEF CountedInv, ResultInv, NumberInv
  <1>8. CASE outcome' = "streaming"
    <2>1. stage' = stage /\ Part'.type = Part.type
      <3>1. stage' = stage
        BY <1>8 DEF Leaves
      <3>2. Part'.type = navigation'[Index].type
        BY <3>1 DEF Part, Index
      <3> QED
        BY <1>4, <1>10, <3>1, <3>2 DEF Part
    <2>2. /\ "body" \in DOMAIN result' /\ result'.body = <<"stream">>
          /\ Part'.type # "CountExpression"
      BY <1>8, <2>1 DEF Leaves
    <2>3. result'.body[1] = "stream"
      BY <2>2
    <2>4. exec # "none" /\ streamEnabled =>
              \A i \in (stage' + 1)..Len(navigation') :
                  navigation'[i].type # "CountExpression"
      BY <1>2, <1>4, <1>5, <1>10, <2>1
    <2> HIDE DEF Part
    <2>5. ResultInv'
      BY <1>2, <1>8, <2>2, <2>3, <2>4 DEF ResultInv
    <2>6. NumberInv'
      BY <2>3 DEF NumberInv
    <2> QED
      BY <1>1, <1>3, <2>5, <2>6 DEF CountedInv
  <1>9. CASE outcome' = "running"
    <2>1. /\ stage' = stage + 1 /\ "body" \in DOMAIN result'
          /\ \/ Plain(result'.body)
             \/ result'.body = result.body /\ (status' = status \/ Created)
             \/ /\ Part.type = "CountExpression" /\ Created
                /\ result'.body[1] = "count" \/ result.body[1] = "stream"
      BY <1>4, <1>9 DEF Leaves
    <2>2. result'.body[1] \in {"stream", "counted"} => exec # "none"
      BY <1>5, <2>1 DEF Plain
    <2>3. exec # "none" /\ streamEnabled => result'.body[1] # "counted"
      BY <1>5, <1>6, <2>1 DEF Plain
    <2>4. \A i \in (stage' + 1)..Len(navigation) :
              i \in (stage + 1)..Len(navigation) /\ i \in DOMAIN navigation
      BY <1>4, <2>1
    <2>6. exec' # "none" /\ streamEnabled' =>
              \A i \in (stage' + 1)..Len(navigation') :
                  navigation'[i].type # "CountExpression"
      BY <1>2, <1>5, <1>10, <2>4
    <2>5. ResultInv'
      BY <1>2, <1>9, <2>1, <2>2, <2>3, <2>6 DEF ResultInv
    <2>7. NumberInv'
      <3>1. result'.body[1] \in {"count", "counted"} =>
                request.verb = "get" \/ status' = 201
        BY <2>1 DEF Plain, Created, CountedInv, NumberInv
      <3> QED
        BY <1>9, <3>1 DEF NumberInv
    <2> QED
      BY <1>1, <1>3, <2>5, <2>7 DEF CountedInv
  <1> QED
    BY <1>7, <1>8, <1>9 DEF Leaves

(* What the methods return is no stream.                                       *)
LEMMA ReturnedIsPlain ==
    /\ \A c, fn, params, filter : Plain(Returned(c, fn, params, filter))
    /\ \A T, id : Plain(Found(T, id)) /\ Plain(One(T, id))
    /\ \A n, id : Plain(Related(n, id))
    /\ \A T, id : Plain(<<"entity", T, id>>)
    /\ Plain(<<"none">>)
  <1>1. /\ \A T, id : <<"entity", T, id>>[1] = "entity" /\ <<"rows", T, id>>[1] = "rows"
        /\ <<"none">>[1] = "none" /\ <<"empty">>[1] = "empty"
    OBVIOUS
  <1>2. /\ \A T, id : Plain(<<"entity", T, id>>) /\ Plain(<<"rows", T, id>>)
        /\ Plain(<<"none">>) /\ Plain(<<"empty">>)
    BY <1>1 DEF Plain
  <1>3. \A T, id : Plain(Found(T, id))
    BY <1>2, Zenon DEF Found
  <1>4. \A T, id : Plain(One(T, id))
    BY <1>2, <1>3, Zenon DEF One
  <1>5. \A n, id : Plain(Related(n, id))
    BY <1>2, <1>3, Zenon DEF Related
  <1>6. \A c, fn, params, filter : Plain(Returned(c, fn, params, filter))
    BY <1>2, <1>4, Zenon DEF Returned
  <1> QED
    BY <1>2, <1>3, <1>4, <1>5, <1>6

(* __read, after the method has returned.                                      *)
LEMMA ReadLeaves ==
    ASSUME outcome = "running", NEW c, NEW verb, NEW T, NEW given, NEW b, Plain(b),
           ReadReturns(c, verb, T, given, b)
    PROVE  Leaves
  <1>1. CASE outcome' = "error"
    BY <1>1 DEF Leaves
  <1>2. CASE outcome' # "error"
    <2> DEFINE type == IF b # <<"none">> \/ given THEN T ELSE None
               left == IF verb \in {"patch", "delete"} THEN <<"none">> ELSE b
    <2>1. /\ result' = [type |-> type, body |-> left] /\ stage' = Index
          /\ outcome' = outcome
      BY <1>2, Zenon DEF ReadReturns
    <2>2. Plain(left)
      BY ReturnedIsPlain, Zenon
    <2> HIDE DEF type, left
    <2>3. "body" \in DOMAIN result' /\ result'.body = left
      BY <2>1
    <2> QED
      BY <2>1, <2>2, <2>3 DEF Leaves
  <1> QED
    BY <1>1, <1>2

LEMMA StreamLeaves ==
    ASSUME StreamsOut, "body" \in DOMAIN result, Part.type # "CountExpression"
    PROVE  Leaves
  <1>1. result' = [type |-> None, body |-> <<"stream">>]
    BY DEF StreamsOut
  <1>2. "body" \in DOMAIN result' /\ result'.body = <<"stream">>
    BY <1>1
  <1> QED
    BY <1>2 DEF StreamsOut, Leaves

LEMMA FailsLeaves ==
    ASSUME NEW code, Fails(code)
    PROVE  Leaves
  BY DEF Fails, Leaves

LEMMA StaysLeaves ==
    ASSUME outcome = "running", NEW b, NEW code, Stays(b, code),
           \/ Plain(b)
           \/ b = result.body /\ (code = status \/ request.verb = "get" \/ code = 201)
           \/ /\ Part.type = "CountExpression" /\ (request.verb = "get" \/ code = 201)
              /\ b[1] = "count" \/ result.body[1] = "stream"
    PROVE  Leaves
  <1>1. /\ result' = [type |-> result.type, body |-> b] /\ stage' = Index
        /\ outcome' = outcome /\ status' = code
    BY DEF Stays
  <1>2. "body" \in DOMAIN result' /\ result'.body = b
    BY <1>1
  <1> QED
    BY <1>1, <1>2 DEF Leaves, Created

(* Or nothing, with a 204.                                                     *)
LEMMA AnswersLeaves ==
    ASSUME outcome = "running", NEW b, NEW code, Answers(b, code),
           \/ code = 204
           \/ b = result.body /\ (request.verb = "get" \/ code = 201)
           \/ Plain(b)
           \/ /\ Part.type = "CountExpression" /\ (request.verb = "get" \/ code = 201)
              /\ b[1] = "count" \/ result.body[1] = "stream"
    PROVE  Leaves
  <1>1. Plain(<<"none">>)
    BY DEF Plain
  <1>2. CASE code = 204
    BY <1>1, <1>2, StaysLeaves DEF Answers
  <1>3. CASE code # 204
    <2>1. Stays(b, code)
      BY <1>3, Zenon DEF Answers
    <2> QED
      BY <1>3, <2>1, StaysLeaves
  <1> QED
    BY <1>2, <1>3

-----------------------------------------------------------------------------
(* What each stage leaves.                                                     *)

LEMMA ReadStageLeaves ==
    ASSUME outcome = "running", "body" \in DOMAIN result, Part.type # "CountExpression",
           NEW c, NEW part, NEW filter, Read(c, part, filter)
    PROVE  Leaves
  <1> PICK fn, params :
         IF fn = NoMethod THEN Fails(501)
         ELSE IF <<c, fn.call>> \in server.streams /\ Verb = "get"
              THEN StreamsOut
              ELSE IF Verb = "get"
              THEN \E b \in {Returned(c, fn, params, filter)} :
                       ReadReturns(c, Verb, ElementType(c), FALSE, b)
              ELSE \E b \in {<<"none">>, <<"entity", ElementType(c), 9>>} :
                       ReadReturns(c, Verb, ElementType(c), FALSE, b)
    BY Zenon DEF Read
  <1>1. CASE Fails(501)
    BY <1>1, FailsLeaves
  <1>2. CASE StreamsOut
    BY <1>2, StreamLeaves
  <1>3. CASE ~Fails(501) /\ ~StreamsOut
    <2>1. \E b : Plain(b) /\ ReadReturns(c, Verb, ElementType(c), FALSE, b)
      BY <1>3, ReturnedIsPlain, Zenon
    <2> QED
      BY <2>1, ReadLeaves
  <1> QED
    BY <1>1, <1>2, <1>3

LEMMA NavigateLeaves ==
    ASSUME outcome = "running", "body" \in DOMAIN result, Part.type # "CountExpression",
           NEW n, NEW key, NEW filter, Navigate(n, key, filter)
    PROVE  Leaves
  <1>1. \/ \E fn : NavigateByMethod(fn, n)
        \/ Read(ControllerOf(n.target), [Part EXCEPT !.key = key], filter)
    BY Zenon DEF Navigate
  <1>2. ASSUME NEW fn, NavigateByMethod(fn, n)
        PROVE  Leaves
    <2> DEFINE left == IF Verb # "get" THEN <<"none">>
                       ELSE IF Part.key # <<>> THEN Found(n.target, Head(Part.key).value)
                       ELSE Related(n, IF n.many THEN Owner ELSE OwnerLink)
    <2>1. ReadReturns(ctrl, Verb, n.target, TRUE, left)
      BY <1>2, Zenon DEF NavigateByMethod
    <2>2. Plain(left)
      BY ReturnedIsPlain, Zenon
    <2> HIDE DEF left
    <2> QED
      BY <2>1, <2>2, ReadLeaves
  <1> QED
    BY <1>1, <1>2, ReadStageLeaves

LEMMA EntityLeaves ==
    ASSUME "body" \in DOMAIN result,
           \/ EntitySetName \/ EntityCollectionNavigationProperty
           \/ EntityNavigationProperty
    PROVE  Leaves
  <1>1. /\ outcome = "running"
        /\ Part.type \in {"EntitySetName", "EntityCollectionNavigationProperty",
                          "EntityNavigationProperty"}
    BY DEF EntitySetName, EntityCollectionNavigationProperty, EntityNavigationProperty, At
  <1>2. CASE EntitySetName
    BY <1>1, <1>2, ReadStageLeaves DEF EntitySetName
  <1>3. CASE EntityCollectionNavigationProperty
    BY <1>1, <1>3, NavigateLeaves, FailsLeaves DEF EntityCollectionNavigationProperty
  <1>4. CASE EntityNavigationProperty
    BY <1>1, <1>4, NavigateLeaves, FailsLeaves DEF EntityNavigationProperty
  <1> QED
    BY <1>2, <1>3, <1>4

LEMMA PropertyLeaves ==
    ASSUME "body" \in DOMAIN result, Property
    PROVE  Leaves
  <1>1. outcome = "running" /\ Part.type # "CountExpression"
    BY DEF Property, At, Properties
  <1> DEFINE value == IF result.body[1] = "entity"
                      THEN <<"value", Part.name, result.type, result.body[3]>>
                      ELSE <<"none">>
  <1>2. \/ Fails(500)
        \/ result' = NoResult /\ stage' = Index /\ UNCHANGED outcome
        \/ StreamsOut
        \/ /\ result' = [type |-> Part.name, body |-> value]
           /\ stage' = Index /\ UNCHANGED outcome
    BY Zenon DEF Property
  <1>3. Plain(value) /\ Plain(<<"none">>)
    BY DEF Plain
  <1> HIDE DEF value
  <1>4. CASE result' = NoResult /\ stage' = Index /\ UNCHANGED outcome
    BY <1>1, <1>3, <1>4 DEF NoResult, Leaves
  <1>5. CASE /\ result' = [type |-> Part.name, body |-> value]
             /\ stage' = Index /\ UNCHANGED outcome
    <2>1. "body" \in DOMAIN result' /\ result'.body = value
      BY <1>5
    <2> QED
      BY <1>1, <1>3, <1>5, <2>1 DEF Leaves
  <1> QED
    BY <1>1, <1>2, <1>4, <1>5, FailsLeaves, StreamLeaves

LEMMA TypeNameLeaves ==
    ASSUME "body" \in DOMAIN result, QualifiedTypeName \/ SkipStage
    PROVE  Leaves
  <1>1. CASE QualifiedTypeName
    <2>1. /\ outcome = "running" /\ outcome' = outcome /\ stage' = Index
          /\ result' = [type |-> Part.name, body |-> result.body]
      BY <1>1 DEF QualifiedTypeName, At
    <2>2. "body" \in DOMAIN result' /\ result'.body = result.body /\ status' = status
      BY <1>1, <2>1 DEF QualifiedTypeName
    <2> QED
      BY <2>1, <2>2 DEF Leaves
  <1>2. CASE SkipStage
    BY <1>2 DEF SkipStage, Leaves
  <1> QED
    BY <1>1, <1>2

LEMMA OperationLeaves ==
    ASSUME BoundOperation \/ OperationImport
    PROVE  Leaves
  <1>1. outcome = "running"
    BY DEF BoundOperation, OperationImport, At
  <1>2. Plain(<<"none">>) /\ \A on, name, b : Plain(<<"op", on, name, b>>)
    BY DEF Plain
  <1>3. Stays(<<"none">>, 204) => Leaves
    BY <1>1, <1>2, StaysLeaves
  <1>4. ASSUME NEW on, NEW name, NEW b, Stays(<<"op", on, name, b>>, 200)
        PROVE  Leaves
    BY <1>1, <1>2, <1>4, StaysLeaves
  <1>5. FailsCalled(500) => Leaves
    BY DEF FailsCalled, Leaves
  <1>6. CASE BoundOperation
    <2> DEFINE ofEntity == {o \in server.entityOps : o.on = result.type /\ o.name = Part.name}
               known == IF ofEntity # {} THEN ofEntity ELSE OperationsOf(ctrl)
    <2>1. CASE Fails(500)
      BY <2>1, FailsLeaves
    <2>2. CASE ~Fails(500)
      <3>1. PICK o : IF \E k \in known : k.action /\ ~k.returns THEN Stays(<<"none">>, 204)
                     ELSE IF o.returns THEN Stays(<<"op", o.on, o.name, result.body>>, 200)
                     ELSE FailsCalled(500)
        BY <1>6, <2>2, Zenon DEF BoundOperation
      <3> HIDE DEF known
      <3>2. ASSUME Stays(<<"op", o.on, o.name, result.body>>, 200)
            PROVE  Leaves
        BY <1>4, <3>2
      <3> QED
        BY <1>3, <1>5, <3>1, <3>2, Zenon
    <2> QED
      BY <2>1, <2>2
  <1>7. CASE OperationImport
    <2> DEFINE o == CHOOSE o \in server.imports : o.name = Part.name
    <2>1. \/ Stays(<<"none">>, 204)
          \/ Stays(<<"op", "server", o.name, <<"none">>>>, 200)
      BY <1>7, Zenon DEF OperationImport
    <2> HIDE DEF o
    <2> QED
      BY <1>3, <1>4, <2>1
  <1> QED
    BY <1>6, <1>7

LEMMA CountLeaves ==
    ASSUME Count(resultCount)
    PROVE  Leaves
  <1> DEFINE n == CASE result.body[1] = "rows" -> <<"count", Cardinality(result.body[3])>>
                    [] result.body[1] = "stream" -> <<"counted">>
                    [] OTHER -> <<"count", 0>>
  <1>1. /\ outcome = "running" /\ Part.type = "CountExpression"
        /\ Fails(500) \/ \E code : Answers(n, code) /\ (request.verb = "get" \/ code \in {201, 204})
    BY DEF Count, At
  <1>2. n[1] = "count" \/ result.body[1] = "stream"
    OBVIOUS
  <1> HIDE DEF n
  <1>3. ASSUME NEW code, Answers(n, code), request.verb = "get" \/ code \in {201, 204}
        PROVE  Leaves
    BY <1>1, <1>2, <1>3, AnswersLeaves
  <1> QED
    BY <1>1, <1>3, FailsLeaves

LEMMA RawValueLeaves ==
    ASSUME "body" \in DOMAIN result, RawValue
    PROVE  Leaves
  <1>1. outcome = "running" /\ Part.type # "CountExpression"
    BY DEF RawValue, At
  <1>2. \/ Stays(result.body, status) \/ Fails(500) \/ FailsCalled(500) \/ StreamsOut
        \/ \E value : /\ value = result.body \/ \E p, T, id : value = <<"value", p, T, id>>
                      /\ Answers(value, IF result.type \in server.media THEN 204
                                        ELSE StatusOf(request.verb, value))
    BY ZenonT(60) DEF RawValue
  <1>3. \A p, T, id : Plain(<<"value", p, T, id>>)
    BY DEF Plain
  <1>4. FailsCalled(500) => Leaves
    BY DEF FailsCalled, Leaves
  <1>5. ASSUME NEW value, value = result.body \/ Plain(value),
               Answers(value, IF result.type \in server.media THEN 204
                              ELSE StatusOf(request.verb, value))
        PROVE  Leaves
    <2> DEFINE code == IF result.type \in server.media THEN 204
                       ELSE StatusOf(request.verb, value)
    <2>1. code = 204 \/ request.verb = "get" \/ code = 201
      BY DEF StatusOf
    <2>2. Answers(value, code)
      BY <1>5
    <2> HIDE DEF code
    <2> QED
      BY <1>1, <1>5, <2>1, <2>2, AnswersLeaves
  <1> QED
    BY <1>1, <1>2, <1>3, <1>4, <1>5, StreamLeaves, StaysLeaves, FailsLeaves

LEMMA ReferenceLeaves ==
    ASSUME Reference
    PROVE  Leaves
  <1>1. outcome = "running"
    BY DEF Reference, At
  <1>2. \/ \E prev : Stays(<<"link", prev.name, result.type, Owner>>, 200)
        \/ \E code : Fails(code)
        \/ Stays(<<"none">>, 204)
    BY ZenonT(30) DEF Reference
  <1>3. Plain(<<"none">>) /\ \A p, T, id : Plain(<<"link", p, T, id>>)
    BY DEF Plain
  <1>4. ASSUME NEW p, NEW T, NEW id, Stays(<<"link", p, T, id>>, 200)
        PROVE  Leaves
    BY <1>1, <1>3, <1>4, StaysLeaves
  <1>5. Stays(<<"none">>, 204) => Leaves
    BY <1>1, <1>3, StaysLeaves
  <1>6. ASSUME NEW code, Fails(code)
        PROVE  Leaves
    BY <1>6, FailsLeaves
  <1>7. CASE \E prev : Stays(<<"link", prev.name, result.type, Owner>>, 200)
    <2>1. PICK prev : Stays(<<"link", prev.name, result.type, Owner>>, 200)
      BY <1>7
    <2> QED
      BY <2>1, <1>4
  <1> QED
    BY <1>2, <1>5, <1>6, <1>7

-----------------------------------------------------------------------------
(* Every step of the stages.                                                   *)
Unfinished == result.body = <<"none">> \/ (result.body[1] # "entity" /\ ~Heard)

LEMMA WorkingCounts ==
    ASSUME RequestInv, CountedInv, Working
    PROVE  CountedInv'
  <1>1. answer = "open" /\ UNCHANGED streamVars
    BY DEF Working
  <1>2. UNCHANGED <<exec, answer, streamEnabled>> /\ answer' # "ended"
    BY <1>1 DEF streamVars, source, verdict
  <1>3. EndedInv'
    BY <1>2 DEF EndedInv
  <1>4. CASE Load
    <2>1. outcome = "load" /\ outcome' = "load" /\ UNCHANGED <<navigation, result>>
      BY <1>4 DEF Load, requestVars, stageVars
    <2>2. DOMAIN <<>> = {}
      OBVIOUS
    <2>3. ValueInv'
      BY <2>1, <2>2, Zenon DEF CountedInv, ValueInv
    <2> QED
      BY <1>2, <1>3, <2>1, <2>3 DEF CountedInv, FreshInv, ResultInv, NumberInv
  <1>5. CASE Begin
    <2>1. outcome = "load" /\ outcome' = "visiting" /\ UNCHANGED <<navigation, result>>
      BY <1>5 DEF Begin
    <2>2. DOMAIN <<>> = {}
      OBVIOUS
    <2>3. ValueInv'
      BY <2>1, <2>2, Zenon DEF CountedInv, ValueInv
    <2> QED
      BY <1>2, <1>3, <2>1, <2>3 DEF CountedInv, FreshInv, ResultInv, NumberInv
  <1>6. CASE Visit
    <2>1. outcome = "visiting" /\ outcome' = "visiting" /\ UNCHANGED result
      BY <1>6 DEF Visit, stageVars
    <2>2. ValueInv'
      BY <1>6, ValueIsLast DEF CountedInv
    <2> QED
      BY <1>2, <1>3, <2>1, <2>2 DEF CountedInv, FreshInv, ResultInv, NumberInv
  <1>7. CASE PushStages
    <2>1. /\ outcome = "visiting" /\ outcome' \in {"error", "running"}
          /\ UNCHANGED <<request, visited, navigation, result>>
      BY <1>7 DEF PushStages, requestVars
    <2>2. ValueInv'
      BY <2>1, ValueStays DEF CountedInv
    <2>3. result = NoResult /\ exec = "none"
      BY <2>1 DEF CountedInv, FreshInv
    <2>4. "body" \in DOMAIN result /\ result.body[1] = "none"
      BY <2>3 DEF NoResult
    <2> QED
      BY <1>2, <1>3, <2>1, <2>2, <2>3, <2>4 DEF CountedInv, FreshInv, ResultInv, NumberInv
  <1>8. CASE Finish(Heard)
    <2>1. /\ outcome = "running" /\ outcome' \in {"error", "done"}
          /\ UNCHANGED <<request, visited, navigation, result, stage>>
      BY <1>8 DEF Finish, requestVars
    <2>2. ValueInv'
      BY <2>1, ValueStays DEF CountedInv
    <2>3. NumberInv'
      <3>1. /\ outcome' = "done" => status' = status /\ ~(status = 201 /\ Unfinished)
            /\ UNCHANGED <<way, exec>>
        BY <1>1, <1>8, Zenon DEF Finish, Unfinished, streamVars, source, verdict
      <3>2. result.body[1] \in {"count", "counted"} => result.body[1] # "entity"
        OBVIOUS
      <3> QED
        BY <2>1, <3>1, <3>2, Zenon DEF CountedInv, NumberInv, Unfinished, Heard
    <2>4. FreshInv' /\ ResultInv'
      BY <1>2, <2>1 DEF CountedInv, FreshInv, ResultInv
    <2> QED
      BY <1>3, <2>2, <2>3, <2>4 DEF CountedInv
  <1>9. ASSUME outcome = "running", stage < Len(navigation), UNCHANGED <<request, visited>>,
               SameParts, Leaves
        PROVE  CountedInv'
    BY <1>1, <1>9, StageCounts
  <1>10. outcome = "running" => "body" \in DOMAIN result
    BY DEF CountedInv, ResultInv
  <1>11. CASE \/ SkipStage \/ EntitySetName
              \/ EntityCollectionNavigationProperty \/ EntityNavigationProperty
              \/ Property \/ QualifiedTypeName \/ BoundOperation \/ OperationImport
              \/ Count(resultCount) \/ RawValue \/ Reference
    <2>1. outcome = "running" /\ stage < Len(navigation)
      BY <1>11 DEF SkipStage, EntitySetName, EntityCollectionNavigationProperty,
                   EntityNavigationProperty, Property, QualifiedTypeName, BoundOperation,
                   OperationImport, Count, RawValue, Reference, At
    <2>2. Leaves
      BY <1>10, <1>11, <2>1, EntityLeaves, PropertyLeaves, TypeNameLeaves,
         OperationLeaves, CountLeaves, RawValueLeaves, ReferenceLeaves
    <2>3. UNCHANGED <<request, visited>> /\ SameParts
      BY <1>11, StagesKeepParts DEF RequestInv
    <2> QED
      BY <1>9, <2>1, <2>2, <2>3
  <1>12. CASE MethodThrows /\ outcome # "streaming"
    <2>1. outcome = "running" /\ stage < Len(navigation) /\ Fails(500)
      BY <1>12 DEF MethodThrows
    <2> QED
      BY <1>9, <2>1, FailsLeaves, PartsUnchanged DEF Fails, RequestInv, requestVars
  <1> QED
    BY <1>4, <1>5, <1>6, <1>7, <1>8, <1>11, <1>12, Zenon DEF Working

(* A stream begins, behind a part that $count does not count if it is sent.    *)
LEMMA StartCounts ==
    ASSUME RequestInv, ResponseInv, CountedInv, StartStream
    PROVE  CountedInv'
  <1>1. /\ outcome = "streaming" /\ exec = "none" /\ UNCHANGED processorVars
        /\ answer' = answer /\ body' = body
        /\ streamEnabled' = EnableStreaming(Index)
    BY DEF StartStream
  <1>2. UNCHANGED <<request, visited, navigation, stage, result, outcome>>
    BY <1>1 DEF processorVars, requestVars, stageVars
  <1>3. ValueInv'
    BY <1>1, <1>2, ValueStays DEF CountedInv
  <1>4. answer = "open"
    BY <1>1 DEF ResponseInv, OverInv
  <1>5. FreshInv' /\ EndedInv'
    BY <1>1, <1>2, <1>4 DEF FreshInv, EndedInv
  <1>6. /\ Len(navigation) \in Nat /\ stage \in Nat /\ Index = stage + 1
        /\ DOMAIN navigation = 1..Len(navigation) /\ Index \in 1..Len(navigation)
    BY <1>1, LenProperties DEF RequestInv, NavigationInv, StageInv, Index
  <1>7. /\ "body" \in DOMAIN result /\ result.body = <<"stream">>
        /\ Part.type # "CountExpression"
    BY <1>1 DEF CountedInv, ResultInv
  <1>8. ASSUME EnableStreaming(Index), NEW i \in (stage + 1)..Len(navigation)
        PROVE  navigation[i].type # "CountExpression"
    <2>1. CASE i = Index
      BY <1>7, <2>1 DEF Part
    <2>2. CASE i # Index
      <3>1. Index < Len(navigation) /\ Index + 1 \in DOMAIN navigation
        BY <1>6, <2>2
      <3>2. navigation[Index + 1].name = "$value"
        <4>1. \A a, b \in Int : a < b => a # b
          OBVIOUS
        <4>2. Index \in Int /\ Len(navigation) \in Int
          BY <1>6
        <4>3. Index # Len(navigation)
          BY <3>1, <4>1, <4>2, Zenon
        <4> QED
          BY <1>8, <4>3, Zenon DEF EnableStreaming
      <3>3. Index + 1 = Len(navigation) /\ navigation[Index + 1].type = "ValueExpression"
        BY <3>1, <3>2 DEF CountedInv, ValueInv, IsLast
      <3>4. i = Index + 1
        BY <1>6, <2>2, <3>3
      <3> QED
        BY <3>3, <3>4
    <2> QED
      BY <2>1, <2>2
  <1>9. Part' = Part
    BY <1>2 DEF Part, Index
  <1>10. result.body[1] = "stream"
    BY <1>7
  <1>11. ResultInv'
    <2> HIDE DEF Part
    <2> QED
      BY <1>1, <1>2, <1>7, <1>8, <1>9, <1>10 DEF ResultInv
  <1>12. NumberInv'
    BY <1>2, <1>10 DEF NumberInv
  <1> QED
    BY <1>3, <1>5, <1>11, <1>12 DEF CountedInv

(* A stream that goes on keeps streamEnabled, and counts when it is answered.  *)
LEMMA StreamCounts ==
    ASSUME RequestInv, ResponseInv, CountedInv, exec # "none", StreamNext,
           UNCHANGED processorVars, Respond => outcome = "done"
    PROVE  CountedInv'
  <1>1. UNCHANGED <<request, visited, navigation, stage, result, outcome>>
    BY DEF processorVars, requestVars, stageVars
  <1>2. exec' # "none" /\ streamEnabled' = streamEnabled /\ way' = way
    BY FullStep, MethodFixed DEF ResponseInv, FullInv
  <1>8. NumberInv'
    <2>1. request' = request /\ result' = result /\ status' = status /\ outcome' = outcome
      BY DEF processorVars, requestVars, stageVars
    <2>2. Heard => Heard'
      BY <1>2 DEF Heard
    <2> QED
      BY <2>1, <2>2, Zenon DEF CountedInv, NumberInv
  <1>3. ValueInv'
    BY <1>1 DEF CountedInv, ValueInv
  <1>4. FreshInv'
    BY <1>1 DEF CountedInv, FreshInv
  <1>5. Part' = Part
    BY <1>1 DEF Part, Index
  <1>6. ResultInv'
    <2> HIDE DEF Part
    <2> QED
      BY <1>1, <1>2, <1>5 DEF CountedInv, ResultInv
  <1>7. EndedInv'
    <2>1. CASE Respond
      <3>1. resultCount \in Nat
        BY DEF ResponseInv, FullInv, StreamInv, WritableOK
      <3>2. answer' = "ended" /\ body' = IF streamEnabled THEN -1 ELSE resultCount
        BY <2>1 DEF Respond
      <3> QED
        BY <1>1, <1>2, <2>1, <3>1, <3>2 DEF EndedInv
    <2>2. CASE ~Respond
      <3>1. body' = body /\ (answer' = "ended" => answer = "ended")
        BY <2>2 DEF StreamNext, SourceWrites, EndSource, TransformBuffer, TransformObject,
                    Converted, Converting, ConversionFails, LateFailure, Flush, EmitEnd, ClientReads, Return,
                    RespondError, verdict
      <3> QED
        BY <1>1, <1>2, <3>1 DEF CountedInv, EndedInv
    <2> QED
      BY <2>1, <2>2
  <1> QED
    BY <1>3, <1>4, <1>6, <1>7, <1>8 DEF CountedInv

(* The stage of a stream resumes.                                              *)
LEMMA ResumeCounts ==
    ASSUME RequestInv, CountedInv, StageResumes
    PROVE  CountedInv'
  <1>1. /\ outcome = "streaming" /\ UNCHANGED <<exec, answer, streamEnabled, body>>
        /\ UNCHANGED <<request, visited, navigation, result>> /\ exec # "none"
        /\ outcome' = "error" \/ (outcome' = "running" /\ stage' = Index)
    BY DEF StageResumes, StreamEnds, Fails, streamVars, source, verdict, requestVars
  <1>2. ValueInv'
    BY <1>1, ValueStays DEF CountedInv
  <1>3. FreshInv'
    BY <1>1 DEF FreshInv
  <1>4. EndedInv'
    BY <1>1 DEF CountedInv, EndedInv
  <1>5. Len(navigation) \in Nat /\ stage \in Nat /\ Index = stage + 1
    BY LenProperties DEF RequestInv, NavigationInv, StageInv, Index
  <1>6. outcome' = "running" =>
            \A i \in (stage' + 1)..Len(navigation) : i \in (stage + 1)..Len(navigation)
    BY <1>1, <1>5
  <1>7. ResultInv'
    BY <1>1, <1>6 DEF CountedInv, ResultInv
  <1>8. NumberInv'
    <2>1. result.body[1] = "stream"
      BY <1>1 DEF CountedInv, ResultInv
    <2> QED
      BY <1>1, <2>1 DEF NumberInv
  <1> QED
    BY <1>2, <1>3, <1>4, <1>7, <1>8 DEF CountedInv

(* What leaves the stages, their results and the streams' verdicts as they are *)
(* but for the answer.                                                         *)
LEMMA AnswerCounts ==
    ASSUME CountedInv, UNCHANGED <<processorVars, way, streamEnabled, exec, body>>,
           answer' = "ended" => answer = "ended" \/ (exec = "none" /\ outcome = "done")
    PROVE  CountedInv'
  <1>1. UNCHANGED <<request, visited, navigation, stage, result, outcome>>
    BY DEF processorVars, requestVars, stageVars
  <1>2. Part' = Part
    BY <1>1 DEF Part, Index
  <1>3. ValueInv' /\ FreshInv' /\ EndedInv'
    BY <1>1 DEF CountedInv, ValueInv, FreshInv, EndedInv
  <1>4. ResultInv'
    <2> HIDE DEF Part
    <2> QED
      BY <1>1, <1>2 DEF CountedInv, ResultInv
  <1>5. NumberInv'
    <2>1. request' = request /\ result' = result /\ status' = status /\ outcome' = outcome
      BY DEF processorVars, requestVars, stageVars
    <2>2. Heard => Heard'
      BY DEF Heard
    <2> QED
      BY <2>1, <2>2, Zenon DEF CountedInv, NumberInv
  <1> QED
    BY <1>3, <1>4, <1>5 DEF CountedInv

LEMMA CountedStep ==
    ASSUME RequestInv, ResponseInv, CountedInv, [ResponseNext]_responseVars
    PROVE  CountedInv'
  <1>1. CASE Working
    BY <1>1, WorkingCounts
  <1>2. CASE StartStream
    BY <1>2, StartCounts
  <1>3. CASE Streaming
    <2>1. ~Respond
      BY <1>3 DEF Streaming, Respond, SourceWrites, EndSource, TransformBuffer,
                  TransformObject, Converted, Converting, ConversionFails, LateFailure, Flush, EmitEnd,
                  ClientReads, Return, verdict
    <2> QED
      BY <1>3, <2>1, StreamCounts DEF Streaming, StreamNext
  <1>4. CASE StageResumes
    BY <1>4, ResumeCounts
  <1>5. CASE Deliver
    <2>1. CASE exec # "none" /\ (Respond \/ RespondError)
      BY <1>5, <2>1, StreamCounts DEF Deliver, StreamNext
    <2>2. CASE exec = "none"
      BY <1>5, <2>2, AnswerCounts DEF Deliver, source
    <2> QED
      BY <1>5, <2>1, <2>2 DEF Deliver
  <1>6. CASE DeliverError
    BY <1>6, AnswerCounts DEF DeliverError, source
  <1>7. CASE UNCHANGED responseVars
    BY <1>7, AnswerCounts DEF responseVars, streamVars, source, verdict
  <1>8. CASE AfterAnswer
    BY <1>8, AnswerCounts DEF AfterAnswer, LateFailure, source
  <1> QED
    BY <1>1, <1>2, <1>3, <1>4, <1>5, <1>6, <1>7, <1>8 DEF ResponseNext

LEMMA CountedStarts == ResponseInit => CountedInv
  <1> SUFFICES ASSUME ResponseInit
               PROVE  CountedInv
    OBVIOUS
  <1>1. /\ outcome = "load" /\ navigation = <<>> /\ result = NoResult
        /\ exec = "none" /\ answer = "open"
    BY DEF ResponseInit, ProcessorInit, NothingStreamed
  <1>2. DOMAIN <<>> = {}
    OBVIOUS
  <1> QED
    BY <1>1, <1>2 DEF CountedInv, ValueInv, FreshInv, ResultInv, NumberInv, EndedInv

LEMMA CountedHolds == ResponseSpec => []CountedInv
  <1>1. RequestInv /\ ResponseInv /\ CountedInv /\ [ResponseNext]_responseVars => CountedInv'
    BY CountedStep
  <1> QED
    BY <1>1, CountedStarts, RequestHolds, ResponseInvariant, PTL DEF ResponseSpec

(* Whatever the verb, the path and the methods: a number is the answer of a    *)
(* GET, or a stage took the error; and when what a method streamed is counted, *)
(* it is the number of the rows it wrote.                                      *)
THEOREM CountIsRightHolds == ResponseSpec => []CountIsRight
  <1>1. ASSUME ResponseInv, CountedInv
        PROVE  CountIsRight
    <2> SUFFICES ASSUME answer = "ended", result.body[1] \in {"count", "counted"}
                 PROVE  /\ request.verb = "get" \/ Heard
                        /\ result.body = <<"counted">> => body # -1
      BY <1>1 DEF CountIsRight, ResponseInv
    <2>1. outcome = "done" /\ (exec # "none" /\ ~streamEnabled => body # -1)
      BY <1>1 DEF CountedInv, EndedInv
    <2>2. request.verb = "get" \/ Heard
      BY <1>1, <2>1 DEF CountedInv, NumberInv
    <2>3. ASSUME result.body = <<"counted">>
          PROVE  body # -1
      <3>1. result.body[1] = "counted"
        BY <2>3
      <3> QED
        BY <1>1, <2>1, <3>1 DEF CountedInv, ResultInv, ResponseInv, FullInv, StreamInv,
                                WritableOK
    <2> QED
      BY <2>2, <2>3
  <1> QED
    BY <1>1, ResponseInvariant, CountedHolds, PTL

-----------------------------------------------------------------------------
(* The keys: what findODataMethod returns for a class, and what renaming makes *)
(* of the keys of a URL.                                                       *)

(* What holds at 0, and at m + 1 whenever it does at m, holds up to n.         *)
LEMMA UpTo ==
    ASSUME NEW n \in Nat, NEW S, 0 \in S, \A m \in 0..(n - 1) : m \in S => m + 1 \in S
    PROVE  0..n \subseteq S
  <1> DEFINE Stuck == (0..n) \ S
  <1> SUFFICES ASSUME Stuck # {}
               PROVE  FALSE
    OBVIOUS
  <1>1. Stuck \subseteq Nat
    OBVIOUS
  <1>2. PICK m \in Stuck : \A k \in Stuck : m <= k
    BY <1>1, LeastNumber
  <1>3. m # 0 /\ m - 1 \in 0..(n - 1) /\ m - 1 \notin Stuck
    BY <1>2
  <1>4. m - 1 \in S
    BY <1>3
  <1> QED
    BY <1>2, <1>3, <1>4

(* Renaming works through the keys in turn.                                    *)
Renames(r, params, fnKey, n) ==
    r = [i \in 0..n |-> IF i = 0 THEN params ELSE Rename(r[i - 1], fnKey[i])]

LEMMA RenamesOn ==
    ASSUME NEW params, NEW fnKey, NEW n \in Nat
    PROVE  \E r : Renames(r, params, fnKey, n)
  <1> DEFINE S == {m \in 0..n : \E r : Renames(r, params, fnKey, m)}
  <1>1. 0 \in S
    <2> DEFINE r == [i \in 0..0 |-> params]
    <2>1. r = [i \in 0..0 |-> IF i = 0 THEN params ELSE Rename(r[i - 1], fnKey[i])]
      OBVIOUS
    <2> HIDE DEF r
    <2>2. Renames(r, params, fnKey, 0)
      BY <2>1 DEF Renames
    <2> QED
      BY <2>2
  <1>2. ASSUME NEW m \in 0..(n - 1), m \in S
        PROVE  m + 1 \in S
    <2>1. PICK r : Renames(r, params, fnKey, m)
      BY <1>2
    <2>2. r = [i \in 0..m |-> IF i = 0 THEN params ELSE Rename(r[i - 1], fnKey[i])]
      BY <2>1 DEF Renames
    <2> DEFINE step(i) == IF i = 0 THEN params ELSE Rename(r[i - 1], fnKey[i])
               t == [i \in 0..(m + 1) |-> step(i)]
    <2>3. \A i \in 0..m : r[i] = step(i)
      BY <2>2, Zenon
    <2>4. \A i \in 0..(m + 1) : t[i] = step(i)
      BY Zenon
    <2>5. DOMAIN t = 0..(m + 1) /\ t = [i \in 0..(m + 1) |-> t[i]]
      OBVIOUS
    <2> HIDE DEF t, step
    <2>6. \A i \in 0..m : t[i] = r[i]
      BY <2>3, <2>4
    <2>7. \A i \in 0..(m + 1) :
              t[i] = IF i = 0 THEN params ELSE Rename(t[i - 1], fnKey[i])
      <3> TAKE i \in 0..(m + 1)
      <3>1. i # 0 => i - 1 \in 0..m
        OBVIOUS
      <3>2. t[i] = IF i = 0 THEN params ELSE Rename(r[i - 1], fnKey[i])
        BY <2>4 DEF step
      <3> QED
        BY <2>6, <3>1, <3>2
    <2>8. Renames(t, params, fnKey, m + 1)
      BY <2>5, <2>7, Zenon DEF Renames
    <2> QED
      BY <2>8
  <1>3. 0..n \subseteq S
    <2> HIDE DEF S
    <2> QED
      BY <1>1, <1>2, UpTo
  <1>4. n \in S
    BY <1>3
  <1> QED
    BY <1>4

LEMMA RenamedInTurn ==
    ASSUME NEW params, NEW fnKey, Len(fnKey) \in Nat
    PROVE  \E r : /\ r[0] = params
                  /\ \A i \in 1..Len(fnKey) : r[i] = Rename(r[i - 1], fnKey[i])
                  /\ RenameAll(params, fnKey) = r[Len(fnKey)]
  <1> DEFINE n == Len(fnKey)
             r == CHOOSE f : f = [i \in 0..n |->
                      IF i = 0 THEN params ELSE Rename(f[i - 1], fnKey[i])]
  <1>1. RenameAll(params, fnKey) = r[n]
    BY DEF RenameAll
  <1>2. Renames(r, params, fnKey, n)
    <2> HIDE DEF n
    <2>0. PICK f : Renames(f, params, fnKey, n)
      BY RenamesOn DEF n
    <2>1. f = [i \in 0..n |-> IF i = 0 THEN params ELSE Rename(f[i - 1], fnKey[i])]
      BY <2>0, Zenon DEF Renames
    <2>2. r = [i \in 0..n |-> IF i = 0 THEN params ELSE Rename(r[i - 1], fnKey[i])]
      BY <2>1, Zenon
    <2> QED
      BY <2>2, Zenon DEF Renames
  <1>3. n \in Nat
    OBVIOUS
  <1> HIDE DEF r, n
  <1>4. r = [i \in 0..n |-> IF i = 0 THEN params ELSE Rename(r[i - 1], fnKey[i])]
    BY <1>2 DEF Renames
  <1>5. r[0] = params
    BY <1>3, <1>4
  <1>6. ASSUME NEW i \in 1..n
        PROVE  r[i] = Rename(r[i - 1], fnKey[i])
    <2>1. i \in 0..n /\ i # 0
      BY <1>3
    <2> QED
      BY <1>4, <2>1, Zenon
  <1> QED
    BY <1>1, <1>5, <1>6 DEF n

(* A renamed key moves its value, and leaves the others.                       *)
LEMMA RenameMoves ==
    ASSUME NEW params, NEW k
    PROVE  /\ Value(Rename(params, k), k.to) = Value(params, k.from)
           /\ \A n : n # k.from /\ n # k.to =>
                  Value(Rename(params, k), n) = Value(params, n)
  <1>1. CASE k.to = k.from
    BY <1>1 DEF Rename
  <1>2. CASE k.to # k.from
    <2> DEFINE moved == With(params, k.to, Value(params, k.from))
               renamed == [n \in DOMAIN moved \ {k.from} |-> moved[n]]
    <2>1. DOMAIN moved = DOMAIN params \cup {k.to} /\ moved[k.to] = Value(params, k.from)
          /\ \A n \in DOMAIN params : n # k.to => moved[n] = params[n]
      BY DEF With
    <2>2. Rename(params, k) = renamed
      BY <1>2 DEF Rename
    <2>3. DOMAIN renamed = DOMAIN moved \ {k.from}
          /\ \A n \in DOMAIN moved : n # k.from => renamed[n] = moved[n]
      OBVIOUS
    <2> HIDE DEF moved, renamed
    <2> QED
      BY <1>2, <2>1, <2>2, <2>3 DEF Value
  <1> QED
    BY <1>1, <1>2

(* If no two keys share a name, each parameter gets the value of its key.      *)
LEMMA RenamedApart ==
    ASSUME NEW params, NEW fnKey, Len(fnKey) \in Nat,
           \A i, j \in 1..Len(fnKey) : i # j =>
               {fnKey[i].from, fnKey[i].to} \cap {fnKey[j].from, fnKey[j].to} = {}
    PROVE  \A i \in 1..Len(fnKey) :
               Value(RenameAll(params, fnKey), fnKey[i].to) = Value(params, fnKey[i].from)
  <1> DEFINE n == Len(fnKey)
  <1>1. PICK r : /\ r[0] = params
                 /\ \A i \in 1..n : r[i] = Rename(r[i - 1], fnKey[i])
                 /\ RenameAll(params, fnKey) = r[n]
    BY RenamedInTurn
  <1> DEFINE done(m) ==
                 \A i \in 1..n :
                     IF i <= m THEN Value(r[m], fnKey[i].to) = Value(params, fnKey[i].from)
                     ELSE Value(r[m], fnKey[i].from) = Value(params, fnKey[i].from)
             S == {m \in 0..n : done(m)}
  <1>2. 0 \in S
    BY <1>1
  <1>3. ASSUME NEW m \in 0..(n - 1), m \in S
        PROVE  m + 1 \in S
    <2>1. m + 1 \in 1..n /\ m + 1 \in 0..n /\ (m + 1) - 1 = m /\ m \in Nat
      OBVIOUS
    <2>2. r[m + 1] = Rename(r[m], fnKey[m + 1])
      BY <1>1, <2>1
    <2>3. done(m)
      BY <1>3
    <2>4. ASSUME NEW i \in 1..n
          PROVE  IF i <= m + 1 THEN Value(r[m + 1], fnKey[i].to) = Value(params, fnKey[i].from)
                 ELSE Value(r[m + 1], fnKey[i].from) = Value(params, fnKey[i].from)
      <3>1. CASE i = m + 1
        <4>1. ~(i <= m) /\ i <= m + 1
          BY <2>1, <3>1
        <4>2. Value(r[m], fnKey[i].from) = Value(params, fnKey[i].from)
          BY <2>3, <4>1
        <4> QED
          BY <2>2, <3>1, <4>1, <4>2, RenameMoves
      <3>2. CASE i # m + 1
        <4>1. i <= m + 1 <=> i <= m
          BY <2>1, <3>2
        <4>2. /\ fnKey[i].to # fnKey[m + 1].from /\ fnKey[i].to # fnKey[m + 1].to
              /\ fnKey[i].from # fnKey[m + 1].from /\ fnKey[i].from # fnKey[m + 1].to
          BY <2>1, <3>2
        <4>3. /\ Value(r[m + 1], fnKey[i].to) = Value(r[m], fnKey[i].to)
              /\ Value(r[m + 1], fnKey[i].from) = Value(r[m], fnKey[i].from)
          BY <2>2, <4>2, RenameMoves
        <4> QED
          BY <2>3, <4>1, <4>3
      <3> QED
        BY <3>1, <3>2
    <2> QED
      BY <2>1, <2>4
  <1>4. 0..n \subseteq S
    <2> HIDE DEF S
    <2> QED
      BY <1>2, <1>3, UpTo
  <1>5. done(n)
    BY <1>4
  <1> QED
    BY <1>1, <1>5

(* The keys of a URL, or of an entity, as a sequence.                          *)
IsKeySeq(key) == Len(key) \in Nat /\ DOMAIN key = 1..Len(key)
(* The value a parameter should get.                                           *)
Meant(fnKey, key, i) ==
    IF Len(key) = 1 THEN key[1].value ELSE Value(KeyParams(key), fnKey[i].from)

(* What a method is given for its keys is what is meant, also when the keys    *)
(* are merged into it under their own names.                                   *)
LEMMA AssignFits ==
    ASSUME NEW key, NEW fnKey, IsKeySeq(key), IsKeySeq(fnKey),
           Len(key) = Len(fnKey), key # <<>>, ~Misnamed(fnKey, key)
    PROVE  \A i \in DOMAIN fnKey :
               LET params == AssignKeys(KeyParams(key), fnKey, key)
               IN /\ Value(params, fnKey[i].to) = Meant(fnKey, key, i)
                  /\ Value(KeysAgain(params, key), fnKey[i].to) = Meant(fnKey, key, i)
  <1> DEFINE given == KeyParams(key)
             params == AssignKeys(given, fnKey, key)
             n == Len(key)
  <1>1. n \in Nat /\ DOMAIN key = 1..n /\ DOMAIN fnKey = 1..n /\ n = Len(fnKey)
    BY DEF IsKeySeq
  <1>2. DOMAIN given = {key[i].name : i \in DOMAIN key}
    BY DEF KeyParams
  <1>3. ASSUME NEW i \in 1..n, NEW j \in 1..n, i # j
        PROVE  {fnKey[i].from, fnKey[i].to} \cap {fnKey[j].from, fnKey[j].to} = {}
    BY <1>1, <1>3, Zenon DEF Misnamed
  <1>4. ASSUME NEW i \in 1..n
        PROVE  Value(RenameAll(given, fnKey), fnKey[i].to) = Value(given, fnKey[i].from)
    <2> HIDE DEF given
    <2> QED
      BY <1>1, <1>3, RenamedApart
  <1>5. ASSUME NEW p, NEW name
        PROVE  Value(KeysAgain(p, key), name) =
                   IF name \in DOMAIN given THEN Value(given, name) ELSE Value(p, name)
    <2>1. KeysAgain(p, key) = [m \in DOMAIN given \cup DOMAIN p |->
                                   IF m \in DOMAIN given THEN given[m] ELSE p[m]]
      BY DEF KeysAgain
    <2> HIDE DEF given
    <2> QED
      BY <2>1 DEF Value
  <1>6. CASE n = 1
    <2>1. DOMAIN key = {1} /\ DOMAIN fnKey = {1} /\ 1 \in 1..n
      BY <1>1, <1>6
    <2>2. DOMAIN given = {key[1].name} /\ given[key[1].name] = key[1].value
      <3>1. Range(key) = {key[1]}
        BY <2>1 DEF Range
      <3>2. (CHOOSE k \in Range(key) : k.name = key[1].name) = key[1]
        BY <3>1
      <3> QED
        BY <1>2, <2>1, <3>2 DEF KeyParams
    <2>3. Value(given, key[1].name) = key[1].value
      BY <2>2 DEF Value
    <2>4. fnKey[1].to = key[1].name => fnKey[1].from = key[1].name
      BY <1>6, Zenon DEF Misnamed
    <2>5. Value(params, fnKey[1].to) = key[1].value
      <3>1. CASE fnKey[1].to # key[1].name
        <4> DEFINE k == [from |-> key[1].name, to |-> fnKey[1].to]
        <4>1. params = Rename(given, k)
          BY <1>1, <1>6, <3>1 DEF AssignKeys
        <4>2. k.from = key[1].name /\ k.to = fnKey[1].to
          OBVIOUS
        <4> HIDE DEF k, given, params
        <4> QED
          BY <2>3, <4>1, <4>2, RenameMoves
      <3>2. CASE fnKey[1].to = key[1].name
        <4>1. params = RenameAll(given, fnKey)
          BY <3>2 DEF AssignKeys
        <4> QED
          BY <1>4, <2>1, <2>3, <2>4, <3>2, <4>1
      <3> QED
        BY <3>1, <3>2
    <2>6. Value(KeysAgain(params, key), fnKey[1].to) = key[1].value
      <3> HIDE DEF given, params
      <3> QED
        BY <1>5, <2>2, <2>3, <2>5
    <2>7. \A i \in DOMAIN fnKey : i = 1 /\ Meant(fnKey, key, i) = key[1].value
      BY <1>6, <2>1 DEF Meant
    <2> QED
      BY <2>5, <2>6, <2>7
  <1>7. CASE n # 1
    <2>1. params = RenameAll(given, fnKey)
      BY <1>7 DEF AssignKeys
    <2>2. ASSUME NEW i \in 1..n
          PROVE  /\ Value(params, fnKey[i].to) = Value(given, fnKey[i].from)
                 /\ fnKey[i].to \in DOMAIN given => fnKey[i].from = fnKey[i].to
      <3>1. ASSUME fnKey[i].to \in DOMAIN given
            PROVE  fnKey[i].from = fnKey[i].to
        <4>1. PICK m \in DOMAIN key : fnKey[i].to = key[m].name
          BY <1>2, <3>1
        <4>2. PICK j \in DOMAIN fnKey : fnKey[j].from = key[m].name
          BY <1>7, <4>1, Zenon DEF Misnamed
        <4>3. i = j
          BY <1>1, <1>3, <4>1, <4>2
        <4> QED
          BY <4>1, <4>2, <4>3
      <3> QED
        BY <1>4, <2>1, <3>1
    <2>3. ASSUME NEW i \in 1..n
          PROVE  Value(KeysAgain(params, key), fnKey[i].to) = Value(given, fnKey[i].from)
      <3> HIDE DEF given, params
      <3> QED
        BY <1>5, <2>2
    <2>4. \A i \in 1..n : Meant(fnKey, key, i) = Value(given, fnKey[i].from)
      BY <1>7 DEF Meant
    <2> QED
      BY <1>1, <2>2, <2>3, <2>4
  <1> QED
    BY <1>6, <1>7

(* A method has the keys that findODataMethod compares with those of the URL.  *)
LEMMA FoundKeys ==
    ASSUME DispatchInv, NEW c \in Classes, NEW type, NEW key
    PROVE  LET fnKey == FindODataMethod(c, type, key).key
           IN IsKeySeq(fnKey) /\ (fnKey # <<>> => Len(fnKey) = Len(key))
  <1>1. ASSUME NEW prop
        PROVE  IsKeySeq(GetKeys(c, prop))
    <2>1. server \in Servers
      BY DEF DispatchInv, DispatchTypes
    <2>2. ASSUME NEW d, <<d, prop>> \in DOMAIN keysOf
          PROVE  IsKeySeq(keysOf[<<d, prop>>])
      BY <2>2, LenProperties DEF DispatchInv, KeysInv, IsKeySeq
    <2>3. IsKeySeq(<<>>)
      BY DEF IsKeySeq
    <2>4. CASE GetMetadata(keysOf, c, prop, <<>>) = <<>>
      BY <2>3, <2>4 DEF GetKeys
    <2>5. ASSUME NEW n \in DOMAIN Chain(c), <<Chain(c)[n], prop>> \in DOMAIN keysOf,
                 GetMetadata(keysOf, c, prop, <<>>) = keysOf[<<Chain(c)[n], prop>>]
          PROVE  IsKeySeq(GetKeys(c, prop))
      BY <2>2, <2>5 DEF GetKeys
    <2> QED
      BY <2>1, <2>4, <2>5, Lookup, Zenon
  <1>2. PICK name : FindODataMethod(c, type, key) \in
            {NoMethod, [call |-> name, key |-> IF Len(GetKeys(c, name)) = Len(key)
                                               THEN GetKeys(c, name) ELSE <<>>]}
    BY Zenon DEF FindODataMethod
  <1>3. FindODataMethod(c, type, key).key \in
            {<<>>, IF Len(GetKeys(c, name)) = Len(key) THEN GetKeys(c, name) ELSE <<>>}
    BY <1>2 DEF NoMethod
  <1>4. IsKeySeq(<<>>)
    BY DEF IsKeySeq
  <1> QED
    BY <1>1, <1>3, <1>4

(* A call of the method with the right keys of the right part fits.            *)
FitsKey(c, key) ==
    c.fnKey # <<>> /\ key # <<>> /\ ~Misnamed(c.fnKey, key) =>
        \A i \in DOMAIN c.fnKey : Value(c.params, c.fnKey[i].to) = Meant(c.fnKey, key, i)

LEMMA CallFits ==
    ASSUME DispatchInv, NEW c \in Classes, NEW type, NEW key, IsKeySeq(key),
           NEW call, call.fnKey = FindODataMethod(c, type, key).key,
           \/ call.params = AssignKeys(KeyParams(key), call.fnKey, key)
           \/ call.params = KeysAgain(AssignKeys(KeyParams(key), call.fnKey, key), key)
    PROVE  FitsKey(call, key)
  <1>1. IsKeySeq(call.fnKey) /\ (call.fnKey # <<>> => Len(call.fnKey) = Len(key))
    <2> DEFINE fnKey == FindODataMethod(c, type, key).key
    <2>1. IsKeySeq(fnKey) /\ (fnKey # <<>> => Len(fnKey) = Len(key))
      BY FoundKeys
    <2>2. call.fnKey = fnKey
      OBVIOUS
    <2> HIDE DEF fnKey
    <2> QED
      BY <2>1, <2>2
  <1>2. ASSUME call.fnKey # <<>>, key # <<>>, ~Misnamed(call.fnKey, key)
        PROVE  \A i \in DOMAIN call.fnKey :
                   Value(call.params, call.fnKey[i].to) = Meant(call.fnKey, key, i)
    BY <1>1, <1>2, AssignFits
  <1> QED
    BY <1>2 DEF FitsKey

-----------------------------------------------------------------------------
(* The types along a URL.                                                      *)

(* What TypesOf is: the type of each segment follows from the one before.      *)
TypesAlong(t, s, path, n) ==
    t = [i \in 0..n |-> IF i = 0 THEN None ELSE TypeAfter(s, t[i - 1], path[i])]

LEMMA TypesGoOn ==
    ASSUME NEW s, NEW path, NEW n \in Nat
    PROVE  \E t : TypesAlong(t, s, path, n)
  <1> DEFINE S == {m \in 0..n : \E t : TypesAlong(t, s, path, m)}
  <1>1. 0 \in S
    <2> DEFINE t == [i \in 0..0 |-> None]
    <2>1. t = [i \in 0..0 |-> IF i = 0 THEN None ELSE TypeAfter(s, t[i - 1], path[i])]
      OBVIOUS
    <2> HIDE DEF t
    <2>2. TypesAlong(t, s, path, 0)
      BY <2>1 DEF TypesAlong
    <2> QED
      BY <2>2
  <1>2. ASSUME NEW m \in 0..(n - 1), m \in S
        PROVE  m + 1 \in S
    <2>1. PICK t : TypesAlong(t, s, path, m)
      BY <1>2
    <2>2. t = [i \in 0..m |-> IF i = 0 THEN None ELSE TypeAfter(s, t[i - 1], path[i])]
      BY <2>1 DEF TypesAlong
    <2> DEFINE next(i) == IF i = 0 THEN None ELSE TypeAfter(s, t[i - 1], path[i])
               u == [i \in 0..(m + 1) |-> next(i)]
    <2>3. \A i \in 0..m : t[i] = next(i)
      BY <2>2, Zenon
    <2>4. \A i \in 0..(m + 1) : u[i] = next(i)
      BY Zenon
    <2>5. DOMAIN u = 0..(m + 1) /\ u = [i \in 0..(m + 1) |-> u[i]]
      OBVIOUS
    <2> HIDE DEF u, next
    <2>6. \A i \in 0..m : u[i] = t[i]
      BY <2>3, <2>4
    <2>7. \A i \in 0..(m + 1) :
              u[i] = IF i = 0 THEN None ELSE TypeAfter(s, u[i - 1], path[i])
      <3> TAKE i \in 0..(m + 1)
      <3>1. i # 0 => i - 1 \in 0..m
        OBVIOUS
      <3>2. u[i] = IF i = 0 THEN None ELSE TypeAfter(s, t[i - 1], path[i])
        BY <2>4 DEF next
      <3> QED
        BY <2>6, <3>1, <3>2
    <2>8. TypesAlong(u, s, path, m + 1)
      BY <2>5, <2>7, Zenon DEF TypesAlong
    <2> QED
      BY <2>8
  <1>3. 0..n \subseteq S
    <2> HIDE DEF S
    <2> QED
      BY <1>1, <1>2, UpTo
  <1>4. n \in S
    BY <1>3
  <1> QED
    BY <1>4

LEMMA TypesFollow ==
    ASSUME NEW s, NEW path, Len(path) \in Nat
    PROVE  /\ TypesOf(s, path)[0] = None
           /\ \A i \in 1..Len(path) :
                  TypesOf(s, path)[i] = TypeAfter(s, TypesOf(s, path)[i - 1], path[i])
  <1> DEFINE n == Len(path)
             t == CHOOSE f : f = [i \in 0..n |->
                      IF i = 0 THEN None ELSE TypeAfter(s, f[i - 1], path[i])]
  <1>1. TypesOf(s, path) = t
    BY DEF TypesOf
  <1>2. TypesAlong(t, s, path, n)
    <2> HIDE DEF n
    <2>1. PICK f : TypesAlong(f, s, path, n)
      BY TypesGoOn DEF n
    <2>2. f = [i \in 0..n |-> IF i = 0 THEN None ELSE TypeAfter(s, f[i - 1], path[i])]
      BY <2>1, Zenon DEF TypesAlong
    <2>3. t = [i \in 0..n |-> IF i = 0 THEN None ELSE TypeAfter(s, t[i - 1], path[i])]
      BY <2>2, Zenon
    <2> QED
      BY <2>3, Zenon DEF TypesAlong
  <1>3. n \in Nat
    OBVIOUS
  <1> HIDE DEF t, n
  <1>4. t = [i \in 0..n |-> IF i = 0 THEN None ELSE TypeAfter(s, t[i - 1], path[i])]
    BY <1>2 DEF TypesAlong
  <1>5. t[0] = None
    BY <1>3, <1>4
  <1>6. ASSUME NEW i \in 1..n
        PROVE  t[i] = TypeAfter(s, t[i - 1], path[i])
    <2>1. i \in 0..n /\ i # 0
      BY <1>3
    <2> QED
      BY <1>4, <2>1, Zenon
  <1> QED
    BY <1>1, <1>5, <1>6 DEF n

(* The type depends on the kind and the name of a segment.                     *)
LEMMA SameSegment ==
    ASSUME NEW s, NEW T, NEW p, NEW q, p.type = q.type, p.name = q.name
    PROVE  /\ TypeAfter(s, T, p) = TypeAfter(s, T, q)
           /\ IsDeclared(s, T, p) = IsDeclared(s, T, q)
  BY DEF TypeAfter, IsDeclared

(* The parts have the types of their segments, and name what these declare.    *)
Follows(types) ==
    /\ types[0] = None
    /\ \A i \in DOMAIN navigation :
           /\ types[i] = TypeAfter(server, types[i - 1], navigation[i])
           /\ IsDeclared(server, types[i - 1], navigation[i])
           /\ navigation[i].type = "QualifiedEntityTypeName" =>
                  navigation[i].name \in server.children

(* Both controllers are there or none; a result has no type or that of its     *)
(* part, and where there is a type a controller has been used.                 *)
CtrlsInv == (ctrl \in Classes /\ prevCtrl \in Classes) \/ (ctrl = None /\ prevCtrl = None)
Typed(types) ==
    /\ outcome = "visiting" => types[Len(navigation)] = TypesOf(server, request.path)[visited]
    /\ outcome \in {"load", "visiting"} => ctrl = None /\ result = NoResult
    /\ CtrlsInv
    /\ outcome = "streaming" => ctrl \in Classes /\ result.type = None
    /\ outcome = "running" /\ stage < Len(navigation) /\ Part.type # "RefExpression" =>
           /\ result.type \in {None, types[stage]}
           /\ types[stage] # None => ctrl \in Classes
TypedInv == \E types : Follows(types) /\ Typed(types)

LEMMA ControllerFacts ==
    ASSUME server \in Servers, NEW T \in DOMAIN server.controllerOf
    PROVE  ControllerOf(T) \in Classes /\ ElementType(ControllerOf(T)) = T
  <1>1. IsModelled(server)
    BY ModelledAssumption
  <1>2. ControllerOf(T) \in Classes
    BY <1>1 DEF IsModelled, ControllerOf, Classes
  <1>3. \A U \in DOMAIN server.controllerOf : ControllerOf(U) = ControllerOf(T) => U = T
    BY <1>1, Zenon DEF IsModelled, ControllerOf
  <1>4. ElementType(ControllerOf(T)) = T
    BY <1>3 DEF ElementType
  <1> QED
    BY <1>2, <1>4

(* The type of the part at work.                                               *)
LEMMA PartTypes ==
    ASSUME RequestInv, outcome = "running", stage < Len(navigation),
           NEW types, Follows(types)
    PROVE  /\ Part.type = "EntitySetName" =>
                  /\ server.entitySets[Part.name] \in DOMAIN server.controllerOf
                  /\ types[Index] = server.entitySets[Part.name]
           /\ Part.type \in Navigations =>
                  /\ server.navs[types[stage]][Part.name].target \in DOMAIN server.controllerOf
                  /\ types[Index] = server.navs[types[stage]][Part.name].target
           /\ Part.type = "QualifiedEntityTypeName" =>
                  types[Index] = Part.name /\ types[stage] # None
           /\ Part.type \in Properties => types[Index] = Part.name
           /\ Part.type \notin {"EntitySetName", "QualifiedEntityTypeName"}
                                \cup Navigations \cup Properties =>
                  types[Index] = types[stage]
  <1>1. /\ Index \in DOMAIN navigation /\ Index - 1 = stage
        /\ server \in Servers
    BY LenProperties DEF RequestInv, NavigationInv, StageInv, Index
  <1>2. IsModelled(server)
    BY <1>1, ModelledAssumption
  <1>3. /\ types[Index] = TypeAfter(server, types[stage], Part)
        /\ IsDeclared(server, types[stage], Part)
        /\ Part.type = "QualifiedEntityTypeName" => Part.name \in server.children
    BY <1>1 DEF Follows, Part
  <1> HIDE DEF Part
  <1>4. CASE Part.type = "EntitySetName"
    BY <1>2, <1>3, <1>4 DEF TypeAfter, IsDeclared, IsModelled, Navigations, Properties
  <1>5. CASE Part.type \in Navigations
    <2>1. /\ types[stage] \in DOMAIN server.navs
          /\ Part.name \in DOMAIN server.navs[types[stage]]
      BY <1>3, <1>5 DEF IsDeclared, Navigations
    <2>2. server.navs[types[stage]][Part.name].target \in DOMAIN server.controllerOf
      BY <1>2, <2>1, Zenon DEF IsModelled
    <2>3. types[Index] = server.navs[types[stage]][Part.name].target
      <3>1. CASE Part.type = "EntityNavigationProperty"
        BY <1>3, <3>1 DEF TypeAfter, Navigations, Properties
      <3>2. CASE Part.type = "EntityCollectionNavigationProperty"
        BY <1>3, <3>2 DEF TypeAfter, Navigations, Properties
      <3> QED
        BY <1>5, <3>1, <3>2 DEF Navigations
    <2> QED
      BY <1>5, <2>2, <2>3 DEF Navigations, Properties
  <1>6. CASE Part.type \notin {"EntitySetName"} \cup Navigations
    BY <1>3, <1>6 DEF TypeAfter, IsDeclared, Navigations, Properties
  <1> QED
    BY <1>4, <1>5, <1>6

-----------------------------------------------------------------------------
(* What a stage does to the types.                                             *)
TypeLeaves(types) ==
    /\ CtrlsInv'
    /\ \/ outcome' = "error"
       \/ outcome' = "streaming" /\ ctrl' \in Classes /\ result'.type = None
       \/ /\ outcome' = "running" /\ stage' = Index
          /\ \/ /\ result'.type \in {None, types[Index]}
                /\ types[Index] # None => ctrl' \in Classes
             \/ Index = Len(navigation) \/ navigation[Index + 1].type = "RefExpression"

LEMMA TypesStay ==
    ASSUME RequestInv, NEW types, Follows(types), SameParts, UNCHANGED server
    PROVE  Follows(types)'
  <1>1. ASSUME NEW i \in DOMAIN navigation
        PROVE  /\ TypeAfter(server, types[i - 1], navigation'[i]) =
                      TypeAfter(server, types[i - 1], navigation[i])
               /\ IsDeclared(server, types[i - 1], navigation'[i]) =
                      IsDeclared(server, types[i - 1], navigation[i])
    BY SameSegment DEF SameParts
  <1> QED
    BY <1>1 DEF Follows, SameParts

LEMMA TypesOfStage ==
    ASSUME RequestInv, NEW types, Follows(types), outcome = "running",
           stage < Len(navigation), UNCHANGED <<server, request, visited>>, SameParts,
           TypeLeaves(types)
    PROVE  TypedInv'
  <1>1. Follows(types)'
    BY TypesStay
  <1>2. /\ Len(navigation) \in Nat /\ DOMAIN navigation = 1..Len(navigation)
        /\ stage \in Nat /\ Index = stage + 1 /\ Len(navigation') = Len(navigation)
        /\ \A i \in DOMAIN navigation : navigation'[i].type = navigation[i].type
    BY LenProperties DEF RequestInv, NavigationInv, StageInv, Index, SameParts
  <1>3. ASSUME outcome' = "running", stage' < Len(navigation'), Part'.type # "RefExpression"
        PROVE  /\ result'.type \in {None, types[stage']}
               /\ types[stage'] # None => ctrl' \in Classes
    <2>1. stage' = Index
      BY <1>3 DEF TypeLeaves
    <2>2. Index + 1 \in DOMAIN navigation /\ Index # Len(navigation)
      <3> DEFINE n == Len(navigation)
      <3>1. n \in Nat /\ Index \in Nat /\ Index < n /\ DOMAIN navigation = 1..n
        BY <1>2, <1>3, <2>1
      <3> HIDE DEF n
      <3>2. \A i \in Nat : i < n => i + 1 \in 1..n /\ i # n
        BY <3>1
      <3>3. Index + 1 \in 1..n /\ Index # n
        BY <3>1, <3>2
      <3> QED
        BY <3>1, <3>3 DEF n
    <2>3. Part' = navigation'[Index + 1]
      BY <2>1 DEF Part, Index
    <2>4. navigation[Index + 1].type # "RefExpression"
      BY <1>2, <1>3, <2>2, <2>3
    <2> QED
      BY <1>3, <2>1, <2>2, <2>4 DEF TypeLeaves
  <1>4. CtrlsInv' /\ outcome' \in {"error", "streaming", "running"}
        /\ (outcome' = "streaming" => ctrl' \in Classes /\ result'.type = None)
    BY DEF TypeLeaves
  <1>5. Classes' = Classes
    BY DEF Classes
  <1> HIDE DEF Part
  <1>6. Typed(types)'
    BY <1>3, <1>4, <1>5 DEF Typed
  <1> QED
    BY <1>1, <1>6 DEF TypedInv

(* Reading a body.                                                             *)
LEMMA ReturnsTypes ==
    ASSUME NEW c, NEW verb, NEW T, NEW given, NEW b, ReadReturns(c, verb, T, given, b),
           NEW types, types[Index] = T, ctrl' \in Classes, CtrlsInv', outcome = "running"
    PROVE  TypeLeaves(types)
  <1> DEFINE type == IF b # <<"none">> \/ given THEN T ELSE None
             left == IF verb \in {"patch", "delete"} THEN <<"none">> ELSE b
  <1>1. \/ outcome' = "error"
        \/ result' = [type |-> type, body |-> left] /\ stage' = Index /\ outcome' = outcome
    BY Zenon DEF ReadReturns
  <1>2. type \in {None, T}
    OBVIOUS
  <1> HIDE DEF type, left
  <1> QED
    BY <1>1, <1>2 DEF TypeLeaves

LEMMA ReadTypes ==
    ASSUME RequestInv, NEW types, CtrlsInv, outcome = "running", stage < Len(navigation),
           NEW c \in Classes, NEW part, NEW filter, Read(c, part, filter),
           types[Index] = ElementType(c)
    PROVE  TypeLeaves(types)
  <1> PICK fn, params :
         IF fn = NoMethod THEN Fails(501)
         ELSE /\ prevCtrl' = IF ctrl = None THEN c ELSE ctrl
              /\ ctrl' = c
              /\ IF <<c, fn.call>> \in server.streams /\ Verb = "get"
                 THEN StreamsOut
                 ELSE \E b : ReadReturns(c, Verb, ElementType(c), FALSE, b)
              /\ UNCHANGED dispatchVars
    BY Zenon DEF Read
  <1>1. CASE fn = NoMethod
    <2>1. outcome' = "error" /\ UNCHANGED <<server, ctrl, prevCtrl>>
      BY <1>1 DEF Fails, dispatchVars
    <2> QED
      BY <2>1 DEF TypeLeaves, CtrlsInv, Classes
  <1>2. CASE fn # NoMethod
    <2>1. ctrl' = c /\ prevCtrl' = (IF ctrl = None THEN c ELSE ctrl) /\ Classes' = Classes
      BY <1>2 DEF dispatchVars, Classes
    <2>2. CtrlsInv' /\ ctrl' \in Classes
      BY <2>1 DEF CtrlsInv
    <2>3. CASE StreamsOut
      BY <2>2, <2>3 DEF StreamsOut, TypeLeaves
    <2>4. CASE ~StreamsOut
      <3>1. PICK b : ReadReturns(c, Verb, ElementType(c), FALSE, b)
        BY <1>2, <2>4
      <3> QED
        BY <2>2, <3>1, ReturnsTypes
    <2> QED
      BY <2>3, <2>4
  <1> QED
    BY <1>1, <1>2

LEMMA NavigateTypes ==
    ASSUME RequestInv, NEW types, Follows(types), Typed(types), outcome = "running",
           stage < Len(navigation), Part.type \in Navigations, result.type # None,
           NEW n, n = Nav(result.type, Part.name),
           NEW key, NEW filter, Navigate(n, key, filter)
    PROVE  TypeLeaves(types)
  <1>1. /\ server \in Servers /\ Part.type # "RefExpression"
    BY DEF RequestInv, NavigationInv, Navigations
  <1>2. result.type = types[stage] /\ ctrl \in Classes /\ CtrlsInv
    BY <1>1 DEF Typed
  <1>3. n.target \in DOMAIN server.controllerOf /\ types[Index] = n.target
    BY <1>2, PartTypes DEF Nav
  <1>4. ControllerOf(n.target) \in Classes /\ ElementType(ControllerOf(n.target)) = n.target
    BY <1>1, <1>3, ControllerFacts
  <1>5. CASE Read(ControllerOf(n.target), [Part EXCEPT !.key = key], filter)
    BY <1>2, <1>3, <1>4, <1>5, ReadTypes
  <1>6. ASSUME NEW fn, NavigateByMethod(fn, n)
        PROVE  TypeLeaves(types)
    <2>1. PICK b : ReadReturns(ctrl, Verb, n.target, TRUE, b)
      BY <1>6, Zenon DEF NavigateByMethod
    <2>2. prevCtrl' = ctrl /\ ctrl' = ControllerOf(n.target) /\ UNCHANGED server
      BY <1>6, Zenon DEF NavigateByMethod, dispatchVars
    <2>3. CtrlsInv' /\ ctrl' \in Classes
      BY <1>2, <1>4, <2>2 DEF CtrlsInv, Classes
    <2> QED
      BY <1>3, <2>1, <2>3, ReturnsTypes
  <1> QED
    BY <1>5, <1>6, Zenon DEF Navigate

(* Every stage leaves the right type, or none.                                 *)
LEMMA StageLeavesType ==
    ASSUME RequestInv, ValueInv, NEW types, Follows(types), Typed(types),
           \/ SkipStage \/ EntitySetName
           \/ EntityCollectionNavigationProperty \/ EntityNavigationProperty
           \/ Property \/ QualifiedTypeName \/ BoundOperation \/ OperationImport
           \/ Count(resultCount) \/ RawValue \/ Reference
    PROVE  TypeLeaves(types)
  <1>1. /\ outcome = "running" /\ stage < Len(navigation) /\ server \in Servers
        /\ stage \in Nat /\ Len(navigation) \in Nat /\ Index = stage + 1
        /\ DOMAIN navigation = 1..Len(navigation) /\ Index \in DOMAIN navigation
    <2>1. outcome = "running" /\ stage < Len(navigation)
      BY Zenon DEF SkipStage, EntitySetName, EntityCollectionNavigationProperty,
         EntityNavigationProperty, Property, QualifiedTypeName, BoundOperation,
         OperationImport, Count, RawValue, Reference, At
    <2> QED
      BY <2>1, LenProperties DEF RequestInv, NavigationInv, StageInv, Index
  <1>2. CtrlsInv
    BY DEF Typed
  <1>3. ASSUME UNCHANGED <<server, ctrl, prevCtrl>>
        PROVE  CtrlsInv' /\ Classes' = Classes
    BY <1>2, <1>3 DEF CtrlsInv, Classes
  <1>4. ASSUME NEW code, Fails(code)
        PROVE  TypeLeaves(types)
    BY <1>3, <1>4 DEF Fails, dispatchVars, TypeLeaves
  <1>5. ASSUME NEW b, NEW code, Stays(b, code),
               Part.type \notin {"EntitySetName", "QualifiedEntityTypeName"}
                                \cup Navigations \cup Properties
        PROVE  TypeLeaves(types)
    <2>1. /\ result' = [type |-> result.type, body |-> b] /\ stage' = Index
          /\ outcome' = "running" /\ UNCHANGED <<server, ctrl, prevCtrl>>
      BY <1>1, <1>5 DEF Stays, dispatchVars
    <2>2. result'.type = result.type
      BY <2>1
    <2>3. CASE Part.type = "RefExpression"
      <3>1. Index = Len(navigation)
        BY <1>1, <2>3 DEF ValueInv, IsLast, Part
      <3> QED
        BY <1>3, <2>1, <3>1 DEF TypeLeaves
    <2>4. CASE Part.type # "RefExpression"
      <3>1. types[Index] = types[stage]
        BY <1>1, <1>5, PartTypes
      <3>2. /\ result.type \in {None, types[stage]}
            /\ types[stage] # None => ctrl \in Classes
        BY <1>1, <2>4 DEF Typed
      <3> QED
        BY <1>3, <2>1, <2>2, <3>1, <3>2 DEF TypeLeaves
    <2> QED
      BY <2>3, <2>4
  <1>6. CASE SkipStage
    <2>1. Index < Len(navigation) /\ navigation[Index + 1].type = "RefExpression"
          /\ stage' = Index /\ outcome' = "running" /\ UNCHANGED <<server, ctrl, prevCtrl>>
      BY <1>1, <1>6 DEF SkipStage, Skipped, dispatchVars
    <2> QED
      BY <1>3, <2>1 DEF TypeLeaves
  <1>7. CASE EntitySetName
    <2>1. Part.type = "EntitySetName"
          /\ Read(ControllerOf(server.entitySets[Part.name]), Part, NoFilter)
      BY <1>7, Zenon DEF EntitySetName, At
    <2>2. /\ server.entitySets[Part.name] \in DOMAIN server.controllerOf
          /\ types[Index] = server.entitySets[Part.name]
      BY <1>1, <2>1, PartTypes
    <2> QED
      BY <1>1, <1>2, <2>1, <2>2, ControllerFacts, ReadTypes
  <1>8. CASE EntityCollectionNavigationProperty \/ EntityNavigationProperty
    <2>1. Part.type \in Navigations
      BY <1>8 DEF EntityCollectionNavigationProperty, EntityNavigationProperty, At,
                  Navigations
    <2>2. \/ \E code : Fails(code)
          \/ result.type # None /\ \E key, filter : Navigate(Nav(result.type, Part.name), key, filter)
      BY <1>8, Zenon DEF EntityCollectionNavigationProperty, EntityNavigationProperty
    <2> QED
      BY <1>1, <1>4, <2>1, <2>2, NavigateTypes
  <1>9. CASE Property
    <2> DEFINE value == IF result.body[1] = "entity"
                        THEN <<"value", Part.name, result.type, result.body[3]>>
                        ELSE <<"none">>
    <2>1. \/ Fails(500)
          \/ /\ result.type # None
             /\ \/ result' = NoResult /\ stage' = Index /\ UNCHANGED outcome
                \/ StreamsOut
                \/ /\ result' = [type |-> Part.name, body |-> value]
                   /\ stage' = Index /\ UNCHANGED outcome
             /\ UNCHANGED <<dispatchVars, ctrl, prevCtrl, instance>>
      BY <1>9, Zenon DEF Property
    <2>2. Part.type \in Properties /\ Part.type # "RefExpression"
      BY <1>9 DEF Property, At, Properties
    <2> HIDE DEF value
    <2>3. CASE ~Fails(500)
      <3>1. result.type = types[stage] /\ ctrl \in Classes
        BY <1>1, <2>1, <2>2, <2>3 DEF Typed
      <3>2. types[Index] = Part.name
        BY <1>1, <2>2, PartTypes
      <3>3. UNCHANGED <<server, ctrl, prevCtrl>>
        BY <2>1, <2>3 DEF dispatchVars
      <3>4. \/ /\ result'.type \in {None, types[Index]}
               /\ stage' = Index /\ outcome' = "running"
            \/ outcome' = "streaming" /\ result'.type = None
        BY <1>1, <2>1, <2>3, <3>2 DEF NoResult, StreamsOut
      <3> QED
        BY <1>3, <3>1, <3>3, <3>4 DEF TypeLeaves
    <2> QED
      BY <1>4, <2>3
  <1>10. CASE QualifiedTypeName
    <2>1. /\ Part.type = "QualifiedEntityTypeName" /\ stage' = Index
          /\ result' = [type |-> Part.name, body |-> result.body] /\ outcome' = "running"
          /\ UNCHANGED <<server, ctrl, prevCtrl>>
      BY <1>10 DEF QualifiedTypeName, At, dispatchVars
    <2>2. types[Index] = Part.name /\ types[stage] # None
      BY <1>1, <2>1, PartTypes
    <2>3. ctrl \in Classes
      BY <1>1, <2>1, <2>2 DEF Typed
    <2>4. types[Index] # None => ctrl' \in Classes
      BY <2>1, <2>3
    <2>5. result'.type \in {None, types[Index]}
      <3> DEFINE b == result.body
      <3>1. result' = [type |-> Part.name, body |-> b]
        BY <2>1
      <3> HIDE DEF b
      <3>2. result'.type = Part.name
        BY <3>1
      <3> QED
        BY <2>2, <3>2
    <2> QED
      BY <1>3, <2>1, <2>4, <2>5 DEF TypeLeaves
  <1>11. CASE BoundOperation
    <2>1. \/ Fails(500)
          \/ instance # None /\ FailsCalled(500)
          \/ \E b, code : Stays(b, code)
      BY <1>11, Zenon DEF BoundOperation
    <2>2. Part.type \in {"BoundActionCall", "BoundFunctionCall"}
      BY <1>11 DEF BoundOperation, BoundOperations, At
    <2>3. FailsCalled(500) => TypeLeaves(types)
      BY <1>3 DEF FailsCalled, dispatchVars, TypeLeaves
    <2> QED
      BY <1>4, <1>5, <2>1, <2>2, <2>3 DEF Navigations, Properties
  <1>12. CASE OperationImport
    <2>1. \E b, code : Stays(b, code)
      BY <1>12, Zenon DEF OperationImport
    <2>2. Part.type \in {"FunctionImportCall", "ActionImportCall"}
      BY <1>12 DEF OperationImport, At
    <2> QED
      BY <1>5, <2>1, <2>2 DEF Navigations, Properties
  <1>13. CASE Count(resultCount)
    <2> DEFINE b == CASE result.body[1] = "rows" -> <<"count", Cardinality(result.body[3])>>
                      [] result.body[1] = "stream" -> <<"counted">>
                      [] OTHER -> <<"count", 0>>
    <2>1. Fails(500) \/ \E c, code : Stays(c, code)
      <3>1. Fails(500) \/ \E code : Answers(b, code)
        BY <1>13 DEF Count
      <3> QED
        BY <3>1, Zenon DEF Answers
    <2>2. Part.type = "CountExpression"
      BY <1>13 DEF Count, At
    <2> QED
      BY <1>4, <1>5, <2>1, <2>2 DEF Navigations, Properties
  <1>14. CASE RawValue
    <2>1. \/ Fails(500)
          \/ (\E b, code : Stays(b, code)) \/ (\E b, code : Answers(b, code))
          \/ /\ ctrl # None
             /\ \/ FailsCalled(500)
                \/ StreamsOut /\ UNCHANGED <<dispatchVars, ctrl, prevCtrl, instance>>
      BY <1>14, ZenonT(60) DEF RawValue, Unread
    <2>2. Part.type = "ValueExpression"
      BY <1>14 DEF RawValue, At
    <2>3. ASSUME ctrl # None, UNCHANGED <<dispatchVars, ctrl, prevCtrl, instance>>,
                 outcome' = "error" \/ StreamsOut
          PROVE  TypeLeaves(types)
      <3>1. UNCHANGED <<server, ctrl, prevCtrl>> /\ ctrl \in Classes
        BY <1>2, <2>3 DEF CtrlsInv, dispatchVars
      <3>2. outcome' = "error" \/ (outcome' = "streaming" /\ result'.type = None)
        BY <2>3 DEF StreamsOut
      <3> QED
        BY <1>3, <3>1, <3>2 DEF TypeLeaves
    <2>4. (\E b, code : Answers(b, code)) => \E b, code : Stays(b, code)
      BY Zenon DEF Answers
    <2>5. FailsCalled(500) =>
              UNCHANGED <<dispatchVars, ctrl, prevCtrl, instance>> /\ outcome' = "error"
      BY DEF FailsCalled
    <2> QED
      BY <1>4, <1>5, <2>1, <2>2, <2>3, <2>4, <2>5 DEF Navigations, Properties
  <1>15. CASE Reference
    <2>1. (\E code : Fails(code)) \/ \E b, code : Stays(b, code)
      BY <1>15, ZenonT(30) DEF Reference
    <2>2. Part.type = "RefExpression"
      BY <1>15 DEF Reference, At
    <2> QED
      BY <1>4, <1>5, <2>1, <2>2 DEF Navigations, Properties
  <1> QED
    BY <1>6, <1>7, <1>8, <1>9, <1>10, <1>11, <1>12, <1>13, <1>14, <1>15

(* The visitor notes on each part the type of its segment.                     *)
LEMMA VisitTyped ==
    ASSUME RequestInv, NEW types, Follows(types), Typed(types), Visit
    PROVE  TypedInv'
  <1> DEFINE s == request.path[visited + 1]
             T == TypesOf(server, request.path)
             n == Len(navigation)
  <1>1. /\ outcome = "visiting" /\ visited < Len(request.path) /\ visited' = visited + 1
        /\ navigation' = VisitSegment(navigation, s)
        /\ UNCHANGED <<server, request, outcome, ctrl, prevCtrl, result, stage>>
    BY DEF Visit, stageVars, dispatchVars
  <1>2. /\ request.path \in Seq(Segment) /\ navigation \in Seq(Segment)
        /\ visited \in 0..Len(request.path) /\ Len(request.path) \in Nat
        /\ server \in Servers /\ request \in Requests[server.name]
        /\ n \in Nat /\ DOMAIN navigation = 1..n
    BY <1>1, LenProperties DEF RequestInv, NavigationInv
  <1>3. visited + 1 \in 1..Len(request.path) /\ visited + 1 - 1 = visited
        /\ DOMAIN request.path = 1..Len(request.path)
    BY <1>1, <1>2, LenProperties
  <1>4. s \in Segment
    BY <1>2, <1>3, ElementOfSeq
  <1>5. T[visited] = types[n]
    BY <1>1 DEF Typed
  <1>6. T[visited + 1] = TypeAfter(server, types[n], s)
    <2>1. T[visited + 1] = TypeAfter(server, T[visited + 1 - 1], s)
      BY <1>2, <1>3, TypesFollow
    <2> QED
      BY <1>3, <1>5, <2>1
  <1>7. IsDeclared(server, types[n], s)
    <2>1. IsPath(server, request.path)
      BY <1>2, ModelledAssumption, Zenon DEF IsModelled
    <2>2. \A i \in DOMAIN request.path :
              IsDeclared(server, TypesOf(server, request.path)[i - 1], request.path[i])
      BY <2>1 DEF IsPath
    <2>3. PICK i \in DOMAIN request.path : i = visited + 1 /\ i - 1 = visited
      BY <1>2, <1>3
    <2>4. IsDeclared(server, TypesOf(server, request.path)[i - 1], request.path[i])
      BY <2>2
    <2> QED
      BY <1>5, <2>3, <2>4
  <1>8. ctrl = None /\ result = NoResult
    BY <1>1 DEF Typed
  <1>9. ASSUME NEW t, Follows(t)', t[Len(navigation')] = T[visited + 1]
        PROVE  TypedInv'
    <2>1. TypesOf(server, request.path)'[visited'] = T[visited + 1]
      BY <1>1
    <2>2. CtrlsInv'
      BY <1>1 DEF Typed, CtrlsInv, Classes
    <2>3. Typed(t)'
      BY <1>1, <1>8, <1>9, <2>1, <2>2 DEF Typed
    <2> QED
      BY <1>9, <2>3 DEF TypedInv
  <1> HIDE DEF s, T, n
  <1>10. CASE s.type \in {"SimpleKey", "CompoundKey"}
    <2>1. navigation' = [navigation EXCEPT ![Len(navigation)].key = s.key]
      BY <1>1, <1>10 DEF VisitSegment
    <2>2. SameParts
      BY <2>1, KeyGiven DEF RequestInv
    <2>3. Follows(types)'
      BY <1>1, <2>2, TypesStay
    <2>4. TypeAfter(server, types[n], s) = types[n]
      BY <1>10 DEF TypeAfter, Navigations, Properties
    <2> QED
      BY <1>6, <1>9, <2>2, <2>3, <2>4 DEF SameParts, n
  <1>11. CASE \/ s.type = "QualifiedEntityTypeName" /\ s.name \notin server.children
              \/ s.type = "SingletonEntity"
    <2>1. navigation' = navigation
      BY <1>1, <1>11 DEF VisitSegment
    <2>2. Follows(types)'
      BY <1>1, <2>1 DEF Follows
    <2>3. TypeAfter(server, types[n], s) = types[n]
      BY <1>11 DEF TypeAfter, Navigations, Properties
    <2> QED
      BY <1>6, <1>9, <2>1, <2>2, <2>3 DEF n
  <1>12. CASE ~(\/ s.type \in {"SimpleKey", "CompoundKey"}
                \/ s.type = "QualifiedEntityTypeName" /\ s.name \notin server.children
                \/ s.type = "SingletonEntity")
    <2>1. navigation' = Append(navigation, s)
      BY <1>1, <1>12 DEF VisitSegment
    <2>2. /\ Len(navigation') = n + 1 /\ DOMAIN navigation' = 1..(n + 1)
          /\ navigation'[n + 1] = s
          /\ \A i \in 1..n : navigation'[i] = navigation[i]
      <3>1. Append(navigation, s) \in Seq(Segment)
        BY <1>2, <1>4
      <3> QED
        BY <1>2, <1>4, <2>1, <3>1, AppendProperties, LenProperties DEF n
    <2> DEFINE further == [i \in 0..(n + 1) |-> IF i <= n THEN types[i]
                                                ELSE TypeAfter(server, types[n], s)]
    <2>3. PICK t : t = further
      OBVIOUS
    <2>4. t[n + 1] = TypeAfter(server, types[n], s) /\ \A i \in 0..n : t[i] = types[i]
      BY <1>2, <2>3
    <2> HIDE DEF further
    <2>5. t[0] = None
      BY <1>2, <2>4 DEF Follows
    <2>6. ASSUME NEW i \in 1..(n + 1)
          PROVE  /\ t[i] = TypeAfter(server, t[i - 1], navigation'[i])
                 /\ IsDeclared(server, t[i - 1], navigation'[i])
                 /\ navigation'[i].type = "QualifiedEntityTypeName" =>
                        navigation'[i].name \in server.children
      <3>1. CASE i \in 1..n
        <4>1. i \in 0..n /\ i - 1 \in 0..n
          BY <1>2, <3>1
        <4>2. t[i] = types[i] /\ t[i - 1] = types[i - 1] /\ navigation'[i] = navigation[i]
          BY <2>2, <2>4, <3>1, <4>1
        <4> QED
          BY <1>2, <3>1, <4>2 DEF Follows
      <3>2. CASE i = n + 1
        <4>1. i - 1 = n /\ n \in 0..n
          BY <1>2, <3>2
        <4>2. t[i - 1] = types[n] /\ navigation'[i] = s
          BY <2>2, <2>4, <3>2, <4>1
        <4> QED
          BY <1>7, <1>12, <2>4, <3>2, <4>2
      <3> QED
        BY <1>2, <3>1, <3>2
    <2>7. Follows(t)'
      BY <1>1, <2>2, <2>5, <2>6 DEF Follows
    <2> QED
      BY <1>6, <1>9, <2>2, <2>4, <2>7
  <1> QED
    BY <1>10, <1>11, <1>12

(* What comes to an end has types still.                                       *)
LEMMA TypedOver ==
    ASSUME NEW types, Follows(types), Typed(types),
           UNCHANGED <<server, navigation, ctrl, prevCtrl>>, outcome' \in {"error", "done"}
    PROVE  TypedInv'
  <1>1. Follows(types)'
    BY DEF Follows
  <1>2. Typed(types)'
    BY DEF Typed, CtrlsInv, Classes
  <1> QED
    BY <1>1, <1>2 DEF TypedInv

LEMMA TypedUnchanged ==
    ASSUME TypedInv, UNCHANGED processorVars
    PROVE  TypedInv'
  <1>1. UNCHANGED <<server, request, visited, navigation, ctrl, prevCtrl, result,
                    stage, outcome>>
    BY DEF processorVars, dispatchVars, requestVars, stageVars
  <1>2. PICK types : Follows(types) /\ Typed(types)
    BY DEF TypedInv
  <1>3. Follows(types)'
    BY <1>1, <1>2 DEF Follows
  <1>4. Part' = Part
    BY <1>1 DEF Part, Index
  <1>5. Typed(types)'
    <2> HIDE DEF Part
    <2> QED
      BY <1>1, <1>2, <1>4 DEF Typed, CtrlsInv, Classes
  <1> QED
    BY <1>3, <1>5 DEF TypedInv

(* Before the stages and after a stream.                                       *)
LEMMA TypedAround ==
    ASSUME RequestInv, ValueInv, NEW types, Follows(types), Typed(types),
           Load \/ Begin \/ PushStages \/ StreamEnds
    PROVE  TypedInv'
  <1>1. /\ UNCHANGED <<server, navigation, ctrl, prevCtrl, result>>
        /\ Len(navigation) \in Nat /\ types[0] = None
    <2>1. Decorate => UNCHANGED server
      BY DEF Decorate
    <2>2. UNCHANGED <<server, navigation, ctrl, prevCtrl, result>>
      BY <2>1 DEF Load, Begin, PushStages, StreamEnds, dispatchVars, requestVars, stageVars
    <2> QED
      BY <2>2, LenProperties DEF RequestInv, NavigationInv, Follows
  <1>2. Follows(types)'
    BY <1>1 DEF Follows
  <1>3. CtrlsInv' /\ Classes' = Classes
    BY <1>1 DEF Typed, CtrlsInv, Classes
  <1>4. CASE Load
    <2>1. outcome = "load" /\ outcome' = "load"
      BY <1>4 DEF Load, stageVars
    <2> QED
      BY <1>1, <1>2, <1>3, <2>1 DEF Typed, TypedInv
  <1>5. CASE Begin
    <2>1. /\ outcome = "load" /\ outcome' = "visiting" /\ visited' = visited
          /\ request' \in Requests[server.name]
      BY <1>5 DEF Begin
    <2>2. /\ visited = 0 /\ Len(navigation') = 0
          /\ Len(request'.path) \in Nat
      <3>1. visited = 0 /\ navigation = <<>> /\ server \in Servers
        BY <2>1 DEF RequestInv, NavigationInv, ValueInv
      <3>2. request'.path \in Seq(Segment)
        BY <2>1, <3>1, RequestTypes
      <3> QED
        BY <1>1, <3>1, <3>2, LenProperties
    <2>3. TypesOf(server', request'.path)[visited'] = None
      BY <2>1, <2>2, TypesFollow
    <2> QED
      BY <1>1, <1>2, <1>3, <2>1, <2>2, <2>3 DEF Typed, TypedInv
  <1>6. CASE PushStages
    <2>1. /\ outcome = "visiting" /\ outcome' \in {"error", "running"}
          /\ stage = 0 /\ stage' = 0
      BY <1>6 DEF PushStages, RequestInv, StageInv
    <2>2. result'.type = None
      BY <1>1, <2>1 DEF Typed, NoResult
    <2>3. Typed(types)'
      BY <1>1, <1>3, <2>1, <2>2 DEF Typed
    <2> QED
      BY <1>2, <2>3 DEF TypedInv
  <1>7. CASE StreamEnds
    <2>1. /\ outcome = "streaming" /\ outcome' = "running"
          /\ ctrl \in Classes /\ result.type = None
      BY <1>7 DEF StreamEnds, Typed
    <2>2. Typed(types)'
      BY <1>1, <1>3, <2>1 DEF Typed
    <2> QED
      BY <1>2, <2>2 DEF TypedInv
  <1> QED
    BY <1>4, <1>5, <1>6, <1>7

(* The steps between two segments, or around them.                             *)
AStage == \/ SkipStage \/ EntitySetName
          \/ EntityCollectionNavigationProperty \/ EntityNavigationProperty
          \/ Property \/ QualifiedTypeName \/ BoundOperation \/ OperationImport
          \/ Count(resultCount) \/ RawValue \/ Reference

LEMMA RunsAStage ==
    ASSUME AStage
    PROVE  outcome = "running" /\ stage < Len(navigation)
  BY Zenon DEF AStage, SkipStage, EntitySetName, EntityCollectionNavigationProperty,
     EntityNavigationProperty, Property, QualifiedTypeName, BoundOperation,
     OperationImport, Count, RawValue, Reference, At

LEMMA TypedStep ==
    ASSUME RequestInv, ValueInv, TypedInv, [ResponseNext]_responseVars
    PROVE  TypedInv'
  <1>1. PICK types : Follows(types) /\ Typed(types)
    BY DEF TypedInv
  <1>2. ASSUME NEW code, Fails(code)
        PROVE  TypedInv'
    BY <1>1, <1>2, TypedOver DEF Fails, dispatchVars, requestVars
  <1>3. CASE AStage /\ Working
    <2>1. TypeLeaves(types)
      BY <1>1, <1>3, StageLeavesType DEF AStage
    <2>2. UNCHANGED <<request, visited>> /\ SameParts
      BY <1>3, StagesKeepParts DEF AStage, RequestInv
    <2>3. UNCHANGED server
      BY <1>3, SegmentsOnlyRead DEF Decorate, dispatchVars
    <2> QED
      BY <1>1, <1>3, <2>1, <2>2, <2>3, RunsAStage, TypesOfStage
  <1>4. CASE Visit
    BY <1>1, <1>4, VisitTyped
  <1>5. CASE Load \/ Begin \/ PushStages \/ StreamEnds
    BY <1>1, <1>5, TypedAround
  <1>6. CASE MethodThrows
    BY <1>2, <1>6 DEF MethodThrows
  <1>7. CASE Finish(Heard)
    <2>1. UNCHANGED <<server, navigation, ctrl, prevCtrl>> /\ outcome' \in {"error", "done"}
      BY <1>7 DEF Finish, dispatchVars, requestVars
    <2> QED
      BY <1>1, <2>1, TypedOver
  <1>8. CASE UNCHANGED processorVars
    BY <1>8, TypedUnchanged
  <1>9. CASE \/ StartStream \/ Streaming \/ Deliver \/ DeliverError \/ AfterAnswer
             \/ UNCHANGED responseVars
    <2>1. UNCHANGED processorVars
      BY <1>9, Zenon DEF StartStream, Streaming, Deliver, DeliverError, AfterAnswer,
                         responseVars
    <2> QED
      BY <1>8, <2>1
  <1>10. CASE StageResumes
    <2>1. StreamEnds \/ \E code : Fails(code)
      BY <1>10, Zenon DEF StageResumes
    <2> QED
      BY <1>2, <1>5, <2>1
  <1>11. CASE Working
    <2>1. Working =>
             AStage \/ Load \/ Begin \/ Visit \/ PushStages \/ MethodThrows \/ Finish(Heard)
      BY Zenon DEF Working, AStage
    <2> QED
      BY <1>3, <1>4, <1>5, <1>6, <1>7, <1>11, <2>1
  <1> QED
    BY <1>9, <1>10, <1>11 DEF ResponseNext

LEMMA TypedStarts == ResponseInit => TypedInv
  <1> SUFFICES ASSUME ResponseInit
               PROVE  TypedInv
    OBVIOUS
  <1>1. /\ navigation = <<>> /\ outcome = "load" /\ ctrl = None /\ prevCtrl = None
        /\ result = NoResult
    BY DEF ResponseInit, ProcessorInit
  <1> DEFINE types == [i \in 0..0 |-> None]
  <1>2. types[0] = None /\ DOMAIN <<>> = {}
    OBVIOUS
  <1> HIDE DEF types
  <1>3. Follows(types) /\ Typed(types)
    BY <1>1, <1>2 DEF Follows, Typed, CtrlsInv
  <1> QED
    BY <1>3 DEF TypedInv

-----------------------------------------------------------------------------
(* The keys of the calls.                                                      *)

(* The part that has the key which a call is about.                            *)
KeyPart(c) ==
    LET type == navigation[c.part].type
    IN IF type \in Properties \cup {"ValueExpression"} THEN c.part - 1
       ELSE IF type = "RefExpression" THEN c.part - 2
       ELSE c.part

(* Every call has the keys of its part, which keeps its key since.             *)
HeldInv ==
    /\ \A i \in DOMAIN navigation : IsKeySeq(navigation[i].key)
    /\ \A k \in DOMAIN calls :
           calls[k].fnKey # <<>> =>
               /\ KeyPart(calls[k]) \in DOMAIN navigation
               /\ FitsKey(calls[k], navigation[KeyPart(calls[k])].key)

(* What a call of the part at work must hold to.                               *)
Holds(c) ==
    /\ c.part = Index
    /\ c.fnKey # <<>> => /\ KeyPart(c) \in DOMAIN navigation
                         /\ FitsKey(c, navigation'[KeyPart(c)].key)
Held ==
    /\ SameParts
    /\ \A i \in DOMAIN navigation : i # Index => navigation'[i].key = navigation[i].key
    /\ IsKeySeq(navigation'[Index].key)
    /\ calls' = calls \/ \E c : calls' = Append(calls, c) /\ Holds(c)

LEMMA HeldOn ==
    ASSUME RequestInv, HeldInv, outcome = "running", stage < Len(navigation), Held
    PROVE  HeldInv'
  <1>1. /\ Len(navigation) \in Nat /\ DOMAIN navigation = 1..Len(navigation)
        /\ stage \in Nat /\ Index = stage + 1 /\ Index \in DOMAIN navigation
    BY LenProperties DEF RequestInv, NavigationInv, StageInv, Index
  <1>2. DOMAIN navigation' = DOMAIN navigation
        /\ \A i \in DOMAIN navigation : navigation'[i].type = navigation[i].type
    BY DEF Held, SameParts
  <1>3. \A i \in DOMAIN navigation' : IsKeySeq(navigation'[i].key)
    BY <1>2 DEF Held, HeldInv
  <1>4. ASSUME NEW c, c.part \in DOMAIN navigation
        PROVE  KeyPart(c)' = KeyPart(c)
    BY <1>2, <1>4 DEF KeyPart
  <1>5. ASSUME NEW k \in DOMAIN calls, NEW c, c = calls[k], c.fnKey # <<>>
        PROVE  /\ KeyPart(c)' \in DOMAIN navigation'
               /\ FitsKey(c, navigation'[KeyPart(c)'].key)
    <2>1. c.part \in 1..stage
      BY <1>5 DEF RequestInv, StageInv, Reached
    <2>2. c.part \in DOMAIN navigation /\ c.part < Index /\ c.part \in Int
      BY <1>1, <2>1
    <2>3. KeyPart(c) \in {c.part, c.part - 1, c.part - 2}
      BY DEF KeyPart
    <2>4. KeyPart(c) # Index
      <3> DEFINE p == c.part
      <3>1. p \in Int /\ p < Index /\ Index \in Int
        BY <1>1, <2>2
      <3> HIDE DEF p
      <3>2. \A q \in {p, p - 1, p - 2} : q # Index
        BY <3>1
      <3> QED
        BY <2>3, <3>2 DEF p
    <2>5. KeyPart(c) \in DOMAIN navigation /\ FitsKey(c, navigation[KeyPart(c)].key)
      BY <1>5 DEF HeldInv
    <2>6. navigation'[KeyPart(c)].key = navigation[KeyPart(c)].key
      BY <2>4, <2>5 DEF Held
    <2> QED
      BY <1>2, <1>4, <2>2, <2>5, <2>6
  <1>6. ASSUME NEW k \in DOMAIN calls', NEW c, c = calls'[k], c.fnKey # <<>>
        PROVE  /\ KeyPart(c)' \in DOMAIN navigation'
               /\ FitsKey(c, navigation'[KeyPart(c)'].key)
    <2>1. CASE calls' = calls
      BY <1>5, <1>6, <2>1
    <2>2. CASE calls' # calls
      <3>1. PICK d : calls' = Append(calls, d) /\ Holds(d)
        BY <2>2 DEF Held
      <3> DEFINE longer == Append(calls, d)
      <3>2. /\ DOMAIN calls = 1..Len(calls) /\ DOMAIN longer = 1..Len(longer)
            /\ Len(longer) = Len(calls) + 1 /\ Len(calls) \in Nat
            /\ longer[Len(calls) + 1] = d
            /\ \A m \in 1..Len(calls) : longer[m] = calls[m]
        <4>1. calls \in Seq(Range(calls))
          BY DEF RequestInv, StageInv
        <4> QED
          BY <4>1, AppendCall, ZenonT(60)
      <3> HIDE DEF longer
      <3>3. calls' = longer
        BY <3>1 DEF longer
      <3>4. CASE k \in 1..Len(calls)
        BY <1>5, <1>6, <3>2, <3>3, <3>4
      <3>5. CASE k = Len(calls) + 1
        <4>1. c = d
          BY <1>6, <3>2, <3>3, <3>5
        <4> QED
          BY <1>1, <1>2, <1>4, <1>6, <3>1, <4>1 DEF Holds
      <3>6. k \in 1..(Len(calls) + 1)
        BY <1>6, <3>2, <3>3
      <3> QED
        BY <3>2, <3>4, <3>5, <3>6
    <2> QED
      BY <2>1, <2>2
  <1> QED
    BY <1>3, <1>6 DEF HeldInv

(* Neither a call nor a key is new.                                            *)
LEMMA HeldStill ==
    ASSUME HeldInv, UNCHANGED <<navigation, calls>>
    PROVE  HeldInv'
  BY DEF HeldInv, KeyPart

LEMMA FieldsOfCall ==
    ASSUME NEW class, NEW found, NEW fn, NEW verb, NEW params, NEW filter
    PROVE  LET c == Call(class, found, fn, verb, params, filter)
           IN c.part = Index /\ c.fnKey = fn.key /\ c.params = params
  BY DEF Call

(* A read has the key of its part from then on.                                *)
LEMMA ReadHolds ==
    ASSUME RequestInv, DispatchInv, HeldInv, outcome = "running", stage < Len(navigation),
           NEW c \in Classes, NEW part, NEW filter, IsKeySeq(part.key), Read(c, part, filter),
           Part.type \notin Properties \cup {"ValueExpression", "RefExpression"}
    PROVE  HeldInv'
  <1>1. /\ Index \in DOMAIN navigation
        /\ \A i \in DOMAIN navigation : IsPart(navigation[i])
    BY LenProperties DEF RequestInv, NavigationInv, StageInv, Index
  <1>2. CASE UNCHANGED <<navigation, calls>>
    BY <1>2, HeldStill
  <1>3. CASE ~UNCHANGED <<navigation, calls>>
    <2> DEFINE fn == FindODataMethod(c, <<Verb, "">>, part.key)
               params == AssignKeys(KeyParams(part.key), fn.key, part.key)
               call == Call(c, c, fn, Verb, params, filter)
    <2>1. /\ calls' = Append(calls, call)
          /\ navigation' = [navigation EXCEPT ![Index].key = part.key]
      <3>1. PICK f, p :
               /\ f = FindODataMethod(c, <<Verb, "">>, part.key)
               /\ p = AssignKeys(KeyParams(part.key), f.key, part.key)
               /\ IF f = NoMethod THEN Fails(501)
                  ELSE /\ calls' = Append(calls, Call(c, c, f, Verb, p, filter))
                       /\ navigation' = [navigation EXCEPT ![Index].key = part.key]
        BY Zenon DEF Read
      <3>2. f = fn /\ p = params
        BY <3>1
      <3>3. f # NoMethod
        BY <1>3, <3>1 DEF Fails, requestVars
      <3>4. calls' = Append(calls, Call(c, c, f, Verb, p, filter))
            /\ navigation' = [navigation EXCEPT ![Index].key = part.key]
        BY <3>1, <3>3
      <3> HIDE DEF fn, params
      <3> QED
        BY <3>2, <3>4
    <2>2. call.part = Index /\ call.fnKey = fn.key /\ call.params = params
      <3> HIDE DEF fn, params
      <3> QED
        BY FieldsOfCall
    <2> DEFINE last == [navigation[Index] EXCEPT !.key = part.key]
    <2>3. last.key = part.key
      <3>1. navigation[Index] = [type |-> navigation[Index].type,
                                 name |-> navigation[Index].name,
                                 key |-> navigation[Index].key]
        BY <1>1, Zenon DEF IsPart
      <3> QED
        BY <3>1
    <2>4. navigation' = [navigation EXCEPT ![Index] = last]
      BY <2>1, Zenon
    <2> HIDE DEF last
    <2>5. navigation'[Index].key = part.key
          /\ \A i \in DOMAIN navigation : i # Index => navigation'[i].key = navigation[i].key
      BY <1>1, <2>3, <2>4
    <2>6. FitsKey(call, part.key)
      <3> HIDE DEF call
      <3> QED
        BY <2>2, CallFits DEF params, fn
    <2> HIDE DEF fn, params, call
    <2>7. KeyPart(call) = Index
      BY <2>2 DEF KeyPart, Part
    <2>8. Holds(call)
      BY <1>1, <2>2, <2>5, <2>6, <2>7 DEF Holds
    <2>9. SameParts
      BY <2>1, KeyGiven DEF RequestInv
    <2>10. Held
      BY <2>1, <2>5, <2>8, <2>9 DEF Held
    <2> QED
      BY <2>10, HeldOn
  <1> QED
    BY <1>2, <1>3

(* A call that leaves the keys alone, with those of the part that has them.    *)
LEMMA CallHolds ==
    ASSUME RequestInv, DispatchInv, HeldInv, outcome = "running", stage < Len(navigation),
           UNCHANGED navigation, NEW c \in Classes, NEW type, NEW i \in DOMAIN navigation,
           NEW call, calls' = Append(calls, call), call.part = Index, KeyPart(call) = i,
           call.fnKey = FindODataMethod(c, type, navigation[i].key).key,
           \/ call.params = AssignKeys(KeyParams(navigation[i].key), call.fnKey,
                                       navigation[i].key)
           \/ call.params = KeysAgain(AssignKeys(KeyParams(navigation[i].key), call.fnKey,
                                                 navigation[i].key), navigation[i].key)
    PROVE  HeldInv'
  <1>1. \A j \in DOMAIN navigation : IsKeySeq(navigation[j].key)
    BY DEF HeldInv
  <1>2. Index \in DOMAIN navigation
    BY LenProperties DEF RequestInv, NavigationInv, StageInv, Index
  <1>3. FitsKey(call, navigation[i].key)
    BY <1>1, CallFits
  <1>4. Holds(call)
    BY <1>3 DEF Holds
  <1>5. Held
    BY <1>1, <1>2, <1>4, PartsUnchanged DEF Held, RequestInv
  <1> QED
    BY <1>5, HeldOn

(* The stages of a set, and of what is navigated to.                           *)
LEMMA EntityHolds ==
    ASSUME RequestInv, DispatchInv, HeldInv, TypedInv,
           EntitySetName \/ EntityCollectionNavigationProperty \/ EntityNavigationProperty
    PROVE  HeldInv'
  <1>1. /\ outcome = "running" /\ stage < Len(navigation)
        /\ Part.type \in {"EntitySetName"} \cup Navigations
    BY DEF EntitySetName, EntityCollectionNavigationProperty, EntityNavigationProperty, At,
           Navigations
  <1>2. /\ Index \in DOMAIN navigation /\ server \in Servers /\ IsKeySeq(Part.key)
        /\ Part = [type |-> Part.type, name |-> Part.name, key |-> Part.key]
    BY <1>1, LenProperties DEF RequestInv, NavigationInv, StageInv, Index, HeldInv, Part,
                               IsPart
  <1>3. Part.type \notin Properties \cup {"ValueExpression", "RefExpression"}
    BY <1>1 DEF Properties, Navigations
  <1>4. PICK types : Follows(types) /\ Typed(types)
    BY DEF TypedInv
  <1>5. CASE EntitySetName
    <2>1. Part.type = "EntitySetName"
          /\ Read(ControllerOf(server.entitySets[Part.name]), Part, NoFilter)
      BY <1>5, Zenon DEF EntitySetName, At
    <2>2. ControllerOf(server.entitySets[Part.name]) \in Classes
      BY <1>1, <1>2, <1>4, <2>1, PartTypes, ControllerFacts
    <2> QED
      BY <1>1, <1>2, <1>3, <2>1, <2>2, ReadHolds
  <1>6. CASE EntityCollectionNavigationProperty \/ EntityNavigationProperty
    <2>1. Part.type \in Navigations
      BY <1>6 DEF EntityCollectionNavigationProperty, EntityNavigationProperty, At,
                  Navigations
    <2>2. ASSUME UNCHANGED <<navigation, calls>>
          PROVE  HeldInv'
      BY <2>2, HeldStill
    <2>3. ASSUME NEW key, NEW filter, IsKeySeq(key), result.type # None,
                 Navigate(Nav(result.type, Part.name), key, filter)
          PROVE  HeldInv'
      <3> DEFINE n == Nav(result.type, Part.name)
                 fn == FindODataMethod(ctrl, <<Verb, Part.name>>, Part.key)
      <3>1. result.type = types[stage] /\ ctrl \in Classes
        BY <1>1, <1>3, <1>4, <2>3 DEF Typed
      <3>2. n.target \in DOMAIN server.controllerOf
        BY <1>1, <1>4, <2>1, <3>1, PartTypes DEF Nav
      <3>3. ControllerOf(n.target) \in Classes
        BY <1>2, <3>2, ControllerFacts
      <3>4. CASE Read(ControllerOf(n.target), [Part EXCEPT !.key = key], filter)
        <4> DEFINE part == [Part EXCEPT !.key = key]
        <4>1. part.key = key
          BY <1>2
        <4> HIDE DEF part
        <4>2. Read(ControllerOf(n.target), part, filter)
          BY <3>4 DEF part
        <4> QED
          BY <1>1, <1>3, <2>3, <3>3, <4>1, <4>2, ReadHolds
      <3>5. CASE NavigateByMethod(fn, n)
        <4> DEFINE params == AssignKeys(KeyParams(Part.key), fn.key, Part.key)
                   call == Call(ctrl, ctrl, fn, Verb,
                       IF n.many THEN KeysAgain(params, Part.key) ELSE params, NoFilter)
        <4>1. calls' = Append(calls, call) /\ navigation' = navigation
          BY <3>5, Zenon DEF NavigateByMethod, requestVars
        <4>2. /\ call.part = Index /\ call.fnKey = fn.key
              /\ call.params = params \/ call.params = KeysAgain(params, Part.key)
          BY FieldsOfCall
        <4> HIDE DEF call
        <4>3. KeyPart(call) = Index
          BY <1>3, <4>2 DEF KeyPart, Part
        <4> QED
          BY <1>1, <1>2, <3>1, <4>1, <4>2, <4>3, CallHolds DEF Part
      <3> QED
        BY <2>3, <3>4, <3>5, Zenon DEF Navigate
    <2>4. ASSUME NEW code, Fails(code)
          PROVE  HeldInv'
      BY <2>2, <2>4 DEF Fails, requestVars
    <2>5. CASE EntityCollectionNavigationProperty
      <3>1. \/ Fails(404)
            \/ result.type # None
               /\ \E filter : Navigate(Nav(result.type, Part.name), Part.key, filter)
        BY <2>5, Zenon DEF EntityCollectionNavigationProperty
      <3> QED
        BY <1>2, <2>3, <2>4, <3>1
    <2>6. CASE EntityNavigationProperty
      <3>1. \/ Fails(500)
            \/ result.type # None
               /\ \E k : Navigate(Nav(result.type, Part.name), <<k>>, NoFilter)
        BY <2>6, Zenon DEF EntityNavigationProperty
      <3>2. ASSUME NEW k
            PROVE  IsKeySeq(<<k>>)
        BY DEF IsKeySeq
      <3> QED
        BY <2>3, <2>4, <3>1, <3>2
    <2> QED
      BY <1>6, <2>5, <2>6
  <1> QED
    BY <1>5, <1>6

(* The stage of a property takes the key of the entity before it.              *)
LEMMA PropertyHolds ==
    ASSUME RequestInv, DispatchInv, HeldInv, TypedInv, Property
    PROVE  HeldInv'
  <1> DEFINE key == navigation[stage].key
             fn == PropertyMethod
             call == Call(prevCtrl, ctrl, fn, request.verb,
                          AssignKeys(KeyParams(key), fn.key, key), NoFilter)
  <1>1. /\ outcome = "running" /\ stage < Len(navigation) /\ Part.type \in Properties
        /\ navigation' = navigation
        /\ calls' = calls \/ (calls' = Append(calls, call) /\ result.type # None)
    BY Zenon DEF Property, At, Fails, requestVars
  <1>2. CASE calls' = calls
    BY <1>1, <1>2, HeldStill
  <1>3. CASE calls' # calls
    <2>1. call.part = Index /\ call.fnKey = fn.key
          /\ call.params = AssignKeys(KeyParams(key), fn.key, key)
      BY FieldsOfCall
    <2>2. PICK type : fn = FindODataMethod(ctrl, type, key)
      BY Zenon DEF PropertyMethod
    <2>3. PICK types : Follows(types) /\ Typed(types)
      BY DEF TypedInv
    <2>4. types[stage] # None /\ ctrl \in Classes
      BY <1>1, <1>3, <2>3 DEF Typed, Properties
    <2>5. stage \in DOMAIN navigation /\ Index = stage + 1
      <3>1. stage # 0
        BY <2>3, <2>4 DEF Follows
      <3> QED
        BY <1>1, <3>1, LenProperties DEF RequestInv, NavigationInv, StageInv, Index
    <2>6. stage \in Nat
      BY DEF RequestInv, StageInv
    <2>7. KeyPart(call) = stage
      <3>1. KeyPart(call) = call.part - 1
        BY <1>1, <2>1 DEF KeyPart, Part
      <3> QED
        BY <2>1, <2>5, <2>6, <3>1
    <2> HIDE DEF fn, call
    <2>8. calls' = Append(calls, call)
      BY <1>1, <1>3
    <2> QED
      BY <1>1, <2>1, <2>2, <2>4, <2>5, <2>7, <2>8, CallHolds
  <1> QED
    BY <1>2, <1>3

(* So does that of $value, unless it is the first.                             *)
LEMMA RawValueHolds ==
    ASSUME RequestInv, DispatchInv, HeldInv, TypedInv, RawValue
    PROVE  HeldInv'
  <1> DEFINE key == navigation[stage].key
  <1>1. /\ outcome = "running" /\ stage < Len(navigation) /\ Part.type = "ValueExpression"
    BY DEF RawValue, At
  <1>2. navigation' = navigation
    BY ZenonT(30) DEF RawValue, Answers, Stays, FailsCalled, Fails, requestVars
  <1>3. CASE calls' = calls
    BY <1>2, <1>3, HeldStill
  <1>4. CASE calls' # calls
    <2>1. ~Fails(500)
      BY <1>4 DEF Fails
    <2>2. ~Unread /\ stage # 0
      BY <2>1, Zenon DEF RawValue
    <2>3. PICK fn : /\ \E type : fn = FindODataMethod(ctrl, type, key)
                    /\ calls' = Append(calls, Call(ctrl, ctrl, fn, request.verb,
                           AssignKeys(KeyParams(key), fn.key, key), NoFilter))
      BY <1>4, <2>1, ZenonT(60) DEF RawValue
    <2> DEFINE call == Call(ctrl, ctrl, fn, request.verb,
                            AssignKeys(KeyParams(key), fn.key, key), NoFilter)
    <2>4. call.part = Index /\ call.fnKey = fn.key
          /\ call.params = AssignKeys(KeyParams(key), fn.key, key)
      BY FieldsOfCall
    <2>5. calls' = Append(calls, call)
      BY <2>3
    <2>6. ctrl \in Classes
      BY <2>2 DEF TypedInv, Typed, CtrlsInv, Unread
    <2>7. stage \in DOMAIN navigation /\ Index = stage + 1 /\ stage \in Nat
      BY <1>1, <2>2, LenProperties DEF RequestInv, NavigationInv, StageInv, Index
    <2> HIDE DEF call
    <2>8. KeyPart(call) = stage
      <3>1. KeyPart(call) = call.part - 1
        BY <1>1, <2>4 DEF KeyPart, Part
      <3> QED
        BY <2>4, <2>7, <3>1
    <2>9. PICK type : fn = FindODataMethod(ctrl, type, key)
      BY <2>3
    <2> QED
      BY <1>1, <1>2, <2>4, <2>5, <2>6, <2>7, <2>8, <2>9, CallHolds
  <1> QED
    BY <1>3, <1>4

(* And that of $ref the key of the part before the navigation.                 *)
LEMMA ReferenceHolds ==
    ASSUME RequestInv, DispatchInv, HeldInv, TypedInv, Reference
    PROVE  HeldInv'
  <1> DEFINE key == navigation[stage - 1].key
  <1>1. /\ outcome = "running" /\ stage < Len(navigation) /\ Part.type = "RefExpression"
    BY DEF Reference, At
  <1>2. navigation' = navigation
    BY ZenonT(30) DEF Reference, Stays, Fails, requestVars
  <1>3. CASE calls' = calls
    BY <1>2, <1>3, HeldStill
  <1>4. CASE calls' # calls
    <2>1. ~Fails(500) /\ ~Fails(404)
      BY <1>4 DEF Fails
    <2>2. ~Unread /\ ~(stage < 2)
      BY <2>1, Zenon DEF Reference
    <2>3. PICK fn : /\ \E type : fn = FindODataMethod(prevCtrl, type, key)
                    /\ calls' = Append(calls, Call(prevCtrl, prevCtrl, fn, request.verb,
                           AssignKeys(KeyParams(key), fn.key, key), NoFilter))
      BY <1>4, <2>1, ZenonT(60) DEF Reference
    <2> DEFINE call == Call(prevCtrl, prevCtrl, fn, request.verb,
                            AssignKeys(KeyParams(key), fn.key, key), NoFilter)
    <2>4. call.part = Index /\ call.fnKey = fn.key
          /\ call.params = AssignKeys(KeyParams(key), fn.key, key)
      BY FieldsOfCall
    <2>5. calls' = Append(calls, call)
      BY <2>3
    <2>6. prevCtrl \in Classes
      BY <2>2 DEF TypedInv, Typed, CtrlsInv, Unread
    <2>7. stage - 1 \in DOMAIN navigation /\ Index = stage + 1 /\ stage \in Nat
      BY <1>1, <2>2, LenProperties DEF RequestInv, NavigationInv, StageInv, Index
    <2> HIDE DEF call
    <2>8. KeyPart(call) = stage - 1
      <3>1. KeyPart(call) = call.part - 2
        BY <1>1, <2>4 DEF KeyPart, Part, Properties
      <3> QED
        BY <2>4, <2>7, <3>1
    <2>9. PICK type : fn = FindODataMethod(prevCtrl, type, key)
      BY <2>3
    <2> QED
      BY <1>1, <1>2, <2>4, <2>5, <2>6, <2>7, <2>8, <2>9, CallHolds
  <1> QED
    BY <1>3, <1>4

(* Operations have no keys.                                                    *)
LEMMA OperationHolds ==
    ASSUME RequestInv, HeldInv, BoundOperation \/ OperationImport
    PROVE  HeldInv'
  <1>1. /\ outcome = "running" /\ stage < Len(navigation)
    BY DEF BoundOperation, OperationImport, At
  <1>2. \/ UNCHANGED <<navigation, calls>>
        \/ /\ navigation' = navigation
           /\ \E class, fn : /\ calls' = Append(calls, Call(class, class, fn, request.verb,
                                                            <<>>, NoFilter))
                             /\ fn.key = <<>>
    <2> DEFINE op(name) == [call |-> name, key |-> <<>>]
               called(class, name) ==
                   calls' = Append(calls, Call(class, class, op(name), request.verb,
                                               <<>>, NoFilter))
    <2>1. \/ Fails(500)
          \/ /\ \E class, name : called(class, name)
             /\ FailsCalled(500) \/ \E b, code : Stays(b, code)
      BY Zenon DEF BoundOperation, OperationImport
    <2>2. \A name : op(name).key = <<>>
      OBVIOUS
    <2> HIDE DEF op
    <2> QED
      BY <2>1, <2>2, Zenon DEF Fails, FailsCalled, Stays, requestVars
  <1>3. ASSUME navigation' = navigation, NEW class, NEW fn, fn.key = <<>>,
               calls' = Append(calls, Call(class, class, fn, request.verb, <<>>, NoFilter))
        PROVE  HeldInv'
    <2> DEFINE call == Call(class, class, fn, request.verb, <<>>, NoFilter)
    <2>1. call.part = Index /\ call.fnKey = <<>>
      BY <1>3, FieldsOfCall
    <2> HIDE DEF call
    <2>2. Holds(call)
      BY <2>1 DEF Holds
    <2>3. IsKeySeq(navigation[Index].key)
      BY <1>1, LenProperties DEF RequestInv, NavigationInv, StageInv, Index, HeldInv
    <2>4. Held
      BY <1>3, <2>2, <2>3, PartsUnchanged DEF Held, RequestInv, call
    <2> QED
      BY <1>1, <2>4, HeldOn
  <1> QED
    BY <1>2, <1>3, HeldStill

LEMMA HeldStep ==
    ASSUME RequestInv, DispatchInv, TypedInv, HeldInv, [ResponseNext]_responseVars
    PROVE  HeldInv'
  <1>1. ASSUME UNCHANGED <<navigation, calls>>
        PROVE  HeldInv'
    BY <1>1, HeldStill
  <1>2. CASE Visit
    <2>1. outcome' = "visiting" /\ outcome = "visiting" /\ calls' = calls
      BY <1>2 DEF Visit, stageVars
    <2>2. RequestInv'
      BY <1>2, BeforePreserves
    <2>3. navigation' \in Seq(Segment) /\ calls' = <<>>
      BY <2>1, <2>2 DEF RequestInv, NavigationInv, StageInv
    <2>4. ASSUME NEW nav \in Seq(Segment), NEW i \in DOMAIN nav
          PROVE  IsKeySeq(nav[i].key)
      <3>1. nav[i] \in Segment
        BY <2>4, LenProperties, ElementOfSeq
      <3>2. nav[i].key \in Seq([name : STRING, value : Int])
        BY <3>1 DEF Segment
      <3> QED
        BY <3>2, LenProperties DEF IsKeySeq
    <2>5. DOMAIN <<>> = {}
      OBVIOUS
    <2> QED
      BY <2>3, <2>4, <2>5 DEF HeldInv
  <1>3. CASE EntitySetName \/ EntityCollectionNavigationProperty \/ EntityNavigationProperty
    BY <1>3, EntityHolds
  <1>4. CASE Property \/ RawValue \/ Reference \/ BoundOperation \/ OperationImport
    BY <1>4, PropertyHolds, RawValueHolds, ReferenceHolds, OperationHolds
  <1>5. CASE \/ Load \/ Begin \/ PushStages \/ SkipStage \/ QualifiedTypeName \/ Count(resultCount)
             \/ MethodThrows \/ Finish(Heard) \/ StageResumes
    <2>1. UNCHANGED <<navigation, calls>>
      BY <1>5, Zenon DEF Load, Begin, PushStages, SkipStage, QualifiedTypeName, Count,
         MethodThrows, Finish, StageResumes, StreamEnds, Fails, Answers, Stays, requestVars,
         stageVars
    <2> QED
      BY <1>1, <2>1
  <1>6. CASE \/ StartStream \/ Streaming \/ Deliver \/ DeliverError \/ AfterAnswer
             \/ UNCHANGED responseVars
    <2>1. UNCHANGED processorVars
      BY <1>6, Zenon DEF StartStream, Streaming, Deliver, DeliverError, AfterAnswer,
                         responseVars
    <2> QED
      BY <1>1, <2>1 DEF processorVars, requestVars, stageVars
  <1> QED
    BY <1>2, <1>3, <1>4, <1>5, <1>6, Zenon DEF ResponseNext, Working

LEMMA HeldStarts == ResponseInit => HeldInv
  <1> SUFFICES ASSUME ResponseInit
               PROVE  HeldInv
    OBVIOUS
  <1>1. navigation = <<>> /\ calls = <<>> /\ DOMAIN <<>> = {}
    BY DEF ResponseInit, ProcessorInit
  <1> QED
    BY <1>1 DEF HeldInv

(* Whatever the URL, and whichever of the methods of its controllers a part is *)
(* served by: each key parameter of a called method gets the key of that name  *)
(* in the URL, or the only key.                                                *)
THEOREM KeysFitHolds == ResponseSpec => []KeysFit
  <1>1. RequestInv /\ CountedInv /\ TypedInv /\ [ResponseNext]_responseVars => TypedInv'
    BY TypedStep DEF CountedInv
  <1>2. /\ RequestInv /\ DispatchInv /\ TypedInv /\ HeldInv
        /\ [ResponseNext]_responseVars
        => HeldInv'
    BY HeldStep
  <1>3. ASSUME HeldInv
        PROVE  KeysFit
    <2> SUFFICES ASSUME NEW k \in DOMAIN calls,
                        calls[k].fnKey # <<>>, KeyOf(calls[k]) # <<>>,
                        ~Misnamed(calls[k].fnKey, KeyOf(calls[k])),
                        NEW i \in DOMAIN calls[k].fnKey
                 PROVE  Value(calls[k].params, calls[k].fnKey[i].to) =
                            Meant(calls[k].fnKey, KeyOf(calls[k]), i)
      BY Zenon DEF KeysFit, Meant
    <2>1. KeyOf(calls[k]) = navigation[KeyPart(calls[k])].key
      BY DEF KeyOf, KeyPart, Properties
    <2>2. FitsKey(calls[k], KeyOf(calls[k]))
      BY <1>3, <2>1 DEF HeldInv
    <2> QED
      BY <2>2 DEF FitsKey
  <1> QED
    BY <1>1, <1>2, <1>3, TypedStarts, HeldStarts, RequestHolds, MetadataHolds,
       CountedHolds, PTL DEF ResponseSpec
===============================================================================
