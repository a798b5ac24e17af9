---------------------------- MODULE ServiceProofs ----------------------------
(***************************************************************************)
(* What holds of the services for every model, every hooks and every calls *)
(* that start together.  The cache of rules holds under every key what     *)
(* would be made anew for it, so a payload is checked by its own rules.    *)
(* What a call has done and what its place in the code has still to do is  *)
(* always its whole course.  And the children of a deep insert are awaited *)
(* by a parent that has not returned, so none of their descendants is left *)
(* when it does.                                                           *)
(***************************************************************************)
EXTENDS Service, SequenceTheorems, FiniteSetTheorems, WellFoundedInduction, TLAPS

-----------------------------------------------------------------------------
(* The hooks of an entity and a type *)

Found(entity, type) == {i \in DOMAIN Hooks : Hooks[i].entity = entity /\ Hooks[i].type = type}

\* Hook i comes before hook j.
Sooner(i, j) ==
  \/ Hooks[i].order < Hooks[j].order
  \/ Hooks[i].order = Hooks[j].order /\ i < j

InOrder(s) == \A m, n \in DOMAIN s : m < n => Sooner(s[m], s[n])

RankIn(found, i) == Cardinality({j \in found : Sooner(j, i) \/ j = i})

\* The hooks that are found are as many as there are places for them.
LEMMA FoundFacts ==
  ASSUME NEW entity, NEW type, NEW found, found = Found(entity, type)
  PROVE  /\ IsFiniteSet(found) /\ Cardinality(found) \in Nat
         /\ \A i \in found : i \in Nat /\ i \in DOMAIN Hooks /\ Hooks[i].order \in Int
<1>1. Len(Hooks) \in Nat /\ DOMAIN Hooks = 1 .. Len(Hooks)
  BY HooksAssumption, LenProperties
<1>2. IsFiniteSet(1 .. Len(Hooks))
  BY <1>1, FS_Interval
<1>3. found \subseteq 1 .. Len(Hooks)
  BY <1>1 DEF Found
<1>4. IsFiniteSet(found)
  BY <1>2, <1>3, FS_Subset
<1> QED
  BY <1>1, <1>3, <1>4, FS_CardinalityType, HooksAssumption

\* Ranks are places, one for every hook, and follow the order.
LEMMA RanksFollow ==
  ASSUME NEW entity, NEW type, NEW found, found = Found(entity, type)
  PROVE  /\ \A i \in found : RankIn(found, i) \in 1 .. Cardinality(found)
         /\ \A i, k \in found : Sooner(i, k) => RankIn(found, i) < RankIn(found, k)
         /\ \A i, k \in found : i = k \/ Sooner(i, k) \/ Sooner(k, i)
         /\ \A i, k \in found : Sooner(i, k) => i # k /\ ~Sooner(k, i)
<1> DEFINE Upto(i) == {j \in found : Sooner(j, i) \/ j = i}
<1>0. /\ IsFiniteSet(found) /\ Cardinality(found) \in Nat
      /\ \A i \in found : i \in Nat /\ Hooks[i].order \in Int
  BY FoundFacts
<1>1. \A i, k \in found : i = k \/ Sooner(i, k) \/ Sooner(k, i)
  BY <1>0 DEF Sooner
<1>2. \A i, k \in found : Sooner(i, k) => i # k /\ ~Sooner(k, i)
  BY <1>0 DEF Sooner
<1>3. \A i, j, k \in found : Sooner(i, j) /\ Sooner(j, k) => Sooner(i, k)
  BY <1>0 DEF Sooner
<1>4. ASSUME NEW i \in found
      PROVE  IsFiniteSet(Upto(i)) /\ RankIn(found, i) \in 1 .. Cardinality(found)
  <2>1. /\ IsFiniteSet(Upto(i)) /\ Cardinality(Upto(i)) \in Nat
        /\ Cardinality(Upto(i)) <= Cardinality(found)
    <3>1. Upto(i) \in SUBSET found
      OBVIOUS
    <3> QED
      BY <3>1, <1>0, FS_Subset, FS_CardinalityType
  <2>2. i \in Upto(i) /\ Cardinality(Upto(i)) # 0
    BY <2>1, FS_EmptySet
  <2>3. RankIn(found, i) = Cardinality(Upto(i))
    BY DEF RankIn
  <2> QED
    BY <2>1, <2>2, <2>3, <1>0
<1>5. ASSUME NEW i \in found, NEW k \in found, Sooner(i, k)
      PROVE  RankIn(found, i) < RankIn(found, k)
  <2>1. Upto(i) \in SUBSET Upto(k) /\ k \in Upto(k) /\ k \notin Upto(i)
    BY <1>2, <1>3, <1>5
  <2>2. Upto(i) # Upto(k)
    BY <2>1
  <2>3. /\ Cardinality(Upto(i)) <= Cardinality(Upto(k))
        /\ Cardinality(Upto(i)) # Cardinality(Upto(k))
    BY <2>1, <2>2, <1>4, FS_Subset
  <2>4. RankIn(found, i) = Cardinality(Upto(i)) /\ RankIn(found, k) = Cardinality(Upto(k))
    BY DEF RankIn
  <2>5. /\ RankIn(found, i) \in 1 .. Cardinality(found)
        /\ RankIn(found, k) \in 1 .. Cardinality(found)
    BY <1>4, Zenon
  <2>6. RankIn(found, i) \in Int /\ RankIn(found, k) \in Int
    BY <2>5, <1>0
  <2> HIDE DEF Upto
  <2> QED
    BY <2>3, <2>4, <2>6
<1> QED
  BY <1>1, <1>2, <1>4, <1>5

\* In a sequence of all the hooks that is in order each is at its rank.
LEMMA OrderedByRank ==
  ASSUME NEW entity, NEW type, NEW found, found = Found(entity, type),
         NEW s \in SetToSeqs(found), InOrder(s)
  PROVE  /\ s \in [1 .. Cardinality(found) -> found]
         /\ \A n \in 1 .. Cardinality(found) : RankIn(found, s[n]) = n
<1> DEFINE N == Cardinality(found)
<1>0. IsFiniteSet(found) /\ N \in Nat /\ IsFiniteSet(1 .. N) /\ Cardinality(1 .. N) = N
  BY FoundFacts, FS_Interval
<1>1. s \in [1 .. N -> found] /\ \A i, j \in 1 .. N : i # j => s[i] # s[j]
  BY Zenon DEF SetToSeqs
<1>2. s \in Injection(1 .. N, found)
  BY <1>1 DEF Injection, IsInjective
<1>3. s \in Surjection(1 .. N, found)
  BY <1>0, <1>2, FS_Injection
<1>4. \A i \in found : \E n \in 1 .. N : s[n] = i
  BY <1>3 DEF Surjection
<1>5. ASSUME NEW n \in 1 .. N
      PROVE  RankIn(found, s[n]) = n
  <2> DEFINE upto == {j \in found : Sooner(j, s[n]) \/ j = s[n]}
             f == [m \in 1 .. n |-> s[m]]
  <2>1. n \in Nat /\ 1 .. n \subseteq 1 .. N /\ IsFiniteSet(1 .. n) /\ Cardinality(1 .. n) = n
    BY <1>0, FS_Interval
  <2>2. \A m \in 1 .. N : s[m] \in upto <=> m <= n
    <3> TAKE m \in 1 .. N
    <3>1. m < n => Sooner(s[m], s[n])
      BY <1>0, <1>1 DEF InOrder
    <3>2. n < m => Sooner(s[n], s[m])
      BY <1>0, <1>1 DEF InOrder
    <3>3. s[m] \in found /\ s[n] \in found
      BY <1>1
    <3>4. n < m => ~Sooner(s[m], s[n]) /\ s[m] # s[n]
      BY <3>2, <3>3, RanksFollow
    <3> QED
      BY <3>1, <3>3, <3>4, <1>0
  <2>3. f \in [1 .. n -> upto]
    BY <2>1, <2>2
  <2>4. \A i, j \in 1 .. n : f[i] = f[j] => i = j
    BY <2>1, <1>1
  <2>5. \A i \in upto : \E m \in 1 .. n : f[m] = i
    <3> TAKE i \in upto
    <3>1. PICK m \in 1 .. N : s[m] = i
      BY <1>4
    <3>2. m \in 1 .. n
      BY <3>1, <2>2, <2>1
    <3> QED
      BY <3>1, <3>2
  <2>6. ExistsBijection(1 .. n, upto)
    <3>1. f \in Bijection(1 .. n, upto)
      BY <2>3, <2>4, <2>5 DEF Bijection, Injection, Surjection, IsInjective
    <3> QED
      BY <3>1 DEF ExistsBijection
  <2>7. Cardinality(upto) = n
    BY <2>1, <2>6, FS_Bijection
  <2> QED
    BY <2>7 DEF RankIn
<1> QED
  BY <1>1, <1>5

\* There is such a sequence.
LEMMA OrderExists ==
  ASSUME NEW entity, NEW type, NEW found, found = Found(entity, type)
  PROVE  /\ \A n \in 1 .. Cardinality(found) : \E i \in found : RankIn(found, i) = n
         /\ \E s \in SetToSeqs(found) : InOrder(s)
<1> DEFINE N == Cardinality(found)
           rank == [i \in found |-> RankIn(found, i)]
           s == [n \in 1 .. N |-> CHOOSE i \in found : RankIn(found, i) = n]
<1>0. IsFiniteSet(found) /\ N \in Nat /\ IsFiniteSet(1 .. N) /\ Cardinality(1 .. N) = N
  BY FoundFacts, FS_Interval
<1>1. \A i, k \in found : rank[i] = rank[k] => i = k
  BY RanksFollow, <1>0
<1>2. rank \in [found -> 1 .. N]
  BY RanksFollow
<1>3. rank \in Injection(found, 1 .. N)
  BY <1>1, <1>2 DEF Injection, IsInjective
<1>4. rank \in Surjection(found, 1 .. N)
  BY <1>0, <1>3, FS_Injection
<1>5. \A n \in 1 .. N : \E i \in found : RankIn(found, i) = n
  BY <1>4 DEF Surjection
<1>6. \A n \in 1 .. N : s[n] \in found /\ RankIn(found, s[n]) = n
  BY <1>5
<1>7. s \in [1 .. N -> found] /\ DOMAIN s = 1 .. N
  BY <1>6
<1>8. \A i, j \in 1 .. N : i # j => s[i] # s[j]
  BY <1>6
<1>9. s \in SetToSeqs(found)
  BY <1>7, <1>8, Zenon DEF SetToSeqs
<1>10. InOrder(s)
  <2> SUFFICES ASSUME NEW m \in 1 .. N, NEW n \in 1 .. N, m < n
               PROVE  Sooner(s[m], s[n])
    BY <1>7 DEF InOrder
  <2> HIDE DEF s
  <2>1. RankIn(found, s[m]) = m /\ RankIn(found, s[n]) = n /\ s[m] \in found /\ s[n] \in found
    BY <1>6
  <2>2. ~Sooner(s[n], s[m]) /\ s[m] # s[n]
    BY <2>1, RanksFollow, <1>0
  <2> QED
    BY <2>1, <2>2, RanksFollow
<1> HIDE DEF s
<1> QED
  BY <1>5, <1>9, <1>10

Names(hooks) == [n \in DOMAIN hooks |-> hooks[n].name]

\* findHooks finds every hook of the entity and the type, and none else, in
\* the order in which they have to run.
LEMMA HooksFound ==
  ASSUME NEW entity, NEW type
  PROVE  /\ FindHooks(entity, type) \in Seq(Range(Hooks))
         /\ Names(FindHooks(entity, type)) = Ranked(entity, type)
<1> DEFINE found == Found(entity, type)
           N == Cardinality(found)
           orders == {s \in SetToSeqs(found) : InOrder(s)}
           all == {[n \in DOMAIN s |-> Hooks[s[n]]] : s \in orders}
<1>0. N \in Nat /\ \A i \in found : i \in DOMAIN Hooks
  BY FoundFacts
<1>1. FindHooks(entity, type) = CHOOSE hooks \in all : TRUE
  BY Zenon DEF FindHooks, Found, Supports, InOrder, Sooner
<1>2. all # {}
  <2>1. PICK s \in SetToSeqs(found) : InOrder(s)
    BY OrderExists
  <2>2. [n \in DOMAIN s |-> Hooks[s[n]]] \in all
    BY <2>1
  <2> QED
    BY <2>2
<1>3. PICK s \in orders : FindHooks(entity, type) = [n \in DOMAIN s |-> Hooks[s[n]]]
  BY <1>1, <1>2
<1>4. /\ s \in [1 .. N -> found] /\ DOMAIN s = 1 .. N
      /\ \A n \in 1 .. N : RankIn(found, s[n]) = n
  BY OrderedByRank
<1>5. FindHooks(entity, type) = [n \in 1 .. N |-> Hooks[s[n]]]
  BY <1>3, <1>4
<1>6. FindHooks(entity, type) \in [1 .. N -> Range(Hooks)]
  BY <1>0, <1>4, <1>5 DEF Range
<1>7. Ranked(entity, type) =
        [n \in 1 .. N |-> Hooks[CHOOSE i \in found : RankIn(found, i) = n].name]
  <2>1. \A i \in found :
          {j \in found : Sooner(j, i) \/ j = i}
            = {j \in found : \/ Hooks[j].order < Hooks[i].order
                             \/ Hooks[j].order = Hooks[i].order /\ j <= i}
    BY FoundFacts DEF Sooner
  <2>2. \A i \in found :
          RankIn(found, i) =
            Cardinality({j \in found : \/ Hooks[j].order < Hooks[i].order
                                       \/ Hooks[j].order = Hooks[i].order /\ j <= i})
    BY <2>1 DEF RankIn
  <2> DEFINE own(n) == CHOOSE i \in found : RankIn(found, i) = n
             its(n) == CHOOSE i \in found :
                         Cardinality({j \in found :
                           \/ Hooks[j].order < Hooks[i].order
                           \/ Hooks[j].order = Hooks[i].order /\ j <= i}) = n
  <2>3. Ranked(entity, type) = [n \in 1 .. N |-> Hooks[its(n)].name]
    BY Zenon DEF Ranked, Found
  <2> HIDE DEF found
  <2>4. ASSUME NEW n
        PROVE  its(n) = own(n)
    BY <2>2
  <2> HIDE DEF its
  <2>5. Ranked(entity, type) = [n \in 1 .. N |-> Hooks[own(n)].name]
    BY <2>3, <2>4
  <2> QED
    BY <2>5
<1>8. \A n \in 1 .. N : (CHOOSE i \in found : RankIn(found, i) = n) = s[n]
  <2> TAKE n \in 1 .. N
  <2>1. s[n] \in found /\ RankIn(found, s[n]) = n
    BY <1>4
  <2>2. \A i \in found : RankIn(found, i) = n => i = s[n]
    <3> TAKE i \in found
    <3>1. i = s[n] \/ Sooner(i, s[n]) \/ Sooner(s[n], i)
      BY <2>1, RanksFollow
    <3>2. /\ Sooner(i, s[n]) => RankIn(found, i) < RankIn(found, s[n])
          /\ Sooner(s[n], i) => RankIn(found, s[n]) < RankIn(found, i)
      BY <2>1, RanksFollow
    <3> QED
      BY <3>1, <3>2, <2>1, <1>0
  <2> QED
    BY <2>1, <2>2
<1>9. Ranked(entity, type) = [n \in 1 .. N |-> Hooks[s[n]].name]
  BY <1>7, <1>8
<1>10. Names(FindHooks(entity, type)) = [n \in 1 .. N |-> Hooks[s[n]].name]
  BY <1>5 DEF Names
<1> QED
  BY <1>0, <1>6, <1>9, <1>10, SeqDef

-----------------------------------------------------------------------------
(* What a call has to do *)

HookNames == {Hooks[i].name : i \in DOMAIN Hooks} \cup {"insert", "update", "delete", "select"}
Entry == [what : {"started", "ended", "statement", "event"}, name : HookNames]

Starts(hook) == [what |-> "started", name |-> hook.name]
Ends(hook) == [what |-> "ended", name |-> hook.name]

\* The names of hooks are a sequence as long as theirs.
LEMMA NamesOfHooks ==
  ASSUME NEW hooks \in Seq(Range(Hooks))
  PROVE  /\ Names(hooks) \in Seq(HookNames)
         /\ Len(hooks) \in Nat /\ Len(Names(hooks)) = Len(hooks)
         /\ \A n \in 1 .. Len(hooks) : /\ Names(hooks)[n] = hooks[n].name
                                       /\ hooks[n].name \in HookNames
         /\ hooks = <<>> => Names(hooks) = <<>>
<1>1. Len(hooks) \in Nat /\ DOMAIN hooks = 1 .. Len(hooks)
  BY LenProperties
<1>2. \A n \in 1 .. Len(hooks) : hooks[n].name \in HookNames
  BY <1>1, ElementOfSeq DEF Range, HookNames
<1>3. Names(hooks) = [n \in 1 .. Len(hooks) |-> hooks[n].name]
  BY <1>1 DEF Names
<1> QED
  BY <1>1, <1>2, <1>3, SeqDef

\* Entries are made one for each name.
LEMMA EntriesOfNames ==
  ASSUME NEW names \in Seq(HookNames),
         NEW what \in {"started", "ended", "statement", "event"}
  PROVE  Entries(what, names) \in Seq(Entry)
<1>1. Len(names) \in Nat /\ DOMAIN names = 1 .. Len(names)
  BY LenProperties
<1>2. \A n \in 1 .. Len(names) : names[n] \in HookNames
  BY ElementOfSeq
<1>3. Entries(what, names) = [n \in 1 .. Len(names) |-> [what |-> what, name |-> names[n]]]
  BY <1>1 DEF Entries
<1>4. Entries(what, names) \in [1 .. Len(names) -> Entry]
  BY <1>2, <1>3 DEF Entry
<1> QED
  BY <1>1, <1>4, SeqDef

\* Two entries for every hook that is awaited.
LEMMA AwaitedEntries ==
  ASSUME NEW hooks \in Seq(Range(Hooks))
  PROVE  /\ Awaited(Names(hooks)) \in Seq(Entry)
         /\ Len(Awaited(Names(hooks))) = 2 * Len(hooks)
         /\ \A n \in 1 .. 2 * Len(hooks) :
              Awaited(Names(hooks))[n] = IF n % 2 = 1 THEN Starts(hooks[(n + 1) \div 2])
                                         ELSE Ends(hooks[(n + 1) \div 2])
         /\ hooks = <<>> => Awaited(Names(hooks)) = <<>>
<1> DEFINE names == Names(hooks)
<1>1. /\ Len(hooks) \in Nat /\ Len(names) = Len(hooks)
      /\ \A n \in 1 .. Len(hooks) : names[n] = hooks[n].name /\ hooks[n].name \in HookNames
      /\ 2 * Len(hooks) \in Nat
  BY NamesOfHooks
<1> HIDE DEF names
<1>2. \A n \in 1 .. 2 * Len(hooks) : (n + 1) \div 2 \in 1 .. Len(hooks)
  BY <1>1
<1>3. Awaited(names) =
        [n \in 1 .. 2 * Len(hooks) |->
           [what |-> IF n % 2 = 1 THEN "started" ELSE "ended", name |-> names[(n + 1) \div 2]]]
  BY <1>1 DEF Awaited
<1>4. ASSUME NEW n \in 1 .. 2 * Len(hooks)
      PROVE  /\ Awaited(names)[n] = IF n % 2 = 1 THEN Starts(hooks[(n + 1) \div 2])
                                     ELSE Ends(hooks[(n + 1) \div 2])
             /\ Awaited(names)[n] \in Entry
  <2>1. PICK m \in 1 .. Len(hooks) : m = (n + 1) \div 2
    BY <1>2
  <2>2. Awaited(names)[n] = [what |-> IF n % 2 = 1 THEN "started" ELSE "ended",
                             name |-> hooks[m].name]
    BY <2>1, <1>1, <1>3
  <2>3. hooks[m].name \in HookNames
    BY <1>1
  <2> QED
    BY <2>1, <2>2, <2>3 DEF Starts, Ends, Entry
<1>5. Awaited(names) \in [1 .. 2 * Len(hooks) -> Entry]
  BY <1>3, <1>4
<1>6. Awaited(names) \in Seq(Entry)
  BY <1>1, <1>5, SeqDef
<1>7. hooks = <<>> => Awaited(names) = <<>>
  <2>1. hooks = <<>> => Len(hooks) = 0
    OBVIOUS
  <2>2. Len(Awaited(names)) = 2 * Len(hooks)
    BY <1>1, <1>5, <1>6, LenProperties
  <2> QED
    BY <2>1, <2>2, <1>6, EmptySeq
<1>8. Len(Awaited(names)) = 2 * Len(hooks)
  BY <1>1, <1>5, <1>6, LenProperties
<1> QED
  BY <1>4, <1>6, <1>7, <1>8 DEF names

\* The first hook starts and ends, then come the others.
LEMMA AwaitedInTurn ==
  ASSUME NEW hooks \in Seq(Range(Hooks)), hooks # <<>>
  PROVE  /\ Tail(hooks) \in Seq(Range(Hooks))
         /\ Starts(Head(hooks)) \in Entry /\ Ends(Head(hooks)) \in Entry
         /\ Awaited(Names(hooks)) =
              <<Starts(Head(hooks))>> \o (<<Ends(Head(hooks))>> \o Awaited(Names(Tail(hooks))))
<1> DEFINE rest == Tail(hooks)
           all == Awaited(Names(hooks))
           others == Awaited(Names(rest))
           first == Starts(Head(hooks))
           last == Ends(Head(hooks))
           tail == <<last>> \o others
<1>1. /\ rest \in Seq(Range(Hooks)) /\ Len(hooks) \in Nat \ {0}
      /\ Len(rest) = Len(hooks) - 1 /\ Head(hooks) = hooks[1]
      /\ \A n \in 1 .. Len(rest) : rest[n] = hooks[n + 1]
  BY HeadTailProperties, EmptySeq
<1>2. /\ all \in Seq(Entry) /\ Len(all) = 2 * Len(hooks)
      /\ \A n \in 1 .. 2 * Len(hooks) :
           all[n] = IF n % 2 = 1 THEN Starts(hooks[(n + 1) \div 2])
                    ELSE Ends(hooks[(n + 1) \div 2])
  BY AwaitedEntries
<1>3. /\ others \in Seq(Entry) /\ Len(others) = 2 * Len(rest)
      /\ \A n \in 1 .. 2 * Len(rest) :
           others[n] = IF n % 2 = 1 THEN Starts(rest[(n + 1) \div 2])
                       ELSE Ends(rest[(n + 1) \div 2])
  BY <1>1, AwaitedEntries
<1>4. first \in Entry /\ last \in Entry
  BY <1>1, NamesOfHooks DEF Entry, Starts, Ends
<1> HIDE DEF rest, all, others, first, last
<1>5. /\ tail \in Seq(Entry) /\ Len(tail) = 1 + Len(others)
      /\ tail[1] = last /\ \A n \in 1 .. Len(others) : tail[n + 1] = others[n]
  <2>1. <<last>> \in Seq(Entry) /\ Len(<<last>>) = 1 /\ <<last>>[1] = last
    BY <1>4
  <2> QED
    BY <1>3, <2>1, ConcatProperties, <1>1
<1> DEFINE whole == <<first>> \o tail
<1> HIDE DEF tail
<1>6. /\ whole \in Seq(Entry) /\ Len(whole) = 1 + Len(tail) /\ Len(tail) \in Nat
      /\ whole[1] = first
      /\ \A n \in 1 .. Len(tail) : whole[n + 1] = tail[n]
  <2>1. <<first>> \in Seq(Entry) /\ Len(<<first>>) = 1 /\ <<first>>[1] = first
    BY <1>4
  <2>2. /\ whole \in Seq(Entry) /\ Len(whole) = 1 + Len(tail)
        /\ \A i \in 1 .. 1 + Len(tail) :
             whole[i] = IF i <= 1 THEN <<first>>[i] ELSE tail[i - 1]
    BY <1>5, <2>1, ConcatProperties
  <2>3. Len(tail) \in Nat
    BY <1>1, <1>3, <1>5
  <2> HIDE DEF whole
  <2>4. ASSUME NEW n \in 1 .. Len(tail)
        PROVE  whole[n + 1] = tail[n]
    <3>1. n + 1 \in 1 .. 1 + Len(tail) /\ ~(n + 1 <= 1) /\ (n + 1) - 1 = n
      BY <2>3
    <3> QED
      BY <2>2, <3>1
  <2> QED
    BY <2>1, <2>2, <2>3, <2>4
<1> HIDE DEF whole
<1>7. ASSUME NEW n \in 1 .. Len(all)
      PROVE  all[n] = whole[n]
  <2>1. CASE n = 1
    BY <2>1, <1>1, <1>2, <1>6 DEF first
  <2>2. CASE n = 2
    <3>1. all[n] = last
      BY <2>2, <1>1, <1>2 DEF last
    <3>2. whole[1 + 1] = tail[1] /\ tail[1] = last
      BY <1>1, <1>3, <1>5, <1>6
    <3>3. 1 + 1 = n
      BY <2>2
    <3> QED
      BY <3>1, <3>2, <3>3
  <2>3. CASE n > 2
    <3>1. PICK m \in 1 .. Len(others) : n = m + 2
      BY <2>3, <1>1, <1>2, <1>3
    <3>2. whole[(m + 1) + 1] = tail[m + 1] /\ tail[m + 1] = others[m]
      <4>1. m + 1 \in 1 .. Len(tail)
        BY <1>1, <1>3, <1>5
      <4> QED
        BY <4>1, <1>5, <1>6
    <3>3. PICK k \in 1 .. Len(rest) : k = (m + 1) \div 2
      BY <1>1, <1>3
    <3>4. k + 1 = (n + 1) \div 2 /\ (n % 2 = 1 <=> m % 2 = 1)
      BY <3>1, <3>3, <1>1, <1>3
    <3>5. rest[k] = hooks[k + 1]
      BY <1>1
    <3>6. others[m] = IF m % 2 = 1 THEN Starts(rest[k]) ELSE Ends(rest[k])
      BY <1>3, <3>3
    <3>7. all[n] = IF n % 2 = 1 THEN Starts(hooks[k + 1]) ELSE Ends(hooks[k + 1])
      BY <1>2, <3>4
    <3>8. (m + 1) + 1 = n
      BY <3>1, <1>1, <1>3
    <3> QED
      BY <3>2, <3>4, <3>5, <3>6, <3>7, <3>8
  <2> QED
    <3>1. n \in Nat /\ n >= 1
      BY <1>1, <1>2
    <3> QED
      BY <2>1, <2>2, <2>3, <3>1
<1>8. Len(whole) = Len(all)
  BY <1>1, <1>2, <1>3, <1>5, <1>6
<1>9. all = whole
  BY <1>2, <1>6, <1>7, <1>8, SeqEqual
<1> QED
  BY <1>1, <1>4, <1>9 DEF whole, tail, rest, all, others, first, last

-----------------------------------------------------------------------------
(* The course of a call *)

Writing == {"create", "update", "delete"}
Reading == {"find", "findOne"}

StatementOf(call) ==
  Entries("statement", <<IF call.op = "create" THEN "insert" ELSE call.op>>)
EventsOf(call) == Entries("event", Ranked(call.entity, AfterOf[call.op]))
Selecting == Entries("statement", <<"select">>)
BeforeIt(call) == Awaited(Names(FindHooks(call.entity, BeforeOf[call.op])))
LoadedBy(call) == Awaited(Names(FindHooks(call.entity, "afterLoad")))

\* Three parts of a course in a row.
LEMMA Regrouped ==
  \A s, t, u \in Seq(Entry) : (s \o t) \o u = s \o (t \o u)
BY ConcatAssociative

\* The parts of a course are sequences of entries.
LEMMA PartsOfCourse ==
  ASSUME NEW call
  PROVE  /\ call.op \in Writing =>
              /\ StatementOf(call) \in Seq(Entry) /\ EventsOf(call) \in Seq(Entry)
              /\ BeforeIt(call) \in Seq(Entry)
         /\ Selecting \in Seq(Entry) /\ Selecting # <<>>
         /\ LoadedBy(call) \in Seq(Entry)
<1>1. \A entity, type : /\ FindHooks(entity, type) \in Seq(Range(Hooks))
                        /\ Ranked(entity, type) \in Seq(HookNames)
                        /\ Awaited(Names(FindHooks(entity, type))) \in Seq(Entry)
  BY HooksFound, NamesOfHooks, AwaitedEntries
<1>2. \A name \in HookNames : <<name>> \in Seq(HookNames) /\ Len(<<name>>) = 1
  OBVIOUS
<1>3. call.op \in Writing => (IF call.op = "create" THEN "insert" ELSE call.op) \in HookNames
  BY DEF Writing, HookNames
<1>4. "select" \in HookNames
  BY DEF HookNames
<1>5. call.op \in Writing => StatementOf(call) \in Seq(Entry)
  BY <1>2, <1>3, EntriesOfNames DEF StatementOf
<1>6. EventsOf(call) \in Seq(Entry)
  BY <1>1, EntriesOfNames DEF EventsOf
<1>7. Selecting \in Seq(Entry)
  BY <1>2, <1>4, EntriesOfNames DEF Selecting
<1>8. Selecting # <<>>
  <2>1. Len(<<"select">>) = 1 /\ DOMAIN <<"select">> = 1 .. 1
    OBVIOUS
  <2>2. DOMAIN Selecting = 1 .. 1
    BY <2>1 DEF Selecting, Entries
  <2> QED
    BY <2>2, <1>7, EmptySeq, LenProperties
<1> QED
  BY <1>1, <1>5, <1>6, <1>7, <1>8 DEF BeforeIt, LoadedBy

\* What the course of a call is, by its operation.
LEMMA CourseParts ==
  ASSUME NEW call
  PROVE  /\ call.op \in Writing =>
              Course(call) = BeforeIt(call) \o (StatementOf(call) \o EventsOf(call))
         /\ call.op = "find" \/ (call.op = "findOne" /\ call.key # None) =>
              Course(call) = Selecting \o IF call.found = <<>> THEN <<>> ELSE LoadedBy(call)
         /\ call.op \notin Writing /\ call.op # "find" /\ ~(call.op = "findOne" /\ call.key # None) =>
              Course(call) = <<>>
         /\ call.op \in Writing \cup Reading \cup {"save"} => Course(call) \in Seq(Entry)
<1>1. \A entity, type : Ranked(entity, type) = Names(FindHooks(entity, type))
  BY HooksFound
<1>2. ASSUME call.op \in Writing
      PROVE  Course(call) = BeforeIt(call) \o (StatementOf(call) \o EventsOf(call))
  <2>1. Course(call) = (BeforeIt(call) \o StatementOf(call)) \o EventsOf(call)
    BY <1>1, <1>2 DEF Course, Writing, BeforeIt, StatementOf, EventsOf
  <2>2. /\ BeforeIt(call) \in Seq(Entry) /\ StatementOf(call) \in Seq(Entry)
        /\ EventsOf(call) \in Seq(Entry)
    BY <1>2, PartsOfCourse
  <2> QED
    BY <2>1, <2>2, Regrouped
<1>3. ASSUME call.op = "find" \/ (call.op = "findOne" /\ call.key # None)
      PROVE  Course(call) = Selecting \o IF call.found = <<>> THEN <<>> ELSE LoadedBy(call)
  BY <1>1, <1>3 DEF Course, LoadedBy, Selecting
<1>4. ASSUME call.op \notin Writing, call.op # "find", ~(call.op = "findOne" /\ call.key # None)
      PROVE  Course(call) = <<>>
  BY <1>4 DEF Course, Writing
<1>5. call.op \in Writing => Course(call) \in Seq(Entry)
  BY <1>2, PartsOfCourse, ConcatProperties
<1>6. <<>> \in Seq(Entry) /\ Selecting \in Seq(Entry) /\ LoadedBy(call) \in Seq(Entry)
  BY PartsOfCourse, EmptySeq
<1>7. call.op = "find" \/ (call.op = "findOne" /\ call.key # None) => Course(call) \in Seq(Entry)
  <2>1. (IF call.found = <<>> THEN <<>> ELSE LoadedBy(call)) \in Seq(Entry)
    BY <1>6
  <2> QED
    BY <2>1, <1>3, <1>6, ConcatProperties
<1> QED
  BY <1>2, <1>3, <1>4, <1>5, <1>6, <1>7

\* A part with what comes after it.
LEMMA PartIsPrefix ==
  ASSUME NEW s \in Seq(Entry), NEW t \in Seq(Entry)
  PROVE  IsPrefix(s, s \o t)
<1>1. /\ Len(s) \in Nat /\ Len(t) \in Nat /\ s \o t \in Seq(Entry)
      /\ Len(s \o t) = Len(s) + Len(t)
      /\ \A i \in 1 .. Len(s) : (s \o t)[i] = s[i]
  BY ConcatProperties, LenProperties
<1>2. SubSeq(s, 1, Len(s)) = SubSeq(s \o t, 1, Len(s))
  <2> DEFINE u == s \o t
  <2> HIDE DEF u
  <2>1. \A i \in 1 .. Len(s) : s[i] \in Entry /\ u[i] \in Entry /\ u[i] = s[i]
    BY <1>1, ElementOfSeq DEF u
  <2>2. /\ SubSeq(s, 1, Len(s)) \in Seq(Entry)
        /\ Len(SubSeq(s, 1, Len(s))) = Len(s)
        /\ \A i \in 1 .. Len(s) : SubSeq(s, 1, Len(s))[i] = s[i]
    BY <2>1, <1>1, SubSeqProperties
  <2>3. /\ SubSeq(u, 1, Len(s)) \in Seq(Entry)
        /\ Len(SubSeq(u, 1, Len(s))) = Len(s)
        /\ \A i \in 1 .. Len(s) : SubSeq(u, 1, Len(s))[i] = u[i]
    BY <2>1, <1>1, SubSeqProperties
  <2>4. SubSeq(s, 1, Len(s)) = SubSeq(u, 1, Len(s))
    BY <2>1, <2>2, <2>3, SeqEqual
  <2> QED
    BY <2>4 DEF u
<1> QED
  BY <1>1, <1>2 DEF IsPrefix

\* All of it, or nothing.
LEMMA WholeIsPrefix ==
  \A s \in Seq(Entry) : IsPrefix(s, s) /\ IsPrefix(<<>>, s)
<1> SUFFICES ASSUME NEW s \in Seq(Entry)
             PROVE  IsPrefix(s, s) /\ IsPrefix(<<>>, s)
  OBVIOUS
<1>1. <<>> \in Seq(Entry) /\ s \o <<>> = s /\ <<>> \o s = s
  BY EmptySeq, ConcatEmptySeq
<1>2. IsPrefix(s, s \o <<>>) /\ IsPrefix(<<>>, <<>> \o s)
  BY <1>1, PartIsPrefix
<1> QED
  BY <1>1, <1>2

-----------------------------------------------------------------------------
(* What holds of every call *)

IsCall(call) ==
  call = [service |-> call.service, op |-> call.op, entity |-> call.entity,
          key |-> call.key, sent |-> call.sent, data |-> call.data,
          query |-> call.query, pc |-> call.pc, hooks |-> call.hooks,
          running |-> call.running, left |-> call.left, nav |-> call.nav,
          trace |-> call.trace, found |-> call.found, result |-> call.result,
          count |-> call.count, seen |-> call.seen, counted |-> call.counted,
          mapped |-> call.mapped, method |-> call.method]

CallTypes(call) ==
  /\ IsCall(call)
  /\ call.op \in Writing \cup Reading \cup {"save"}
  /\ call.entity \in DOMAIN Model
  /\ call.pc \in {"called", "hooks", "navigations", "joining", "mapping",
                 "querying", "counting"} \cup Settled
  /\ call.hooks \in Seq(Range(Hooks)) /\ call.running \in BOOLEAN
  /\ call.trace \in Seq(Entry)
  /\ call.method \in {"", "POST", "PATCH"}
  /\ call.sent.navs \in {body.navs : body \in Bodies}
  /\ call.left \subseteq DOMAIN call.sent.navs \cap DOMAIN Model[call.entity].navs
  /\ call.pc = "joining" => call.nav \in DOMAIN call.sent.navs

\* The rules are kept under the name of the class.
ClassNamesDiffer ==
  \A e, f \in DOMAIN Model : Model[e].className = Model[f].className => e = f

\* A payload that has not been checked is as the client sent it; once it has,
\* and classes differ in their names, the call is refused exactly if it breaks
\* its own rules.
OwnMessages(call) ==
  Messages(Model[call.entity], RulesOf(Model[call.entity], call.method),
           call.sent.cols, call.sent.navs)
RulesKept(call) ==
  /\ call.pc = "called" => call.method = "" /\ call.data = call.sent.cols
  /\ ClassNamesDiffer /\ call.method # "" => (call.pc = "refused" <=> OwnMessages(call) # {})

\* What the hooks that are left, and the statement if it comes after them,
\* will add to the trace.
Rest(call) ==
  IF call.running THEN <<Ends(Head(call.hooks))>> \o Awaited(Names(Tail(call.hooks)))
  ELSE Awaited(Names(call.hooks))
AfterIt(call) ==
  IF call.op \in Writing THEN StatementOf(call) \o EventsOf(call) ELSE <<>>

HooksLeft(call) ==
  /\ call.op \in Writing \cup Reading
  /\ call.running => call.hooks # <<>>
  /\ call.trace \o (Rest(call) \o AfterIt(call)) = Course(call)

\* What a call has done, with what its place has still to do, is its course.
CourseKept(call) ==
  /\ call.pc \in {"called", "mapping", "querying"} =>
       call.trace = <<>> /\ call.found = <<>> /\ ~call.running
  /\ call.pc \in {"mapping", "querying", "counting"} => call.op = "find"
  /\ call.pc = "counting" => call.trace = Selecting /\ ~call.running
  /\ call.pc = "hooks" => HooksLeft(call)
  /\ call.pc \in {"navigations", "joining"} =>
       call.op = "create" /\ call.trace \o EventsOf(call) = Course(call)
  /\ call.pc = "returned" => call.trace = Course(call)
  /\ IsPrefix(call.trace, Course(call))

CallKept(call) == CallTypes(call) /\ RulesKept(call) /\ CourseKept(call)

\* Under every key are the rules that would be made for it.
CacheKept ==
  ClassNamesDiffer =>
  \A key \in DOMAIN rulesCache : \A e \in DOMAIN Model : \A method \in {"POST", "PATCH"} :
    key = RulesKey(Model[e], method) => rulesCache[key] = RulesOf(Model[e], method)

\* How a step that starts no call changes one: where its children are awaited
\* it fails, returns with nothing left, or goes on to the next navigation.
Moved(a, b) ==
  /\ a.pc \notin Settled
  /\ b.sent = a.sent /\ b.entity = a.entity
  /\ \/ a.pc \notin {"navigations", "joining"} /\ b.pc # "joining"
     \/ /\ a.pc \in {"navigations", "joining"} /\ b.left = a.left /\ b.nav = a.nav
        /\ \/ b.pc = "threw"
           \/ a.pc = "navigations" /\ b.pc = "returned"
           \/ a.pc = "joining" /\ b.pc = "navigations"

\* The course of a call depends on no more than this.
LEMMA SameCourse ==
  ASSUME NEW a, NEW b, a.op = b.op, a.entity = b.entity, a.key = b.key, a.found = b.found
  PROVE  /\ Course(a) = Course(b) /\ StatementOf(a) = StatementOf(b)
         /\ EventsOf(a) = EventsOf(b) /\ BeforeIt(a) = BeforeIt(b)
         /\ LoadedBy(a) = LoadedBy(b)
BY DEF Course, StatementOf, EventsOf, BeforeIt, LoadedBy

LEMMA Threw ==
  ASSUME NEW a, CallKept(a), a.pc \notin Settled, NEW b, b = [a EXCEPT !.pc = "threw"]
  PROVE  CallKept(b) /\ Moved(a, b)
<1>1. CallTypes(b) /\ Moved(a, b)
  BY DEF CallKept, CallTypes, IsCall, Moved, Settled
<1>2. RulesKept(b)
  BY DEF CallKept, CallTypes, IsCall, RulesKept, OwnMessages, Settled
<1>3. a.op = b.op /\ a.entity = b.entity /\ a.key = b.key /\ a.found = b.found /\ a.trace = b.trace
      /\ b.pc = "threw"
  BY DEF CallKept, CallTypes, IsCall
<1>4. CourseKept(b)
  BY <1>3, SameCourse DEF CallKept, CourseKept
<1> QED
  BY <1>1, <1>2, <1>4 DEF CallKept

LEMMA ViewThrowsKeeps ==
  ASSUME NEW c \in DOMAIN calls, CallKept(calls[c]),
         ViewThrows(c) \/ HookThrows(c) \/ JoinThrows(c) \/ ValidateThrows(c)
  PROVE  \E b : Becomes(c, b) /\ CallKept(b) /\ Moved(calls[c], b)
<1>1. calls[c].pc \in {"called", "hooks", "joining"} /\ Goto(c, "threw")
  BY DEF ViewThrows, HookThrows, JoinThrows, ValidateThrows, At
<1> QED
  BY <1>1, Threw DEF Goto, Settled

\* A call that is about to run its hooks has its course before it.
LEMMA HooksAhead ==
  ASSUME NEW b, CallTypes(b), b.pc = "hooks", b.op \in Writing,
         b.hooks = FindHooks(b.entity, BeforeOf[b.op]), b.trace = <<>>, ~b.running
  PROVE  CourseKept(b)
<1>1. /\ BeforeIt(b) \in Seq(Entry) /\ AfterIt(b) \in Seq(Entry)
      /\ Course(b) = BeforeIt(b) \o AfterIt(b) /\ Course(b) \in Seq(Entry)
  BY PartsOfCourse, CourseParts, ConcatProperties DEF AfterIt
<1>2. Rest(b) = BeforeIt(b)
  BY DEF Rest, BeforeIt
<1>3. HooksLeft(b)
  <2>1. <<>> \o (Rest(b) \o AfterIt(b)) = Course(b)
    BY <1>1, <1>2, ConcatEmptySeq
  <2> QED
    BY <2>1 DEF HooksLeft
<1>4. IsPrefix(b.trace, Course(b))
  BY <1>1, WholeIsPrefix
<1> QED
  BY <1>3, <1>4 DEF CourseKept

\* Loaded rows go through their hooks; without rows the course is over.
LEMMA LoadedKeeps ==
  ASSUME NEW c, NEW a, CallTypes(a), RulesKept(a), a.op \in Reading,
         a.op = "findOne" => a.key # None, a.trace = Selecting, ~a.running,
         a.pc \notin Settled, Loaded(c, a)
  PROVE  \E b : /\ Becomes(c, b) /\ CallKept(b)
                /\ b.sent = a.sent /\ b.entity = a.entity /\ b.pc \in {"returned", "hooks"}
<1>1. PICK b : Becomes(c, b) /\ b = IF a.found = <<>> THEN [a EXCEPT !.pc = "returned"]
                                   ELSE [a EXCEPT !.pc = "hooks",
                                                  !.hooks = FindHooks(a.entity, "afterLoad")]
  BY DEF Loaded
<1>2. FindHooks(a.entity, "afterLoad") \in Seq(Range(Hooks))
  BY HooksFound
<1>3. /\ CallTypes(b) /\ b.sent = a.sent /\ b.entity = a.entity /\ b.op = a.op /\ b.key = a.key
      /\ b.found = a.found /\ b.trace = Selecting /\ ~b.running /\ b.method = a.method
      /\ b.pc = IF a.found = <<>> THEN "returned" ELSE "hooks"
      /\ b.pc = "hooks" => b.hooks = FindHooks(b.entity, "afterLoad")
  BY <1>1, <1>2 DEF CallTypes, IsCall, Settled
<1>4. RulesKept(b)
  BY <1>3 DEF RulesKept, OwnMessages, Settled
<1>5. Course(b) = Selecting \o IF b.found = <<>> THEN <<>> ELSE LoadedBy(b)
  BY <1>3, CourseParts DEF Reading
<1>6. Selecting \in Seq(Entry) /\ LoadedBy(b) \in Seq(Entry)
  BY PartsOfCourse
<1>7. CASE b.found = <<>>
  <2>1. Course(b) = Selecting
    BY <1>5, <1>6, <1>7, ConcatEmptySeq
  <2>2. IsPrefix(b.trace, Course(b))
    BY <2>1, <1>3, <1>6, WholeIsPrefix
  <2>3. CourseKept(b)
    BY <2>1, <2>2, <1>3, <1>7 DEF CourseKept
  <2> QED
    BY <2>3, <1>1, <1>3, <1>4 DEF CallKept
<1>8. CASE b.found # <<>>
  <2>1. Course(b) = Selecting \o LoadedBy(b)
    BY <1>5, <1>8
  <2>2. IsPrefix(b.trace, Course(b))
    BY <2>1, <1>3, <1>6, PartIsPrefix
  <2>3. Rest(b) = LoadedBy(b) /\ AfterIt(b) = <<>>
    BY <1>3, <1>8 DEF Rest, LoadedBy, AfterIt, Writing, Reading
  <2>4. Rest(b) \o AfterIt(b) = LoadedBy(b)
    BY <2>3, <1>6, ConcatEmptySeq
  <2>5. HooksLeft(b)
    BY <2>1, <2>4, <1>3 DEF HooksLeft
  <2>6. CourseKept(b)
    BY <2>2, <2>5, <1>3, <1>8 DEF CourseKept
  <2> QED
    BY <2>6, <1>1, <1>3, <1>4 DEF CallKept
<1> QED
  BY <1>7, <1>8

\* Events are started in the order of their hooks.
LEMMA EventsStarted ==
  ASSUME NEW call
  PROVE  WithEvents(call) = call.trace \o EventsOf(call)
<1> DEFINE events == FindHooks(call.entity, AfterOf[call.op])
<1>1. DOMAIN Names(events) = DOMAIN events /\ \A i \in DOMAIN events : Names(events)[i] = events[i].name
  BY DEF Names
<1>2. Entries("event", Names(events)) = [i \in DOMAIN events |-> [what |-> "event", name |-> events[i].name]]
  BY <1>1 DEF Entries
<1>3. Ranked(call.entity, AfterOf[call.op]) = Names(events)
  BY HooksFound
<1> QED
  BY <1>2, <1>3, Zenon DEF WithEvents, EventsOf

\* The statement is the next entry.
LEMMA StatementNoted ==
  ASSUME NEW call, call.op \in Writing, call.trace \in Seq(Entry),
         NEW name, name = IF call.op = "create" THEN "insert" ELSE call.op
  PROVE  /\ Note(call, "statement", name) = call.trace \o StatementOf(call)
         /\ Note(call, "statement", name) \in Seq(Entry)
<1>1. StatementOf(call) = <<[what |-> "statement", name |-> name]>>
  BY DEF StatementOf, Entries
<1>2. [what |-> "statement", name |-> name] \in Entry
  BY DEF Entry, HookNames, Writing
<1> QED
  BY <1>1, <1>2, AppendIsConcat, AppendProperties DEF Note

LEMMA SelectNoted ==
  ASSUME NEW call, call.trace = <<>>
  PROVE  Note(call, "statement", "select") = Selecting
<1>1. Selecting = <<[what |-> "statement", name |-> "select"]>>
  BY DEF Selecting, Entries
<1> QED
  BY <1>1 DEF Note

\* Once the hooks are done the statement and the events are left.
LEMMA AfterTheHooks ==
  ASSUME NEW a, CallKept(a), a.pc = "hooks", a.hooks = <<>>, ~a.running
  PROVE  /\ a.op \in Reading => a.trace = Course(a)
         /\ a.op \in Writing =>
              /\ StatementOf(a) \in Seq(Entry) /\ EventsOf(a) \in Seq(Entry)
              /\ (a.trace \o StatementOf(a)) \o EventsOf(a) = Course(a)
<1>1. a.trace \in Seq(Entry) /\ a.hooks \in Seq(Range(Hooks))
  BY DEF CallKept, CallTypes
<1>2. Rest(a) = <<>>
  BY <1>1, AwaitedEntries DEF Rest
<1>3. a.trace \o (<<>> \o AfterIt(a)) = Course(a)
  BY <1>2 DEF CallKept, CourseKept, HooksLeft
<1>4. a.op \in Reading => AfterIt(a) = <<>>
  BY DEF AfterIt, Reading, Writing
<1>5. <<>> \in Seq(Entry) /\ <<>> \o <<>> = <<>> /\ a.trace \o <<>> = a.trace
  BY <1>1, EmptySeq, ConcatEmptySeq
<1>6. ASSUME a.op \in Writing
      PROVE  /\ StatementOf(a) \in Seq(Entry) /\ EventsOf(a) \in Seq(Entry)
             /\ (a.trace \o StatementOf(a)) \o EventsOf(a) = Course(a)
  <2>1. StatementOf(a) \in Seq(Entry) /\ EventsOf(a) \in Seq(Entry)
    BY <1>6, PartsOfCourse
  <2>2. AfterIt(a) = StatementOf(a) \o EventsOf(a) /\ AfterIt(a) \in Seq(Entry)
    BY <2>1, <1>6, ConcatProperties DEF AfterIt
  <2>3. a.trace \o (StatementOf(a) \o EventsOf(a)) = Course(a)
    BY <1>3, <2>2, ConcatEmptySeq
  <2> QED
    BY <2>1, <2>3, <1>1, Regrouped
<1> QED
  BY <1>3, <1>4, <1>5, <1>6

-----------------------------------------------------------------------------
(* Every operation keeps what holds of its call *)

LEMMA SaveKeeps ==
  ASSUME NEW c \in DOMAIN calls, CallKept(calls[c]), Save(c)
  PROVE  \E b : Becomes(c, b) /\ CallKept(b) /\ Moved(calls[c], b)
<1>0. PICK a : a = calls[c]
  OBVIOUS
<1>1. PICK op, b :
        op \in {"create", "update"} /\ Becomes(c, b) /\ b = [a EXCEPT !.op = op] /\ a.pc = "called" /\ CallKept(a)
  BY <1>0 DEF Save, At
<1>2. CallTypes(b) /\ b.op \in Writing /\ b.trace = a.trace /\ b.found = a.found
      /\ b.pc = "called" /\ b.running = a.running
  BY <1>1 DEF CallKept, CallTypes, IsCall, Writing
<1>3. RulesKept(b) /\ Moved(a, b)
  BY <1>1 DEF CallKept, CallTypes, IsCall, RulesKept, OwnMessages, Moved, Settled
<1>4. CourseKept(b)
  <2>1. a.trace = <<>> /\ a.found = <<>> /\ ~a.running
    BY <1>1 DEF CallKept, CourseKept
  <2>2. Course(b) \in Seq(Entry)
    BY <1>2, CourseParts
  <2>3. IsPrefix(<<>>, Course(b))
    BY <2>2, WholeIsPrefix
  <2> QED
    BY <2>1, <2>3, <1>2 DEF CourseKept
<1> QED
  BY <1>0, <1>1, <1>2, <1>3, <1>4 DEF CallKept

LEMMA ValidateKeeps ==
  ASSUME NEW c \in DOMAIN calls, CallKept(calls[c]), CacheKept, Validate(c)
  PROVE  /\ CacheKept'
         /\ \E b : Becomes(c, b) /\ CallKept(b) /\ Moved(calls[c], b)
<1>0. PICK a : a = calls[c] /\ CallKept(a)
  OBVIOUS
<1> DEFINE method == IF a.op = "create" THEN "POST" ELSE "PATCH"
           entity == Model[a.entity]
           key == RulesKey(entity, method)
           rules == IF key \in DOMAIN rulesCache THEN rulesCache[key] ELSE RulesOf(entity, method)
           wrong == Messages(entity, rules, a.data, a.sent.navs) # {}
<1>1. /\ a.pc = "called" /\ a.op \in {"create", "update"}
      /\ rulesCache' = With(rulesCache, key, rules)
      /\ \E b : /\ Becomes(c, b)
                /\ IF wrong THEN b = [a EXCEPT !.pc = "refused", !.method = method]
                   ELSE b = [a EXCEPT !.pc = "hooks", !.method = method,
                               !.data = Inbound(entity, @),
                               !.hooks = FindHooks(a.entity, BeforeOf[a.op])]
  BY <1>0 DEF Validate, At, Entity
<1>2. a.entity \in DOMAIN Model /\ method \in {"POST", "PATCH"} /\ method # ""
  BY <1>0 DEF CallKept, CallTypes
<1>3. ClassNamesDiffer => rules = RulesOf(entity, method)
  BY <1>2 DEF CacheKept
<1>4. CacheKept'
  <2> SUFFICES ASSUME NEW k \in DOMAIN rulesCache', NEW e \in DOMAIN Model,
                      NEW m \in {"POST", "PATCH"}, k = RulesKey(Model[e], m),
                      ClassNamesDiffer
               PROVE  rulesCache'[k] = RulesOf(Model[e], m)
    BY DEF CacheKept
  <2> HIDE DEF rules, method, key, entity
  <2>1. CASE k = key
    <3>1. Model[e].className = Model[a.entity].className /\ m = method
      BY <2>1 DEF key, RulesKey, entity
    <3>2. e = a.entity
      BY <3>1, <1>2 DEF ClassNamesDiffer
    <3>3. rulesCache'[k] = rules
      BY <2>1, <1>1 DEF With
    <3> QED
      BY <3>1, <3>2, <3>3, <1>3 DEF entity
  <2>2. CASE k # key
    <3>1. k \in DOMAIN rulesCache /\ rulesCache'[k] = rulesCache[k]
      BY <2>2, <1>1 DEF With
    <3> QED
      BY <3>1 DEF CacheKept
  <2> QED
    BY <2>1, <2>2
<1>5. /\ a.method = "" /\ a.data = a.sent.cols /\ a.trace = <<>> /\ a.found = <<>>
      /\ ~a.running
  BY <1>0, <1>1 DEF CallKept, RulesKept, CourseKept
<1>6. ClassNamesDiffer =>
        (wrong <=> Messages(entity, RulesOf(entity, method), a.sent.cols, a.sent.navs) # {})
  BY <1>3, <1>5
<1> HIDE DEF method, rules, entity, key, wrong
<1>7. CASE wrong
  <2>0. PICK refused : refused = [a EXCEPT !.pc = "refused", !.method = method] /\ Becomes(c, refused)
    BY <1>1, <1>7
  <2>1. /\ CallTypes(refused) /\ Moved(a, refused) /\ refused.op = a.op
        /\ refused.entity = a.entity /\ refused.key = a.key /\ refused.found = a.found
        /\ refused.trace = a.trace /\ refused.pc = "refused" /\ refused.method = method
        /\ refused.sent = a.sent
    BY <2>0, <1>0, <1>1, <1>2 DEF CallKept, CallTypes, IsCall, Moved, Settled
  <2>2. RulesKept(refused)
    BY <2>1, <1>6, <1>7 DEF RulesKept, OwnMessages, entity
  <2>3. CourseKept(refused)
    BY <2>1, <1>0, SameCourse DEF CallKept, CourseKept
  <2> QED
    BY <2>0, <2>1, <2>2, <2>3, <1>0, <1>4 DEF CallKept
<1>8. CASE ~wrong
  <2>0. PICK passed : /\ Becomes(c, passed)
                      /\ passed = [a EXCEPT !.pc = "hooks", !.method = method,
                               !.data = Inbound(entity, @),
                               !.hooks = FindHooks(a.entity, BeforeOf[a.op])]
    BY <1>1, <1>8
  <2>1. FindHooks(a.entity, BeforeOf[a.op]) \in Seq(Range(Hooks))
    BY HooksFound
  <2>2. /\ CallTypes(passed) /\ Moved(a, passed) /\ passed.op = a.op
        /\ passed.entity = a.entity /\ passed.trace = a.trace /\ passed.pc = "hooks"
        /\ passed.method = method /\ passed.sent = a.sent /\ ~passed.running
        /\ passed.hooks = FindHooks(a.entity, BeforeOf[a.op])
    BY <2>0, <2>1, <1>0, <1>1, <1>2, <1>5 DEF CallKept, CallTypes, IsCall, Moved, Settled
  <2>3. RulesKept(passed)
    BY <2>2, <1>6, <1>8 DEF RulesKept, OwnMessages, entity
  <2>4. CourseKept(passed)
    BY <2>2, <1>1, <1>5, HooksAhead DEF Writing
  <2> QED
    BY <2>0, <2>2, <2>3, <2>4, <1>0, <1>4 DEF CallKept
<1> QED
  BY <1>7, <1>8

LEMMA StartDeleteKeeps ==
  ASSUME NEW c \in DOMAIN calls, CallKept(calls[c]), StartDelete(c)
  PROVE  \E b : Becomes(c, b) /\ CallKept(b) /\ Moved(calls[c], b)
<1>0. PICK a : a = calls[c] /\ CallKept(a)
  OBVIOUS
<1>1. PICK b : /\ a.pc = "called" /\ a.op = "delete" /\ Becomes(c, b)
               /\ b = [a EXCEPT !.pc = "hooks", !.hooks = FindHooks(a.entity, "beforeDelete")]
  BY <1>0 DEF StartDelete, At
<1>2. FindHooks(a.entity, "beforeDelete") \in Seq(Range(Hooks))
  BY HooksFound
<1>3. a.trace = <<>> /\ ~a.running /\ a.method = ""
  BY <1>0, <1>1 DEF CallKept, CourseKept, RulesKept
<1>4. /\ CallTypes(b) /\ Moved(a, b) /\ b.op = "delete" /\ b.entity = a.entity /\ b.trace = <<>>
      /\ b.pc = "hooks" /\ ~b.running /\ b.method = ""
      /\ b.hooks = FindHooks(a.entity, "beforeDelete")
  BY <1>0, <1>1, <1>2, <1>3 DEF CallKept, CallTypes, IsCall, Moved, Settled
<1>5. BeforeOf["delete"] = "beforeDelete"
  BY DEF BeforeOf
<1>6. RulesKept(b) /\ CourseKept(b)
  BY <1>4, <1>5, HooksAhead DEF RulesKept, Writing
<1> QED
  BY <1>0, <1>1, <1>4, <1>6 DEF CallKept

\* A hook that starts, or ends, takes its entry from the rest to the trace.
LEMMA StartHookKeeps ==
  ASSUME NEW c \in DOMAIN calls, CallKept(calls[c]), StartHook(c)
  PROVE  \E b : Becomes(c, b) /\ CallKept(b) /\ Moved(calls[c], b)
<1>0. PICK a : a = calls[c] /\ CallKept(a)
  OBVIOUS
<1>1. PICK b : /\ a.pc = "hooks" /\ a.hooks # <<>> /\ ~a.running /\ Becomes(c, b)
               /\ b = [a EXCEPT !.running = TRUE, !.trace = Note(a, "started", Head(a.hooks).name)]
  BY <1>0 DEF StartHook, At
<1>2. /\ a.hooks \in Seq(Range(Hooks)) /\ a.trace \in Seq(Entry)
      /\ a.op \in Writing \cup Reading \cup {"save"}
  BY <1>0 DEF CallKept, CallTypes
<1> DEFINE first == Starts(Head(a.hooks))
           last == <<Ends(Head(a.hooks))>>
           others == Awaited(Names(Tail(a.hooks)))
<1>3. /\ first \in Entry /\ last \in Seq(Entry) /\ others \in Seq(Entry)
      /\ Awaited(Names(a.hooks)) = <<first>> \o (last \o others)
      /\ last \o others \in Seq(Entry)
  <2>1. /\ first \in Entry /\ last \in Seq(Entry) /\ others \in Seq(Entry)
        /\ Awaited(Names(a.hooks)) = <<first>> \o (last \o others)
    <3>1. /\ first \in Entry /\ Ends(Head(a.hooks)) \in Entry
          /\ Tail(a.hooks) \in Seq(Range(Hooks))
          /\ Awaited(Names(a.hooks)) = <<first>> \o (last \o others)
      BY <1>1, <1>2, AwaitedInTurn
    <3>2. last \in Seq(Entry)
      BY <3>1
    <3> QED
      BY <3>1, <3>2, AwaitedEntries
  <2> QED
    BY <2>1, ConcatProperties
<1>4. /\ Note(a, "started", Head(a.hooks).name) = a.trace \o <<first>>
      /\ a.trace \o <<first>> \in Seq(Entry)
  BY <1>2, <1>3, AppendIsConcat, AppendProperties DEF Note, Starts
<1> HIDE DEF first
<1>5. /\ CallTypes(b) /\ Moved(a, b) /\ b.op = a.op /\ b.entity = a.entity /\ b.key = a.key
      /\ b.found = a.found /\ b.hooks = a.hooks /\ b.trace = a.trace \o <<first>>
      /\ b.pc = "hooks" /\ b.running /\ b.method = a.method /\ b.sent = a.sent
  BY <1>0, <1>1, <1>4 DEF CallKept, CallTypes, IsCall, Moved, Settled
<1>6. RulesKept(b)
  BY <1>0, <1>1, <1>5 DEF CallKept, RulesKept, OwnMessages
<1>7. /\ HooksLeft(a) /\ Course(a) = Course(b) /\ AfterIt(a) = AfterIt(b)
      /\ AfterIt(a) \in Seq(Entry)
  <2>1. HooksLeft(a)
    BY <1>0, <1>1 DEF CallKept, CourseKept
  <2>2. Course(a) = Course(b) /\ AfterIt(a) = AfterIt(b)
    BY <1>5, SameCourse DEF AfterIt
  <2>3. AfterIt(a) \in Seq(Entry)
    BY PartsOfCourse, ConcatProperties, EmptySeq DEF AfterIt
  <2> QED
    BY <2>1, <2>2, <2>3
<1>8. Rest(a) = <<first>> \o (last \o others) /\ Rest(b) = last \o others
  BY <1>1, <1>3, <1>5 DEF Rest
<1> HIDE DEF last, others
<1>9. /\ <<first>> \in Seq(Entry) /\ Rest(b) \in Seq(Entry)
      /\ Rest(b) \o AfterIt(b) \in Seq(Entry)
  BY <1>3, <1>7, <1>8, ConcatProperties
<1>10. a.trace \o ((<<first>> \o Rest(b)) \o AfterIt(b)) = Course(b)
  BY <1>7, <1>8 DEF HooksLeft
<1>11. b.trace \o (Rest(b) \o AfterIt(b)) = Course(b)
  <2>1. (<<first>> \o Rest(b)) \o AfterIt(b) = <<first>> \o (Rest(b) \o AfterIt(b))
    BY <1>7, <1>9, Regrouped
  <2>2. (a.trace \o <<first>>) \o (Rest(b) \o AfterIt(b))
          = a.trace \o (<<first>> \o (Rest(b) \o AfterIt(b)))
    BY <1>2, <1>9, Regrouped
  <2> QED
    BY <2>1, <2>2, <1>5, <1>10
<1>12. IsPrefix(b.trace, Course(b))
  BY <1>4, <1>5, <1>9, <1>11, PartIsPrefix
<1>13. CourseKept(b)
  BY <1>1, <1>5, <1>7, <1>11, <1>12 DEF CourseKept, HooksLeft
<1> QED
  BY <1>0, <1>1, <1>5, <1>6, <1>13 DEF CallKept

LEMMA EndHookKeeps ==
  ASSUME NEW c \in DOMAIN calls, CallKept(calls[c]), EndHook(c)
  PROVE  \E b : Becomes(c, b) /\ CallKept(b) /\ Moved(calls[c], b)
<1>0. PICK a : a = calls[c] /\ CallKept(a)
  OBVIOUS
<1>1. PICK b, data : /\ a.pc = "hooks" /\ a.running /\ Becomes(c, b)
                     /\ b = [a EXCEPT !.running = FALSE, !.hooks = Tail(@),
                                      !.trace = Note(a, "ended", Head(a.hooks).name),
                                      !.data = data]
  BY <1>0 DEF EndHook, At
<1>2. /\ HooksLeft(a) /\ a.hooks # <<>>
      /\ a.hooks \in Seq(Range(Hooks)) /\ a.trace \in Seq(Entry)
  BY <1>0, <1>1 DEF CallKept, CallTypes, CourseKept, HooksLeft
<1> DEFINE last == Ends(Head(a.hooks))
           others == Awaited(Names(Tail(a.hooks)))
<1>3. last \in Entry /\ others \in Seq(Entry) /\ Tail(a.hooks) \in Seq(Range(Hooks))
  BY <1>2, AwaitedInTurn, AwaitedEntries
<1>4. /\ Note(a, "ended", Head(a.hooks).name) = a.trace \o <<last>>
      /\ a.trace \o <<last>> \in Seq(Entry)
  BY <1>2, <1>3, AppendIsConcat, AppendProperties DEF Note, Ends
<1> HIDE DEF last
<1>5. /\ CallTypes(b) /\ Moved(a, b) /\ b.op = a.op /\ b.entity = a.entity /\ b.key = a.key
      /\ b.found = a.found /\ b.hooks = Tail(a.hooks) /\ b.trace = a.trace \o <<last>>
      /\ b.pc = "hooks" /\ ~b.running /\ b.method = a.method /\ b.sent = a.sent
  BY <1>0, <1>1, <1>3, <1>4 DEF CallKept, CallTypes, IsCall, Moved, Settled
<1>6. RulesKept(b)
  BY <1>0, <1>1, <1>5 DEF CallKept, RulesKept, OwnMessages
<1>7. Course(a) = Course(b) /\ AfterIt(a) = AfterIt(b) /\ AfterIt(a) \in Seq(Entry)
  <2>1. Course(a) = Course(b) /\ AfterIt(a) = AfterIt(b)
    BY <1>5, SameCourse DEF AfterIt
  <2>2. AfterIt(a) \in Seq(Entry)
    BY PartsOfCourse, ConcatProperties, EmptySeq DEF AfterIt
  <2> QED
    BY <2>1, <2>2
<1>8. Rest(a) = <<last>> \o others /\ Rest(b) = others
  BY <1>1, <1>5 DEF Rest, last
<1> HIDE DEF others
<1>9. <<last>> \in Seq(Entry) /\ Rest(b) \o AfterIt(b) \in Seq(Entry) /\ Rest(b) \in Seq(Entry)
  BY <1>3, <1>7, <1>8, ConcatProperties
<1>10. a.trace \o ((<<last>> \o Rest(b)) \o AfterIt(b)) = Course(b)
  BY <1>2, <1>7, <1>8 DEF HooksLeft
<1>11. b.trace \o (Rest(b) \o AfterIt(b)) = Course(b)
  <2>1. (<<last>> \o Rest(b)) \o AfterIt(b) = <<last>> \o (Rest(b) \o AfterIt(b))
    BY <1>7, <1>9, Regrouped
  <2>2. (a.trace \o <<last>>) \o (Rest(b) \o AfterIt(b))
          = a.trace \o (<<last>> \o (Rest(b) \o AfterIt(b)))
    BY <1>2, <1>9, Regrouped
  <2> QED
    BY <2>1, <2>2, <1>5, <1>10
<1>12. IsPrefix(b.trace, Course(b))
  BY <1>4, <1>5, <1>9, <1>11, PartIsPrefix
<1>13. CourseKept(b)
  BY <1>2, <1>5, <1>11, <1>12 DEF CourseKept, HooksLeft
<1> QED
  BY <1>0, <1>1, <1>5, <1>6, <1>13 DEF CallKept

\* The statement that ends a call, and its events, complete the course.
LEMMA UpdateKeeps ==
  ASSUME NEW c \in DOMAIN calls, CallKept(calls[c]), Update(c) \/ Delete(c)
  PROVE  \E b : Becomes(c, b) /\ CallKept(b) /\ Moved(calls[c], b)
<1>0. PICK a : a = calls[c] /\ CallKept(a)
  OBVIOUS
<1> DEFINE op == a.op
<1>1. /\ a.pc = "hooks" /\ a.hooks = <<>> /\ ~a.running /\ op \in {"update", "delete"}
      /\ \E trace \in {Note(a, "statement", op)} :
           Becomes(c, [a EXCEPT !.pc = "returned",
                         !.trace = WithEvents([a EXCEPT !.trace = trace])])
  BY <1>0 DEF Update, Delete, HooksDone, At
<1>2. PICK noted : noted = [a EXCEPT !.trace = Note(a, "statement", op)]
  OBVIOUS
<1>3. PICK b : /\ a.pc = "hooks" /\ a.hooks = <<>> /\ ~a.running /\ a.op = op
               /\ op \in {"update", "delete"} /\ Becomes(c, b)
               /\ b = [a EXCEPT !.pc = "returned", !.trace = WithEvents(noted)]
  BY <1>1, <1>2
<1>4. /\ a.trace \in Seq(Entry) /\ IsCall(a) /\ a.op \in Writing
  BY <1>0, <1>3 DEF CallKept, CallTypes, Writing
<1>5. /\ Note(a, "statement", op) = a.trace \o StatementOf(a)
      /\ Note(a, "statement", op) \in Seq(Entry)
  BY <1>3, <1>4, StatementNoted
<1>6. /\ noted.trace = a.trace \o StatementOf(a) /\ noted.op = a.op
      /\ noted.entity = a.entity /\ noted.key = a.key /\ noted.found = a.found
  BY <1>2, <1>3, <1>4, <1>5 DEF IsCall
<1>7. WithEvents(noted) = Course(a)
  <2>1. WithEvents(noted) = noted.trace \o EventsOf(noted) /\ EventsOf(noted) = EventsOf(a)
    BY <1>6, EventsStarted, SameCourse
  <2> QED
    BY <2>1, <1>0, <1>3, <1>4, <1>6, AfterTheHooks
<1>8. Course(a) \in Seq(Entry)
  BY <1>4, CourseParts
<1>9. /\ CallTypes(b) /\ Moved(a, b) /\ b.op = a.op /\ b.entity = a.entity /\ b.key = a.key
      /\ b.found = a.found /\ b.trace = Course(a) /\ b.pc = "returned" /\ b.method = a.method
      /\ b.sent = a.sent
  BY <1>0, <1>3, <1>7, <1>8 DEF CallKept, CallTypes, IsCall, Moved, Settled
<1>10. RulesKept(b)
  BY <1>0, <1>3, <1>9 DEF CallKept, RulesKept, OwnMessages
<1>11. Course(b) = Course(a)
  BY <1>9, SameCourse
<1>12. IsPrefix(b.trace, Course(b))
  BY <1>8, <1>9, <1>11, WholeIsPrefix
<1>13. CourseKept(b)
  BY <1>9, <1>11, <1>12 DEF CourseKept
<1> QED
  BY <1>0, <1>3, <1>9, <1>10, <1>13 DEF CallKept

LEMMA InsertKeeps ==
  ASSUME NEW c \in DOMAIN calls, CallKept(calls[c]), Insert(c)
  PROVE  \E b : Becomes(c, b) /\ CallKept(b) /\ Moved(calls[c], b)
<1>0. PICK a : a = calls[c] /\ CallKept(a)
  OBVIOUS
<1>1. /\ a.pc = "hooks" /\ a.hooks = <<>> /\ ~a.running /\ a.op = "create"
      /\ \/ Goto(c, "threw")
         \/ \E b, k : /\ Becomes(c, b)
                      /\ b = [a EXCEPT !.pc = "navigations", !.key = k,
                                 !.left = DOMAIN a.sent.navs \cap DOMAIN Model[a.entity].navs,
                                 !.trace = Note(a, "statement", "insert")]
  BY <1>0 DEF Insert, HooksDone, At, Entity
<1>2. CASE Goto(c, "threw")
  BY <1>0, <1>1, <1>2, Threw DEF Goto, Settled
<1>3. CASE ~Goto(c, "threw")
  <2>1. PICK b, k : /\ Becomes(c, b)
                    /\ b = [a EXCEPT !.pc = "navigations", !.key = k,
                               !.left = DOMAIN a.sent.navs \cap DOMAIN Model[a.entity].navs,
                               !.trace = Note(a, "statement", "insert")]
    BY <1>1, <1>3
  <2>2. a.trace \in Seq(Entry) /\ a.op \in Writing
    BY <1>0, <1>1 DEF CallKept, CallTypes, Writing
  <2>3. /\ Note(a, "statement", "insert") = a.trace \o StatementOf(a)
        /\ Note(a, "statement", "insert") \in Seq(Entry)
    BY <1>1, <2>2, StatementNoted
  <2>4. /\ CallTypes(b) /\ Moved(a, b) /\ b.op = a.op /\ b.entity = a.entity
        /\ b.found = a.found /\ b.trace = a.trace \o StatementOf(a)
        /\ b.pc = "navigations" /\ b.method = a.method /\ b.sent = a.sent
    BY <1>0, <1>1, <2>1, <2>3 DEF CallKept, CallTypes, IsCall, Moved, Settled
  <2>5. RulesKept(b)
    BY <1>0, <1>1, <2>4 DEF CallKept, RulesKept, OwnMessages
  <2>6. Course(b) = Course(a) /\ EventsOf(b) = EventsOf(a)
    BY <1>1, <2>4 DEF Course, EventsOf
  <2>7. b.trace \o EventsOf(b) = Course(b) /\ EventsOf(b) \in Seq(Entry)
    <3>1. /\ (a.trace \o StatementOf(a)) \o EventsOf(a) = Course(a)
          /\ EventsOf(a) \in Seq(Entry)
      BY <1>0, <1>1, <2>2, AfterTheHooks
    <3> QED
      BY <3>1, <2>4, <2>6
  <2>8. IsPrefix(b.trace, Course(b))
    BY <2>3, <2>4, <2>7, PartIsPrefix
  <2>9. CourseKept(b)
    BY <1>1, <2>4, <2>7, <2>8 DEF CourseKept
  <2> QED
    BY <1>0, <2>1, <2>4, <2>5, <2>9 DEF CallKept
<1> QED
  BY <1>2, <1>3

LEMMA CreatedKeeps ==
  ASSUME NEW c \in DOMAIN calls, CallKept(calls[c]), Created(c)
  PROVE  \E b : Becomes(c, b) /\ CallKept(b) /\ Moved(calls[c], b)
<1>0. PICK a : a = calls[c] /\ CallKept(a)
  OBVIOUS
<1>1. PICK b : /\ a.pc = "navigations" /\ Becomes(c, b)
               /\ b = [a EXCEPT !.pc = "returned", !.trace = WithEvents(a)]
  BY <1>0 DEF Created, At
<1>2. a.op = "create" /\ a.trace \o EventsOf(a) = Course(a)
  BY <1>0, <1>1 DEF CallKept, CourseKept
<1>3. WithEvents(a) = Course(a) /\ Course(a) \in Seq(Entry)
  BY <1>2, EventsStarted, CourseParts DEF Writing
<1>4. /\ CallTypes(b) /\ Moved(a, b) /\ b.op = a.op /\ b.entity = a.entity /\ b.key = a.key
      /\ b.found = a.found /\ b.trace = Course(a) /\ b.pc = "returned" /\ b.method = a.method
      /\ b.sent = a.sent
  BY <1>0, <1>1, <1>3 DEF CallKept, CallTypes, IsCall, Moved, Settled
<1>5. RulesKept(b)
  BY <1>0, <1>1, <1>4 DEF CallKept, RulesKept, OwnMessages
<1>6. Course(b) = Course(a)
  BY <1>4, SameCourse
<1>7. IsPrefix(b.trace, Course(b))
  BY <1>3, <1>4, <1>6, WholeIsPrefix
<1>8. CourseKept(b)
  BY <1>4, <1>6, <1>7 DEF CourseKept
<1> QED
  BY <1>0, <1>1, <1>4, <1>5, <1>8 DEF CallKept

LEMMA JoinKeeps ==
  ASSUME NEW c \in DOMAIN calls, CallKept(calls[c]), Join(c)
  PROVE  \E b : Becomes(c, b) /\ CallKept(b) /\ Moved(calls[c], b)
<1>0. PICK a : a = calls[c] /\ CallKept(a)
  OBVIOUS
<1>1. PICK b : /\ a.pc = "joining" /\ Becomes(c, b)
               /\ b = [a EXCEPT !.pc = "navigations"]
  BY <1>0 DEF Join, At, Goto
<1>2. /\ CallTypes(b) /\ Moved(a, b) /\ b.op = a.op /\ b.entity = a.entity /\ b.key = a.key
      /\ b.found = a.found /\ b.trace = a.trace /\ b.pc = "navigations" /\ b.method = a.method
      /\ b.sent = a.sent
  BY <1>0, <1>1 DEF CallKept, CallTypes, IsCall, Moved, Settled
<1>3. RulesKept(b)
  BY <1>0, <1>1, <1>2 DEF CallKept, RulesKept, OwnMessages
<1>4. CourseKept(b)
  <2>1. Course(b) = Course(a) /\ EventsOf(b) = EventsOf(a)
    BY <1>2, SameCourse
  <2>2. a.op = "create" /\ a.trace \o EventsOf(a) = Course(a) /\ IsPrefix(a.trace, Course(a))
    BY <1>0, <1>1 DEF CallKept, CourseKept
  <2> QED
    BY <1>2, <2>1, <2>2 DEF CourseKept
<1> QED
  BY <1>0, <1>1, <1>2, <1>3, <1>4 DEF CallKept

\* A call that has noted its statement and is loaded moves on.
LEMMA SelectedKeeps ==
  ASSUME NEW c \in DOMAIN calls, CallKept(calls[c]), NEW a, Loaded(c, a),
         NEW pc \in {"called", "querying"}, calls[c].pc = pc,
         calls[c].op \in Reading, calls[c].op = "findOne" => calls[c].key # None,
         NEW found, NEW result, NEW seen, NEW mapped,
         a = [calls[c] EXCEPT !.found = found, !.result = result, !.seen = seen,
                !.mapped = mapped, !.trace = Note(calls[c], "statement", "select")]
  PROVE  \E b : Becomes(c, b) /\ CallKept(b) /\ Moved(calls[c], b)
<1>0. PICK o : o = calls[c] /\ CallKept(o)
  OBVIOUS
<1>1. o.trace = <<>> /\ ~o.running
  BY <1>0 DEF CallKept, CourseKept
<1>2. Note(o, "statement", "select") = Selecting /\ Selecting \in Seq(Entry)
  BY <1>1, SelectNoted, PartsOfCourse
<1>3. /\ CallTypes(a) /\ a.op = o.op /\ a.key = o.key /\ a.trace = Selecting /\ ~a.running
      /\ a.pc = o.pc /\ a.sent = o.sent /\ a.entity = o.entity /\ a.method = o.method
      /\ a.op \in Reading /\ (a.op = "findOne" => a.key # None) /\ a.pc \notin Settled
      /\ a.data = o.data
  BY <1>0, <1>1, <1>2 DEF CallKept, CallTypes, IsCall, Settled
<1>4. RulesKept(a)
  BY <1>0, <1>3 DEF CallKept, RulesKept, OwnMessages
<1>5. PICK b : /\ Becomes(c, b) /\ CallKept(b)
               /\ b.sent = a.sent /\ b.entity = a.entity /\ b.pc \in {"returned", "hooks"}
  <2>1. Loaded(c, a)
    OBVIOUS
  <2> QED
    BY ONLY <1>3, <1>4, <2>1, LoadedKeeps, Zenon
<1>6. Moved(o, b)
  BY <1>0, <1>3, <1>5 DEF Moved, Settled
<1> QED
  BY <1>0, <1>5, <1>6

LEMMA FindOneKeeps ==
  ASSUME NEW c \in DOMAIN calls, CallKept(calls[c]), FindOne(c)
  PROVE  \E b : Becomes(c, b) /\ CallKept(b) /\ Moved(calls[c], b)
<1>0. PICK a : a = calls[c] /\ CallKept(a)
  OBVIOUS
<1>1. a.pc = "called" /\ a.op = "findOne"
  BY <1>0 DEF FindOne, At
<1>2. CASE a.key = None
  <2>1. PICK b : Becomes(c, b) /\ b = [a EXCEPT !.pc = "returned"]
    BY <1>0, <1>2 DEF FindOne, Goto
  <2>2. a.trace = <<>> /\ a.method = ""
    BY <1>0, <1>1 DEF CallKept, CourseKept, RulesKept
  <2>3. /\ CallTypes(b) /\ Moved(a, b) /\ b.op = a.op /\ b.key = a.key /\ b.trace = <<>>
        /\ b.method = "" /\ b.pc = "returned"
    BY <1>0, <1>1, <2>1, <2>2 DEF CallKept, CallTypes, IsCall, Moved, Settled
  <2>4. Course(b) = <<>>
    BY <1>1, <1>2, <2>3, CourseParts DEF Writing
  <2>5. IsPrefix(b.trace, Course(b))
    BY <2>3, <2>4, WholeIsPrefix, EmptySeq
  <2>6. RulesKept(b) /\ CourseKept(b)
    BY <2>3, <2>4, <2>5 DEF RulesKept, CourseKept
  <2> QED
    BY <1>0, <2>1, <2>3, <2>6 DEF CallKept
<1>3. CASE a.key # None /\ Goto(c, "threw")
  BY <1>0, <1>1, <1>3, Threw DEF Goto, Settled
<1>4. CASE a.key # None /\ ~Goto(c, "threw")
  <2>1. Loaded(c, [a EXCEPT !.found = <<a.key>>, !.trace = Note(a, "statement", "select")])
    BY <1>0, <1>4 DEF FindOne
  <2>2. [a EXCEPT !.found = <<a.key>>, !.trace = Note(a, "statement", "select")]
          = [a EXCEPT !.found = <<a.key>>, !.result = a.result, !.seen = a.seen,
                      !.mapped = a.mapped, !.trace = Note(a, "statement", "select")]
    BY <1>0 DEF CallKept, CallTypes, IsCall
  <2> QED
    BY <1>0, <1>1, <1>4, <2>1, <2>2, SelectedKeeps DEF Reading
<1> QED
  BY <1>2, <1>3, <1>4

LEMMA FindAllKeeps ==
  ASSUME NEW c \in DOMAIN calls, CallKept(calls[c]), FindAll(c)
  PROVE  \E b : Becomes(c, b) /\ CallKept(b) /\ Moved(calls[c], b)
<1>0. PICK a : a = calls[c] /\ CallKept(a)
  OBVIOUS
<1>1. PICK found, seen :
        /\ a.pc = "called" /\ a.op = "find"
        /\ Loaded(c, [a EXCEPT !.found = found, !.seen = seen,
                               !.trace = Note(a, "statement", "select")])
  BY <1>0 DEF FindAll, At
<1>2. [a EXCEPT !.found = found, !.seen = seen, !.trace = Note(a, "statement", "select")]
        = [a EXCEPT !.found = found, !.result = a.result, !.seen = seen,
                    !.mapped = a.mapped, !.trace = Note(a, "statement", "select")]
  BY <1>0 DEF CallKept, CallTypes, IsCall
<1> QED
  BY <1>0, <1>1, <1>2, SelectedKeeps DEF Reading

\* The column mapping of the service is none of the call's course.
LEMMA ColumnMapperKeeps ==
  ASSUME NEW c \in DOMAIN calls, CallKept(calls[c]),
         CreateColumnMapper(c) \/ FillColumnMapper(c)
  PROVE  \E b : Becomes(c, b) /\ CallKept(b) /\ Moved(calls[c], b)
<1>0. PICK a : a = calls[c] /\ CallKept(a)
  OBVIOUS
<1>1. PICK pc, b :
        /\ pc \in {"mapping", "querying"}
        /\ a.pc \in {"called", "mapping"} /\ (a.pc = "called" => a.op = "find")
        /\ Becomes(c, b) /\ b = [a EXCEPT !.pc = pc]
  BY <1>0 DEF CreateColumnMapper, FillColumnMapper, At, Goto
<1>2. a.trace = <<>> /\ a.found = <<>> /\ ~a.running /\ a.op = "find"
  BY <1>0, <1>1 DEF CallKept, CourseKept
<1>3. /\ CallTypes(b) /\ Moved(a, b) /\ b.op = "find" /\ b.trace = <<>> /\ b.found = <<>>
      /\ ~b.running /\ b.pc = pc /\ b.method = a.method /\ b.entity = a.entity
      /\ b.sent = a.sent
  BY <1>0, <1>1, <1>2 DEF CallKept, CallTypes, IsCall, Moved, Settled
<1>4. RulesKept(b)
  BY <1>0, <1>1, <1>3 DEF CallKept, RulesKept, OwnMessages
<1>5. Course(b) \in Seq(Entry)
  BY <1>3, CourseParts DEF Reading
<1>6. CourseKept(b)
  BY <1>1, <1>3, <1>5, WholeIsPrefix DEF CourseKept
<1> QED
  BY <1>0, <1>1, <1>3, <1>4, <1>6 DEF CallKept

LEMMA QueryThrowsKeeps ==
  ASSUME NEW c \in DOMAIN calls, CallKept(calls[c]), QueryThrows(c)
  PROVE  \E b : Becomes(c, b) /\ CallKept(b) /\ Moved(calls[c], b)
<1>0. PICK a : a = calls[c] /\ CallKept(a)
  OBVIOUS
<1> DEFINE mapped == mapper[a.service] = "filled"
<1>1. PICK pc \in {"threw", "returned"} :
        Becomes(c, [a EXCEPT !.pc = pc, !.mapped = mapped,
                      !.trace = IF pc = "threw" THEN @ ELSE Note(a, "statement", "select")])
  BY <1>0 DEF QueryThrows
<1> HIDE DEF mapped
<1>2. PICK b :
        /\ a.pc = "querying" /\ pc \in {"threw", "returned"} /\ Becomes(c, b)
        /\ b = [a EXCEPT !.pc = pc, !.mapped = mapped,
                  !.trace = IF pc = "threw" THEN @ ELSE Note(a, "statement", "select")]
  BY <1>1, <1>0 DEF QueryThrows, At
<1>3. a.trace = <<>> /\ a.found = <<>> /\ ~a.running /\ a.op = "find"
  BY <1>0, <1>2 DEF CallKept, CourseKept
<1>4. Note(a, "statement", "select") = Selecting /\ Selecting \in Seq(Entry)
  BY <1>3, SelectNoted, PartsOfCourse
<1>5. /\ CallTypes(b) /\ Moved(a, b) /\ b.op = "find" /\ b.found = <<>> /\ b.pc = pc
      /\ b.trace = IF pc = "threw" THEN <<>> ELSE Selecting
      /\ b.method = a.method /\ b.entity = a.entity /\ b.sent = a.sent
  BY <1>0, <1>2, <1>3, <1>4, EmptySeq DEF CallKept, CallTypes, IsCall, Moved, Settled
<1>6. RulesKept(b)
  BY <1>0, <1>2, <1>5 DEF CallKept, RulesKept, OwnMessages
<1>7. Course(b) = Selecting
  BY <1>4, <1>5, CourseParts, ConcatEmptySeq
<1>8. CourseKept(b)
  BY <1>2, <1>4, <1>5, <1>7, WholeIsPrefix DEF CourseKept
<1> QED
  BY <1>0, <1>2, <1>5, <1>6, <1>8 DEF CallKept

LEMMA FindKeeps ==
  ASSUME NEW c \in DOMAIN calls, CallKept(calls[c]), Find(c)
  PROVE  \E b : Becomes(c, b) /\ CallKept(b) /\ Moved(calls[c], b)
<1>0. PICK a : a = calls[c] /\ CallKept(a)
  OBVIOUS
<1>1. PICK sql, found :
        IF sql.countStatement # None
          THEN Becomes(c, [Queried(c, sql.queryStatement, found) EXCEPT !.pc = "counting"])
          ELSE Loaded(c, Queried(c, sql.queryStatement, found))
  BY DEF Find
<1> DEFINE result == [i \in DOMAIN found |-> Project(sql.queryStatement, Table(c)[found[i]])]
           mapped == mapper[a.service] = "filled"
           seen == Table(c)
<1>2. PICK call : /\ call = Queried(c, sql.queryStatement, found)
                  /\ call = [a EXCEPT !.found = found, !.seen = seen, !.result = result,
                               !.mapped = mapped, !.trace = Note(a, "statement", "select")]
  BY <1>0 DEF Queried
<1> HIDE DEF result, mapped, seen
<1>3. call = [a EXCEPT !.found = found, !.result = result, !.seen = seen,
                !.mapped = mapped, !.trace = Note(a, "statement", "select")]
  BY <1>2, <1>0 DEF CallKept, CallTypes, IsCall
<1>4. a.pc = "querying"
  BY <1>0 DEF Find, At
<1>5. a.op = "find" /\ a.trace = <<>> /\ ~a.running
  BY <1>0, <1>4 DEF CallKept, CourseKept
<1>6. CASE sql.countStatement = None
  <2>1. Loaded(c, call)
    BY <1>1, <1>2, <1>6
  <2> QED
    BY <2>1, <1>0, <1>3, <1>4, <1>5, SelectedKeeps DEF Reading
<1>7. CASE sql.countStatement # None
  <2>1. PICK b : Becomes(c, b) /\ b = [call EXCEPT !.pc = "counting"]
    BY <1>1, <1>2, <1>7
  <2>2. Note(a, "statement", "select") = Selecting /\ Selecting \in Seq(Entry)
    BY <1>5, SelectNoted, PartsOfCourse
  <2>3. /\ CallTypes(b) /\ Moved(a, b) /\ b.op = "find" /\ b.trace = Selecting /\ ~b.running
        /\ b.pc = "counting" /\ b.method = a.method /\ b.entity = a.entity /\ b.sent = a.sent
    BY <1>0, <1>3, <1>4, <1>5, <2>1, <2>2 DEF CallKept, CallTypes, IsCall, Moved, Settled
  <2>4. RulesKept(b)
    BY <1>0, <1>4, <2>3 DEF CallKept, RulesKept, OwnMessages
  <2>5. IsPrefix(b.trace, Course(b))
    <3>1. /\ Course(b) = Selecting \o IF b.found = <<>> THEN <<>> ELSE LoadedBy(b)
          /\ LoadedBy(b) \in Seq(Entry) /\ <<>> \in Seq(Entry)
      BY <2>3, CourseParts, PartsOfCourse, EmptySeq
    <3> QED
      BY <3>1, <2>2, <2>3, PartIsPrefix
  <2>6. CourseKept(b)
    BY <2>3, <2>5 DEF CourseKept
  <2> QED
    BY <1>0, <2>1, <2>3, <2>4, <2>6 DEF CallKept
<1> QED
  BY <1>6, <1>7

LEMMA CountKeeps ==
  ASSUME NEW c \in DOMAIN calls, CallKept(calls[c]), Count(c)
  PROVE  \E b : Becomes(c, b) /\ CallKept(b) /\ Moved(calls[c], b)
<1>0. PICK o : o = calls[c] /\ CallKept(o)
  OBVIOUS
<1>1. PICK total, table, a :
        /\ o.pc = "counting" /\ Loaded(c, a)
        /\ a = [o EXCEPT !.count = total, !.counted = table]
  BY <1>0 DEF Count, At
<1>2. o.op = "find" /\ o.trace = Selecting /\ ~o.running
  BY <1>0, <1>1 DEF CallKept, CourseKept
<1>3. /\ CallTypes(a) /\ a.op = "find" /\ a.trace = Selecting /\ ~a.running
      /\ a.pc = "counting" /\ a.sent = o.sent /\ a.entity = o.entity /\ a.method = o.method
  BY <1>0, <1>1, <1>2 DEF CallKept, CallTypes, IsCall
<1>4. RulesKept(a)
  BY <1>0, <1>1, <1>3 DEF CallKept, RulesKept, OwnMessages
<1>5. PICK b : /\ Becomes(c, b) /\ CallKept(b)
               /\ b.sent = a.sent /\ b.entity = a.entity /\ b.pc \in {"returned", "hooks"}
  BY <1>1, <1>3, <1>4, LoadedKeeps DEF Settled, Reading
<1>6. Moved(o, b)
  BY <1>1, <1>3, <1>5 DEF Moved, Settled
<1> QED
  BY <1>0, <1>5, <1>6

LEMMA AnswerKeeps ==
  ASSUME NEW c \in DOMAIN calls, CallKept(calls[c]), Answer(c)
  PROVE  \E b : Becomes(c, b) /\ CallKept(b) /\ Moved(calls[c], b)
<1>0. PICK a : a = calls[c] /\ CallKept(a)
  OBVIOUS
<1>1. PICK b : /\ a.pc = "hooks" /\ a.hooks = <<>> /\ ~a.running /\ a.op \in Reading
               /\ Becomes(c, b) /\ b = [a EXCEPT !.pc = "returned"]
  BY <1>0 DEF Answer, HooksDone, At, Goto, Reading
<1>2. a.trace = Course(a) /\ Course(a) \in Seq(Entry)
  BY <1>0, <1>1, AfterTheHooks, CourseParts
<1>3. /\ CallTypes(b) /\ Moved(a, b) /\ b.op = a.op /\ b.entity = a.entity /\ b.key = a.key
      /\ b.found = a.found /\ b.trace = Course(a) /\ b.pc = "returned" /\ b.method = a.method
      /\ b.sent = a.sent
  BY <1>0, <1>1, <1>2 DEF CallKept, CallTypes, IsCall, Moved, Settled
<1>4. RulesKept(b)
  BY <1>0, <1>1, <1>3 DEF CallKept, RulesKept, OwnMessages
<1>5. Course(b) = Course(a)
  BY <1>3, SameCourse
<1>6. CourseKept(b)
  BY <1>2, <1>3, <1>5, WholeIsPrefix DEF CourseKept
<1> QED
  BY <1>0, <1>1, <1>3, <1>4, <1>6 DEF CallKept

-----------------------------------------------------------------------------
(* The calls that a call has started *)

Navs == UNION {DOMAIN Model[e].navs : e \in DOMAIN Model}
Node == Navs \cup Nat
Inserted(p) == DOMAIN calls[p].sent.navs \cap DOMAIN Model[calls[p].entity].navs

\* Call d was started by call p for its navigation n: it has returned, or it
\* is awaited, or p has given up.
ChildKept(p, n, d) ==
  /\ d \in Children(p, n)
  /\ calls[p].pc \in {"navigations", "joining", "returned", "threw"}
  /\ n \notin calls[p].left
  /\ \/ calls[d].pc = "returned"
     \/ calls[p].pc = "threw"
     \/ calls[p].pc = "joining" /\ calls[p].nav = n

TreeKept ==
  \A d \in DOMAIN calls :
    /\ d \in Seq(Node) /\ Len(d) % 2 = 1
    /\ Len(d) > 1 => \E p \in DOMAIN calls : \E n \in Inserted(p) : ChildKept(p, n, d)

ServiceInv ==
  /\ \A c \in DOMAIN calls : CallKept(calls[c])
  /\ CacheKept
  /\ TreeKept

\* The path of a child: its parent's, the navigation and a number.
LEMMA ChildPath ==
  ASSUME NEW p \in DOMAIN calls, CallTypes(calls[p]), p \in Seq(Node),
         NEW n \in Inserted(p), NEW d \in Children(p, n)
  PROVE  /\ d \in Seq(Node) /\ Len(p) \in Nat /\ Len(d) = Len(p) + 2
         /\ d[Len(p) + 1] = n /\ d[Len(d)] \in DOMAIN ItemsOf(p, n)
         /\ \A k \in 1 .. Len(p) : d[k] = p[k]
         /\ ItemsOf(p, n) \in Seq(Bodies)
<1>1. PICK body \in Bodies : calls[p].sent.navs = body.navs
  BY DEF CallTypes
<1>2. ItemsOf(p, n) \in Seq(Bodies)
  BY <1>1, BodiesAssumption DEF ItemsOf, Inserted
<1>3. PICK i \in DOMAIN ItemsOf(p, n) : d = p \o <<n, i>>
  BY DEF Children
<1>4. n \in Node /\ i \in Node
  <2>1. calls[p].entity \in DOMAIN Model
    BY DEF CallTypes
  <2>2. i \in Nat
    BY <1>2, LenProperties
  <2>3. DOMAIN Model[calls[p].entity].navs \in {DOMAIN Model[e].navs : e \in DOMAIN Model}
    BY <2>1
  <2>4. n \in Navs
    BY <2>3, Zenon DEF Inserted, Navs
  <2> QED
    BY <2>2, <2>4 DEF Node
<1> DEFINE last == <<n, i>>
<1>5. last \in Seq(Node) /\ Len(last) = 2 /\ last[1] = n /\ last[2] = i
  BY <1>4
<1> HIDE DEF last
<1>6. /\ d \in Seq(Node) /\ Len(p) \in Nat /\ Len(d) = Len(p) + 2
      /\ \A k \in 1 .. Len(p) + 2 : d[k] = IF k <= Len(p) THEN p[k] ELSE last[k - Len(p)]
  <2>1. d = p \o last
    BY <1>3 DEF last
  <2>2. Len(p) \in Nat /\ p \in Seq(Node)
    BY LenProperties
  <2>3. /\ p \o last \in Seq(Node) /\ Len(p \o last) = Len(p) + Len(last)
        /\ \A k \in 1 .. Len(p) + Len(last) :
             (p \o last)[k] = IF k <= Len(p) THEN p[k] ELSE last[k - Len(p)]
    BY <2>2, <1>5, ConcatProperties, Zenon
  <2> QED
    BY ONLY <2>1, <2>2, <2>3, <1>5
<1>7. d[Len(p) + 1] = n
  <2>1. Len(p) + 1 \in 1 .. Len(p) + 2 /\ ~(Len(p) + 1 <= Len(p)) /\ (Len(p) + 1) - Len(p) = 1
    BY <1>6
  <2> QED
    BY <2>1, <1>5, <1>6
<1>8. d[Len(d)] = i
  <2>1. Len(p) + 2 \in 1 .. Len(p) + 2 /\ ~(Len(p) + 2 <= Len(p)) /\ (Len(p) + 2) - Len(p) = 2
    BY <1>6
  <2> QED
    BY <2>1, <1>5, <1>6
<1>9. \A k \in 1 .. Len(p) : d[k] = p[k]
  BY <1>6
<1> QED
  BY <1>2, <1>3, <1>6, <1>7, <1>8, <1>9

\* A call has one parent, and one navigation that it is for.
LEMMA OneParent ==
  ASSUME ServiceInv, NEW p \in DOMAIN calls, NEW q \in DOMAIN calls,
         NEW n \in Inserted(p), NEW m \in Inserted(q), NEW d,
         d \in Children(p, n), d \in Children(q, m)
  PROVE  p = q /\ n = m
<1>1. /\ CallTypes(calls[p]) /\ CallTypes(calls[q]) /\ p \in Seq(Node) /\ q \in Seq(Node)
  BY DEF ServiceInv, CallKept, TreeKept
<1>2. /\ Len(p) \in Nat /\ Len(d) = Len(p) + 2 /\ d[Len(p) + 1] = n
      /\ \A k \in 1 .. Len(p) : d[k] = p[k]
  BY <1>1, ChildPath
<1>3. /\ Len(q) \in Nat /\ Len(d) = Len(q) + 2 /\ d[Len(q) + 1] = m
      /\ \A k \in 1 .. Len(q) : d[k] = q[k]
  BY <1>1, ChildPath
<1>4. Len(p) = Len(q)
  BY <1>2, <1>3
<1>5. \A k \in 1 .. Len(p) : p[k] = q[k]
  BY <1>2, <1>3, <1>4
<1> QED
  BY <1>1, <1>2, <1>3, <1>4, <1>5, SeqEqual

\* A step that starts no call leaves the calls as they hang together.
LEMMA MovedKeeps ==
  ASSUME ServiceInv, NEW c \in DOMAIN calls, NEW b, Becomes(c, b),
         CallKept(b), Moved(calls[c], b),
         calls[c].pc = "joining" /\ b.pc = "navigations" =>
           \A d \in Children(c, calls[c].nav) : calls[d].pc = "returned"
  PROVE  (\A d \in DOMAIN calls' : CallKept(calls'[d])) /\ TreeKept'
<1>1. /\ DOMAIN calls' = DOMAIN calls /\ calls'[c] = b
      /\ \A d \in DOMAIN calls : d # c => calls'[d] = calls[d]
  BY DEF Becomes
<1>2. \A d \in DOMAIN calls' : CallKept(calls'[d])
  BY <1>1 DEF ServiceInv
<1>3. \A p \in DOMAIN calls : calls'[p].sent = calls[p].sent /\ calls'[p].entity = calls[p].entity
  BY <1>1 DEF Moved
<1>4. \A p \in DOMAIN calls : (Inserted(p))' = Inserted(p)
  BY <1>3 DEF Inserted
<1>5. \A p \in DOMAIN calls : \A n : (Children(p, n))' = Children(p, n)
  <2> TAKE p \in DOMAIN calls
  <2> TAKE n
  <2>1. (ItemsOf(p, n))' = ItemsOf(p, n)
    BY <1>3 DEF ItemsOf
  <2> QED
    BY <2>1 DEF Children
<1>6. ASSUME NEW d \in DOMAIN calls
      PROVE  /\ d \in Seq(Node) /\ Len(d) % 2 = 1
             /\ Len(d) > 1 => \E p \in DOMAIN calls : \E n \in Inserted(p) : (ChildKept(p, n, d))'
  <2>1. d \in Seq(Node) /\ Len(d) % 2 = 1
    BY DEF ServiceInv, TreeKept
  <2>2. ASSUME Len(d) > 1
        PROVE  \E p \in DOMAIN calls : \E n \in Inserted(p) : (ChildKept(p, n, d))'
    <3>0. PICK p \in DOMAIN calls : \E n \in Inserted(p) : ChildKept(p, n, d)
      BY <2>2 DEF ServiceInv, TreeKept
    <3>1. PICK n \in Inserted(p) : ChildKept(p, n, d)
      BY <3>0
    <3>2. d \in (Children(p, n))' /\ d \in Children(p, n)
      BY <3>1, <1>5 DEF ChildKept
    <3>3. d # p
      <4>1. Len(d) = Len(p) + 2 /\ Len(p) \in Nat
        BY <3>2, ChildPath DEF ServiceInv, CallKept, TreeKept
      <4> QED
        BY <4>1
    <3>4. CASE p # c
      <4>1. calls'[p] = calls[p]
        BY <3>4, <1>1
      <4>2. calls[d].pc = "returned" => calls'[d] = calls[d]
        BY <1>1 DEF Moved, Settled
      <4> QED
        BY <3>1, <3>2, <4>1, <4>2 DEF ChildKept
    <3>5. CASE p = c
      <4>1. calls'[d] = calls[d] /\ calls'[p] = b
        BY <3>3, <3>5, <1>1
      <4>2. /\ calls[p].pc \in {"navigations", "joining"} /\ b.left = calls[p].left
            /\ b.nav = calls[p].nav
            /\ \/ b.pc = "threw"
               \/ calls[p].pc = "navigations" /\ b.pc = "returned"
               \/ calls[p].pc = "joining" /\ b.pc = "navigations"
        BY <3>1, <3>5 DEF ChildKept, Moved, Settled
      <4>3. b.pc # "threw" => calls[d].pc = "returned"
        BY <3>1, <3>2, <3>5, <4>2 DEF ChildKept
      <4> QED
        BY <3>1, <3>2, <4>1, <4>2, <4>3 DEF ChildKept
    <3> QED
      BY <3>4, <3>5
  <2> QED
    BY <2>1, <2>2
<1>7. TreeKept'
  BY <1>1, <1>4, <1>6 DEF TreeKept
<1> QED
  BY <1>2, <1>7

\* A call that has not started keeps everything.
LEMMA NewCallKept ==
  ASSUME NEW service, NEW op \in Writing \cup Reading \cup {"save"},
         NEW entity \in DOMAIN Model, NEW key, NEW query,
         NEW body, body.navs \in {sent.navs : sent \in Bodies},
         NEW b, b = NewCall(service, op, entity, key, body, query)
  PROVE  CallKept(b) /\ b.pc = "called"
<1>1. /\ IsCall(b) /\ b.op = op /\ b.entity = entity /\ b.sent = body /\ b.data = body.cols
      /\ b.pc = "called" /\ b.hooks = <<>> /\ ~b.running /\ b.left = {} /\ b.trace = <<>>
      /\ b.found = <<>> /\ b.method = "" /\ b.running \in BOOLEAN
  BY DEF NewCall, IsCall
<1>2. CallTypes(b)
  BY <1>1, EmptySeq DEF CallTypes
<1>3. RulesKept(b)
  BY <1>1 DEF RulesKept
<1>4. Course(b) \in Seq(Entry)
  BY <1>1, CourseParts
<1>5. CourseKept(b)
  BY <1>1, <1>4, WholeIsPrefix DEF CourseKept
<1> QED
  BY <1>1, <1>2, <1>3, <1>5 DEF CallKept

\* The foreign key is all that a child's payload is given.
LEMMA ChildBodyNavs ==
  ASSUME NEW c, NEW n, NEW item \in Bodies
  PROVE  ChildBody(c, n, item).navs = item.navs
<1>1. item = Body(item.cols, item.navs)
  BY BodiesAssumption
<1>2. \A column, k : WithColumn(item, column, k).navs = item.navs
  BY <1>1 DEF WithColumn, Body
<1> QED
  BY <1>2 DEF ChildBody

\* The children of a navigation are new calls, and awaited.
LEMMA InsertChildrenKeeps ==
  ASSUME ServiceInv, NEW c \in DOMAIN calls, InsertChildren(c)
  PROVE  (\A d \in DOMAIN calls' : CallKept(calls'[d])) /\ TreeKept'
<1>0. PICK a : a = calls[c] /\ CallKept(a)
  BY DEF ServiceInv
<1>1. PICK n \in a.left :
        /\ a.pc = "navigations"
        /\ IF CannotLink(c, n) THEN Goto(c, "threw")
           ELSE calls' = Over([calls EXCEPT ![c] = [a EXCEPT !.pc = "joining",
                                                     !.nav = n, !.left = @ \ {n}]],
                             [d \in Children(c, n) |->
                                NewCall("own", "create", NavOf(c, n).entity, None,
                                        ChildBody(c, n, ItemsOf(c, n)[d[Len(d)]]), None)])
  BY <1>0 DEF InsertChildren, At
<1>2. CASE CannotLink(c, n)
  <2>1. PICK b : b = [a EXCEPT !.pc = "threw"] /\ Becomes(c, b)
    BY <1>0, <1>1, <1>2 DEF Goto
  <2>2. CallKept(b) /\ Moved(a, b)
    BY <1>0, <1>1, <2>1, Threw DEF Settled
  <2> QED
    BY <1>0, <1>1, <2>1, <2>2, MovedKeeps
<1>3. CASE ~CannotLink(c, n)
  <2> DEFINE kids == Children(c, n)
             New(d) == NewCall("own", "create", NavOf(c, n).entity, None,
                               ChildBody(c, n, ItemsOf(c, n)[d[Len(d)]]), None)
  <2>1. PICK b : /\ b = [a EXCEPT !.pc = "joining", !.nav = n, !.left = @ \ {n}]
                 /\ calls' = Over([calls EXCEPT ![c] = b], [d \in kids |-> New(d)])
    BY <1>1, <1>3
  <2>2. n \in Inserted(c) /\ c \in Seq(Node) /\ Len(c) % 2 = 1 /\ CallTypes(a) /\ Len(c) \in Nat
    BY <1>0, LenProperties DEF CallKept, CallTypes, Inserted, ServiceInv, TreeKept
  <2>3. \A d \in kids : /\ d \in Seq(Node) /\ Len(d) = Len(c) + 2
                        /\ ItemsOf(c, n)[d[Len(d)]] \in Bodies
    <3> TAKE d \in kids
    <3>1. /\ d \in Seq(Node) /\ Len(d) = Len(c) + 2 /\ ItemsOf(c, n) \in Seq(Bodies)
          /\ d[Len(d)] \in DOMAIN ItemsOf(c, n)
      BY <1>0, <2>2, ChildPath
    <3> QED
      BY <3>1, ElementOfSeq, LenProperties
  <2>4. c \notin kids
    BY <2>2, <2>3
  <2>5. \A d \in kids : d \notin DOMAIN calls
    <3> SUFFICES ASSUME NEW d \in kids, d \in DOMAIN calls PROVE FALSE
      OBVIOUS
    <3>1. Len(d) > 1
      BY <2>2, <2>3
    <3>2. PICK p \in DOMAIN calls : \E m \in Inserted(p) : ChildKept(p, m, d)
      BY <3>1 DEF ServiceInv, TreeKept
    <3>3. PICK m \in Inserted(p) : ChildKept(p, m, d)
      BY <3>2
    <3>4. p = c /\ m = n
      BY <3>3, <2>2, OneParent DEF ChildKept
    <3> QED
      BY <3>3, <3>4, <1>0, <1>1 DEF ChildKept
  <2> HIDE DEF kids, New
  <2>6. /\ DOMAIN calls' = DOMAIN calls \cup kids
        /\ calls'[c] = b
        /\ \A d \in DOMAIN calls : d # c => calls'[d] = calls[d]
        /\ \A d \in kids : calls'[d] = New(d)
    BY <2>1, <2>4, <2>5 DEF Over
  <2>7. /\ CallTypes(b) /\ b.pc = "joining" /\ b.nav = n /\ b.left = a.left \ {n}
        /\ b.sent = a.sent /\ b.entity = a.entity /\ b.op = a.op /\ b.key = a.key
        /\ b.found = a.found /\ b.trace = a.trace /\ b.method = a.method
    BY <1>0, <2>1, <2>2 DEF CallKept, CallTypes, IsCall, Settled, Inserted
  <2>8. CallKept(b)
    <3>1. RulesKept(b)
      BY <1>0, <1>1, <2>7 DEF CallKept, RulesKept, OwnMessages
    <3>2. CourseKept(b)
      BY <1>0, <1>1, <2>7, SameCourse DEF CallKept, CourseKept
    <3> QED
      BY <2>7, <3>1, <3>2 DEF CallKept
  <2>9. ASSUME NEW d \in kids
        PROVE  CallKept(calls'[d])
    <3> DEFINE item == ItemsOf(c, n)[d[Len(d)]]
    <3>1. item \in Bodies /\ ChildBody(c, n, item).navs \in {body.navs : body \in Bodies}
      BY <2>3, ChildBodyNavs
    <3>2. NavOf(c, n).entity \in DOMAIN Model
      BY <1>0, <2>2, ModelAssumption DEF NavOf, Entity, Inserted, CallTypes
    <3>3. "create" \in Writing \cup Reading \cup {"save"}
      BY DEF Writing
    <3>4. CallKept(New(d))
      BY <3>1, <3>2, <3>3, NewCallKept DEF New
    <3> QED
      BY <3>4, <2>6
  <2>10. \A d \in DOMAIN calls' : CallKept(calls'[d])
    <3>1. \A d \in DOMAIN calls : CallKept(calls'[d])
      BY <2>6, <2>8 DEF ServiceInv
    <3> QED
      BY <3>1, <2>6, <2>9
  <2>11. \A p \in DOMAIN calls : calls'[p].sent = calls[p].sent /\ calls'[p].entity = calls[p].entity
    BY <1>0, <2>6, <2>7
  <2>12. \A p \in DOMAIN calls : (Inserted(p))' = Inserted(p)
    BY <2>11 DEF Inserted
  <2>13. \A p \in DOMAIN calls : \A m : (Children(p, m))' = Children(p, m)
    <3> TAKE p \in DOMAIN calls
    <3> TAKE m
    <3>1. (ItemsOf(p, m))' = ItemsOf(p, m)
      BY <2>11 DEF ItemsOf
    <3> QED
      BY <3>1 DEF Children
  <2>14. ASSUME NEW d \in kids
         PROVE  /\ d \in Seq(Node) /\ Len(d) % 2 = 1
                /\ \E p \in DOMAIN calls : \E m \in Inserted(p) : (ChildKept(p, m, d))'
    <3>1. (ChildKept(c, n, d))'
      BY <2>6, <2>7, <2>13 DEF ChildKept, kids
    <3>2. Len(d) % 2 = 1
      BY <2>2, <2>3
    <3> QED
      BY <2>2, <2>3, <3>1, <3>2
  <2>15. ASSUME NEW d \in DOMAIN calls
         PROVE  /\ d \in Seq(Node) /\ Len(d) % 2 = 1
                /\ Len(d) > 1 =>
                     \E p \in DOMAIN calls : \E m \in Inserted(p) : (ChildKept(p, m, d))'
    <3>1. d \in Seq(Node) /\ Len(d) % 2 = 1
      BY DEF ServiceInv, TreeKept
    <3>2. ASSUME Len(d) > 1
          PROVE  \E p \in DOMAIN calls : \E m \in Inserted(p) : (ChildKept(p, m, d))'
      <4>0. PICK p \in DOMAIN calls : \E m \in Inserted(p) : ChildKept(p, m, d)
        BY <3>2 DEF ServiceInv, TreeKept
      <4>1. PICK m \in Inserted(p) : ChildKept(p, m, d)
        BY <4>0
      <4>2. d \in (Children(p, m))' /\ d \in Children(p, m)
        BY <4>1, <2>13 DEF ChildKept
      <4>3. calls[d].pc = "returned" => calls'[d] = calls[d]
        BY <2>6, <1>0, <1>1
      <4>4. CASE p # c
        <5>1. calls'[p] = calls[p]
          BY <4>4, <2>6
        <5> QED
          BY <4>1, <4>2, <4>3, <5>1 DEF ChildKept
      <4>5. CASE p = c
        <5>1. calls[d].pc = "returned" /\ m \notin a.left
          BY <4>1, <4>5, <1>0, <1>1 DEF ChildKept
        <5> QED
          BY <4>2, <4>3, <4>5, <5>1, <2>6, <2>7 DEF ChildKept
      <4> QED
        BY <4>1, <4>4, <4>5
    <3> QED
      BY <3>1, <3>2
  <2>16. TreeKept'
    <3> SUFFICES ASSUME NEW d \in DOMAIN calls'
                 PROVE  /\ d \in Seq(Node) /\ Len(d) % 2 = 1
                        /\ Len(d) > 1 =>
                             \E p \in DOMAIN calls' : \E m \in (Inserted(p))' : (ChildKept(p, m, d))'
      BY DEF TreeKept
    <3>1. /\ d \in Seq(Node) /\ Len(d) % 2 = 1
          /\ Len(d) > 1 =>
               \E p \in DOMAIN calls : \E m \in Inserted(p) : (ChildKept(p, m, d))'
      BY <2>6, <2>14, <2>15
    <3>2. DOMAIN calls \subseteq DOMAIN calls'
      BY <2>6
    <3> QED
      BY <3>1, <3>2, <2>12
  <2> QED
    BY <2>10, <2>16
<1> QED
  BY <1>2, <1>3

-----------------------------------------------------------------------------
(* The invariant *)

\* The cache is as it was, or has forgotten a key.
LEMMA Forgotten ==
  ASSUME CacheKept,
         \/ rulesCache' = rulesCache
         \/ \E key : rulesCache' = Restrict(rulesCache, DOMAIN rulesCache \ {key})
  PROVE  CacheKept'
<1>1. \A k \in DOMAIN rulesCache' : k \in DOMAIN rulesCache /\ rulesCache'[k] = rulesCache[k]
  BY DEF Restrict
<1> QED
  BY <1>1 DEF CacheKept

LEMMA InitInv == ServiceInit => ServiceInv
<1> SUFFICES ASSUME ServiceInit PROVE ServiceInv
  OBVIOUS
<1>1. PICK s \in Scenarios :
        /\ rulesCache = <<>>
        /\ calls = [c \in {<<i>> : i \in DOMAIN s.calls} |-> s.calls[c[1]]]
  BY DEF ServiceInit
<1>2. \A c \in DOMAIN calls : \E i \in DOMAIN s.calls : c = <<i>> /\ calls[c] = s.calls[i]
  BY <1>1
<1>3. ASSUME NEW c \in DOMAIN calls
      PROVE  CallKept(calls[c]) /\ c \in Seq(Node) /\ Len(c) = 1
  <2>1. PICK i \in DOMAIN s.calls : c = <<i>> /\ calls[c] = s.calls[i]
    BY <1>2
  <2>2. PICK a : a = s.calls[i]
    OBVIOUS
  <2>3. /\ a = NewCall(a.service, a.op, a.entity, a.key, a.sent, a.query)
        /\ a.op \in Writing \cup Reading \cup {"save"} /\ a.entity \in DOMAIN Model
        /\ a.sent \in Bodies
    BY <2>2, ScenariosAssumption DEF Writing, Reading
  <2>4. CallKept(a)
    BY <2>3, NewCallKept
  <2>5. i \in Nat
    BY ScenariosAssumption, LenProperties
  <2>6. i \in Node
    BY <2>5 DEF Node
  <2>7. c \in Seq(Node) /\ Len(c) = 1
    BY <2>1, <2>6
  <2> QED
    BY <2>1, <2>2, <2>4, <2>7
<1>4. CacheKept
  <2>1. DOMAIN rulesCache = {}
    BY <1>1
  <2> QED
    BY <2>1 DEF CacheKept
<1>5. TreeKept
  <2>1. \A d \in DOMAIN calls : d \in Seq(Node) /\ Len(d) = 1
    BY <1>3
  <2>2. 1 % 2 = 1 /\ ~(1 > 1)
    OBVIOUS
  <2> QED
    BY <2>1, <2>2, Zenon DEF TreeKept
<1> QED
  BY <1>3, <1>4, <1>5 DEF ServiceInv

LEMMA CallStepInv ==
  ASSUME ServiceInv, NEW c \in DOMAIN calls, CallStep(c)
  PROVE  ServiceInv'
<1>0. CallKept(calls[c]) /\ CacheKept
  BY DEF ServiceInv
<1>1. CASE InsertChildren(c)
  <2>1. CacheKept'
    BY <1>0, <1>1, Forgotten DEF InsertChildren
  <2> QED
    BY <1>1, <2>1, InsertChildrenKeeps DEF ServiceInv
<1>2. CASE Join(c)
  <2>1. CacheKept'
    BY <1>0, <1>2, Forgotten DEF Join
  <2>2. PICK b : Becomes(c, b) /\ CallKept(b) /\ Moved(calls[c], b)
    BY <1>0, <1>2, JoinKeeps
  <2>3. \A d \in Children(c, calls[c].nav) : calls[d].pc = "returned"
    BY <1>2 DEF Join, At
  <2> QED
    BY <2>1, <2>2, <2>3, MovedKeeps DEF ServiceInv
<1>3. CASE ~InsertChildren(c) /\ ~Join(c)
  <2>1. \E b : Becomes(c, b) /\ CallKept(b) /\ Moved(calls[c], b)
    BY <1>0, <1>3, ViewThrowsKeeps, SaveKeeps, ValidateKeeps, StartDeleteKeeps,
       StartHookKeeps, EndHookKeeps, InsertKeeps, UpdateKeeps, CreatedKeeps,
       FindOneKeeps, FindAllKeeps, ColumnMapperKeeps, QueryThrowsKeeps, FindKeeps,
       CountKeeps, AnswerKeeps
       DEF CallStep
  <2>2. CacheKept'
    <3>1. CASE Validate(c)
      BY <1>0, <3>1, ValidateKeeps
    <3>2. CASE ValidateThrows(c)
      BY <1>0, <3>2, Forgotten DEF ValidateThrows
    <3>3. CASE ~Validate(c) /\ ~ValidateThrows(c)
      <4>1. rulesCache' = rulesCache
        BY <1>3, <3>3 DEF CallStep, ViewThrows, Save, StartDelete, StartHook, EndHook,
          HookThrows, Insert, Update, Delete, JoinThrows, Created, FindOne, FindAll,
          CreateColumnMapper, FillColumnMapper, QueryThrows, Find, Count, Answer
      <4> QED
        BY <1>0, <4>1, Forgotten
    <3> QED
      BY <3>1, <3>2, <3>3
  <2>3. PICK b : Becomes(c, b) /\ CallKept(b) /\ Moved(calls[c], b)
    BY <2>1
  <2>4. CASE ~(calls[c].pc = "joining" /\ b.pc = "navigations")
    BY <2>2, <2>3, <2>4, MovedKeeps DEF ServiceInv
  <2>5. CASE calls[c].pc = "joining" /\ b.pc = "navigations"
    <3>1. JoinThrows(c)
      BY <1>3, <2>5 DEF CallStep, At, HooksDone, ViewThrows, Save, Validate, ValidateThrows,
        StartDelete, StartHook, EndHook, HookThrows, Insert, Update, Delete, Created,
        FindOne, FindAll, CreateColumnMapper, FillColumnMapper, QueryThrows, Find, Count,
        Answer
    <3>2. calls'[c].pc = "threw" /\ calls'[c].pc = b.pc
      BY <3>1, <2>3, <1>0 DEF JoinThrows, Goto, Becomes, CallKept, CallTypes, IsCall
    <3> QED
      BY <3>2, <2>5
  <2> QED
    BY <2>4, <2>5
<1> QED
  BY <1>1, <1>2, <1>3

LEMMA NextInv == ServiceInv /\ [ServiceNext]_vars => ServiceInv'
<1> SUFFICES ASSUME ServiceInv, [ServiceNext]_vars PROVE ServiceInv'
  OBVIOUS
<1>1. CASE \E c \in DOMAIN calls : CallStep(c)
  BY <1>1, CallStepInv
<1>2. CASE \E key \in DOMAIN rulesCache : Expire(key)
  <2>1. /\ calls' = calls
        /\ \E key : rulesCache' = Restrict(rulesCache, DOMAIN rulesCache \ {key})
    BY <1>2 DEF Expire
  <2>2. CacheKept'
    BY <2>1, Forgotten DEF ServiceInv
  <2> QED
    BY <2>1, <2>2 DEF ServiceInv, TreeKept, ChildKept, Children, ItemsOf, Inserted
<1>3. CASE UNCHANGED vars
  BY <1>3 DEF vars, ServiceInv, CacheKept, TreeKept, ChildKept, Children, ItemsOf, Inserted
<1> QED
  BY <1>1, <1>2, <1>3 DEF ServiceNext

LEMMA AlwaysInv == ServiceSpec => []ServiceInv
<1> QED
  BY InitInv, NextInv, PTL DEF ServiceSpec

-----------------------------------------------------------------------------
(* What it says *)

\* A set of numbers has a least.
LEMMA LeastOf ==
  ASSUME NEW S \in SUBSET Nat, S # {}
  PROVE  \E m \in S : \A k \in S : m <= k
<1> DEFINE R == OpToRel(<, Nat)
<1>1. \A k, m \in Nat : k < m => <<k, m>> \in R
  BY DEF OpToRel
<1>2. IsWellFoundedOn(R, Nat)
  BY NatLessThanWellFounded, Zenon DEF OpToRel
<1> HIDE DEF R
<1>3. PICK m \in S : \A k \in S : ~(<<k, m>> \in R)
  BY <1>2, WFMin
<1>4. \A k \in S : ~(k < m)
  BY <1>1, <1>3
<1> QED
  BY <1>4

Below(c, d) == Len(c) < Len(d) /\ \A k \in 1 .. Len(c) : d[k] = c[k]

\* What has returned has nothing below it that has not: the shortest path
\* that there would be has a parent that has returned.
LEMMA ReturnedBelow ==
  ASSUME ServiceInv, NEW c \in DOMAIN calls, calls[c].pc = "returned",
         NEW e \in DOMAIN calls, Below(c, e)
  PROVE  calls[e].pc = "returned"
<1> SUFFICES ASSUME calls[e].pc # "returned" PROVE FALSE
  OBVIOUS
<1> DEFINE open == {d \in DOMAIN calls : Below(c, d) /\ calls[d].pc # "returned"}
<1>1. \A d \in DOMAIN calls : /\ d \in Seq(Node) /\ Len(d) \in Nat /\ Len(d) % 2 = 1
                              /\ CallTypes(calls[d])
  BY LenProperties DEF ServiceInv, TreeKept, CallKept
<1>2. {Len(d) : d \in open} \in SUBSET Nat /\ {Len(d) : d \in open} # {}
  BY <1>1
<1>3. PICK m \in {Len(d) : d \in open} : \A k \in {Len(d) : d \in open} : m <= k
  BY <1>2, LeastOf
<1>4. PICK d \in open : \A f \in open : Len(d) <= Len(f)
  BY <1>3
<1>5. /\ d \in DOMAIN calls /\ Len(c) < Len(d) /\ calls[d].pc # "returned"
      /\ \A k \in 1 .. Len(c) : d[k] = c[k]
  BY <1>4 DEF Below
<1>6. Len(c) \in Nat /\ Len(c) % 2 = 1 /\ Len(d) \in Nat /\ Len(d) % 2 = 1
  BY <1>1, <1>5
<1>7. Len(d) > 1
  BY <1>5, <1>6
<1>8. PICK p \in DOMAIN calls : \E n \in Inserted(p) : ChildKept(p, n, d)
  BY <1>5, <1>7 DEF ServiceInv, TreeKept
<1>9. PICK n \in Inserted(p) : ChildKept(p, n, d)
  BY <1>8
<1>10. /\ Len(p) \in Nat /\ Len(d) = Len(p) + 2 /\ \A k \in 1 .. Len(p) : d[k] = p[k]
  BY <1>1, <1>9, ChildPath DEF ChildKept
<1>11. Len(p) % 2 = 1
  BY <1>1
<1>12. Len(c) <= Len(p)
  <2>1. \A k, j \in Nat : k % 2 = 1 /\ j % 2 = 1 /\ k < j + 2 => k <= j
    OBVIOUS
  <2> QED
    BY <2>1, <1>5, <1>6, <1>10, <1>11
<1>13. \A k \in 1 .. Len(c) : p[k] = c[k]
  BY <1>5, <1>6, <1>10, <1>12
<1>14. calls[p].pc = "returned"
  <2>1. CASE Len(c) = Len(p)
    <3>1. c = p
      BY <1>1, <1>13, <2>1, SeqEqual
    <3> QED
      BY <3>1
  <2>2. CASE Len(c) < Len(p)
    <3>1. Below(c, p) /\ Len(p) < Len(d)
      BY <1>6, <1>10, <1>13, <2>2 DEF Below
    <3>2. p \notin open
      BY <3>1, <1>4, <1>6, <1>10
    <3> QED
      BY <3>1, <3>2
  <2> QED
    BY <2>1, <2>2, <1>6, <1>10, <1>12
<1> QED
  BY <1>5, <1>9, <1>14 DEF ChildKept

\* A payload is refused exactly for the messages of its own rules, whatever
\* filled the cache before, in models whose classes differ in their names.
THEOREM RefusedIffInvalidHolds ==
  ASSUME ClassNamesDiffer
  PROVE  ServiceSpec => []RefusedIffInvalid
<1>1. ServiceInv => RefusedIffInvalid
  BY DEF ServiceInv, CallKept, RulesKept, OwnMessages, RefusedIffInvalid, At, Entity
<1> QED
  BY <1>1, AlwaysInv, PTL

\* Hooks run in their order around the statement, one at a time, and nothing
\* of a deep insert, no hook and no event is missing when its call returns.
THEOREM HooksInOrderHolds == ServiceSpec => []HooksInOrder
<1>1. ServiceInv => HooksInOrder
  <2> SUFFICES ASSUME ServiceInv, NEW c \in DOMAIN calls
               PROVE  /\ IsPrefix(calls[c].trace, Course(calls[c]))
                      /\ At(c, "returned") =>
                           /\ calls[c].trace = Course(calls[c])
                           /\ \A d \in DOMAIN calls :
                                Len(d) > Len(c) /\ IsPrefix(c, d) => At(d, "returned")
    BY DEF HooksInOrder
  <2>1. CourseKept(calls[c])
    BY DEF ServiceInv, CallKept
  <2>2. ASSUME At(c, "returned"), NEW d \in DOMAIN calls, Len(d) > Len(c), IsPrefix(c, d)
        PROVE  At(d, "returned")
    <3>1. c \in Seq(Node) /\ d \in Seq(Node) /\ Len(c) \in Nat /\ Len(d) \in Nat
      BY LenProperties DEF ServiceInv, TreeKept
    <3>2. /\ \A k \in 1 .. Len(c) : SubSeq(c, 1, Len(c))[k] = c[k]
          /\ \A k \in 1 .. Len(c) : SubSeq(d, 1, Len(c))[k] = d[k]
      <4>1. \A k \in 1 .. Len(c) : c[k] \in Node /\ d[k] \in Node
        BY <3>1, <2>2, ElementOfSeq
      <4> QED
        BY <4>1, <3>1, SubSeqProperties
    <3>3. SubSeq(c, 1, Len(c)) = SubSeq(d, 1, Len(c))
      BY <2>2 DEF IsPrefix
    <3>4. Below(c, d)
      BY <3>1, <3>2, <3>3, <2>2 DEF Below
    <3> QED
      BY <3>4, <2>2, ReturnedBelow DEF At
  <2> QED
    BY <2>1, <2>2 DEF CourseKept, At
<1> QED
  BY <1>1, AlwaysInv, PTL
=============================================================================
