---------------------------- MODULE DependsProofs ----------------------------
(***************************************************************************)
(* What holds of groupDependsOn for every atom group, however many         *)
(* requests it has and whatever they depend on.                            *)
(*                                                                         *)
(* A cycle leaves no order: the request of a cycle that ran first would    *)
(* have to run after another one of it.  And when there is none, an order  *)
(* can be built one request at a time: among the requests not ordered yet  *)
(* there is always one that depends on none of them.                       *)
(*                                                                         *)
(* The depth-first search of a component is followed turn by turn.  Its    *)
(* invariant, Searching, makes a component the least set around its root   *)
(* that no edge leaves; so the components partition the requests, and in   *)
(* a forest each lists a request after the one it depends on (Dependent).  *)
(***************************************************************************)
EXTENDS DependsOnCases, FiniteSetTheorems, WellFoundedInduction, TLAPS

\* Every nonempty set of natural numbers has a least element.
LEMMA LeastNatural ==
  ASSUME NEW S, S \subseteq Nat, S # {}
  PROVE  \E m \in S : \A k \in S : m <= k
<1> DEFINE R == OpToRel(<, Nat)
<1>1. \A k, m \in Nat : k < m => <<k, m>> \in R
  BY DEF OpToRel
<1>2. IsWellFoundedOn(R, Nat)
  BY NatLessThanWellFounded, Zenon DEF OpToRel
<1> HIDE DEF R
<1>3. \E m \in S : \A k \in S : ~(<<k, m>> \in R)
  BY <1>2, WFMin
<1>4. PICK m \in S : \A k \in S : ~(<<k, m>> \in R)
  BY <1>3
<1>5. m \in Nat /\ \A k \in S : k \in Nat /\ ~(k < m)
  BY <1>1, <1>4
<1>6. \A k \in S : m <= k
  BY <1>5
<1> QED
  BY <1>6

\* The ids of a valid group are as many as its requests, its edges and the
\* nodes of its graph are among them.
LEMMA ValidGroup ==
  ASSUME NEW reqs \in Seq(Request), IsValid(reqs)
  PROVE  /\ Len(reqs) \in Nat
         /\ IsFiniteSet(Ids(reqs)) /\ Cardinality(Ids(reqs)) = Len(reqs)
         /\ \A e \in Edges(reqs) :
              /\ e = <<e[1], e[2]>> /\ e[1] \in Ids(reqs) /\ e[2] \in Ids(reqs)
              /\ e[1] \in Nodes(reqs)
         /\ Nodes(reqs) \subseteq Ids(reqs)
<1> DEFINE f == [i \in 1..Len(reqs) |-> reqs[i].id]
<1>1. /\ Len(reqs) \in Nat /\ DOMAIN reqs = 1..Len(reqs)
      /\ Range(reqs) = {reqs[i] : i \in 1..Len(reqs)}
  BY DEF Range
<1>2. f \in Surjection(1..Len(reqs), Ids(reqs))
  BY <1>1 DEF Surjection, Ids
<1>3. f \in Injection(1..Len(reqs), Ids(reqs))
  BY <1>1, <1>2 DEF Injection, Surjection, IsInjective, IsValid
<1>4. /\ IsFiniteSet(1..Len(reqs)) /\ Cardinality(1..Len(reqs)) = Len(reqs)
  <2> DEFINE n == Len(reqs)
  <2>1. n \in Int /\ n \in Nat
    BY <1>1
  <2> HIDE DEF n
  <2>2. IsFiniteSet(1..n) /\ Cardinality(1..n) = n
    BY <2>1, FS_Interval
  <2> QED
    BY <2>2 DEF n
<1>5. IsFiniteSet(Ids(reqs)) /\ Cardinality(Ids(reqs)) = Len(reqs)
  BY <1>2, <1>3, <1>4, FS_Surjection
<1>6. ASSUME NEW e \in Edges(reqs)
      PROVE  /\ e = <<e[1], e[2]>> /\ e[1] \in Ids(reqs) /\ e[2] \in Ids(reqs)
             /\ e[1] \in Nodes(reqs)
  <2>0. PICK req \in Range(reqs) :
               req.dependsOn # Absent /\ \E dep \in req.dependsOn : e = <<req.id, dep>>
    BY DEF Edges
  <2>1. PICK dep \in req.dependsOn : e = <<req.id, dep>>
    BY <2>0
  <2>2. e[1] \in Ids(reqs) /\ e[2] \in Ids(reqs)
    BY <2>0, <2>1 DEF Ids, IsValid
  <2> QED
    BY <2>1, <2>2 DEF Nodes
<1>7. Nodes(reqs) \subseteq Ids(reqs)
  BY <1>6 DEF Nodes, Ids
<1> QED
  BY <1>1, <1>5, <1>6, <1>7

Ranks(reqs) ==
  {rank \in [Ids(reqs) -> 1..Len(reqs)] :
     \A e \in Edges(reqs) : rank[e[2]] < rank[e[1]]}

\* A group that is refused has no order.
LEMMA RefusedHasNoOrder ==
  ASSUME NEW reqs \in Seq(Request), IsValid(reqs), Refuses(reqs), NEW rank \in Ranks(reqs)
  PROVE  FALSE
<1>1. PICK S \in (SUBSET Nodes(reqs)) \ {{}} :
             \A v \in S : \E w \in S : <<v, w>> \in Edges(reqs)
  BY DEF Refuses, HasCycle
<1>2. /\ S \subseteq Ids(reqs) /\ S # {}
      /\ \A v \in S : rank[v] \in Nat
  <2>1. Nodes(reqs) \subseteq Ids(reqs) /\ Len(reqs) \in Nat
    BY ValidGroup
  <2>2. S \subseteq Nodes(reqs) /\ S # {}
    OBVIOUS
  <2>3. rank \in [Ids(reqs) -> 1..Len(reqs)]
    BY DEF Ranks
  <2> QED
    BY <2>1, <2>2, <2>3
<1>3. PICK m \in {rank[v] : v \in S} : \A k \in {rank[v] : v \in S} : m <= k
  <2>1. {rank[v] : v \in S} \subseteq Nat /\ {rank[v] : v \in S} # {}
    BY <1>2
  <2> QED
    BY <2>1, LeastNatural
<1>4. PICK v \in S : rank[v] = m
  BY <1>3
<1>5. PICK w \in S : <<v, w>> \in Edges(reqs)
  BY <1>1
<1>6. rank[w] < rank[v]
  <2>1. rank[<<v, w>>[2]] < rank[<<v, w>>[1]]
    BY <1>5 DEF Ranks
  <2> QED
    BY <2>1
<1>7. rank[w] \in {rank[u] : u \in S} /\ rank[w] \in Nat /\ rank[v] \in Nat
  BY <1>2
<1>8. rank[v] <= rank[w]
  BY <1>3, <1>4, <1>7
<1> QED
  BY <1>6, <1>7, <1>8

\* Of the requests of a group that is not refused, any nonempty set has one
\* that depends on none of the set.
LEMMA SomeoneIsFree ==
  ASSUME NEW reqs \in Seq(Request), IsValid(reqs), ~Refuses(reqs),
         NEW S \in SUBSET Ids(reqs), S # {}
  PROVE  \E v \in S : \A w \in S : <<v, w>> \notin Edges(reqs)
<1> SUFFICES ASSUME \A v \in S : \E w \in S : <<v, w>> \in Edges(reqs)
             PROVE  FALSE
  OBVIOUS
<1>1. S \subseteq Nodes(reqs)
  <2> SUFFICES ASSUME NEW v \in S
               PROVE  v \in Nodes(reqs)
    OBVIOUS
  <2>1. PICK w \in S : <<v, w>> \in Edges(reqs)
    OBVIOUS
  <2> QED
    BY <2>1, ValidGroup
<1>2. Edges(reqs) # {}
  OBVIOUS
<1> QED
  BY <1>1, <1>2 DEF Refuses, HasCycle

\* The first k places of an order: k requests that depend on none but each
\* other, ranked.
Places(reqs, k, T) ==
  /\ Cardinality(T) = k
  /\ \E rank \in [T -> 1..k] :
       \A e \in Edges(reqs) :
         e[1] \in T => e[2] \in T /\ rank[e[2]] < rank[e[1]]

Ordered(reqs, k) == \E T \in SUBSET Ids(reqs) : Places(reqs, k, T)

\* While requests are left, the order can be continued.
LEMMA OneMore ==
  ASSUME NEW reqs \in Seq(Request), IsValid(reqs), ~Refuses(reqs),
         NEW k \in Nat, k < Len(reqs), Ordered(reqs, k)
  PROVE  Ordered(reqs, k + 1)
<1>0. PICK T \in SUBSET Ids(reqs) : Places(reqs, k, T)
  BY DEF Ordered
<1>1. PICK rank \in [T -> 1..k] :
        \A e \in Edges(reqs) :
          e[1] \in T => e[2] \in T /\ rank[e[2]] < rank[e[1]]
  BY <1>0 DEF Places
<1>t. Cardinality(T) = k /\ IsFiniteSet(T)
  BY <1>0, ValidGroup, FS_Subset DEF Places
<1>2. Ids(reqs) \ T # {}
  <2>1. Cardinality(Ids(reqs)) # Cardinality(T)
    BY <1>t, ValidGroup
  <2> QED
    BY <2>1
<1>3. PICK v \in Ids(reqs) \ T : \A w \in Ids(reqs) \ T : <<v, w>> \notin Edges(reqs)
  BY <1>2, SomeoneIsFree
<1> DEFINE U == T \cup {v}
           more == [x \in U |-> IF x = v THEN k + 1 ELSE rank[x]]
<1>4. U \in SUBSET Ids(reqs) /\ Cardinality(U) = k + 1
  <2> QED
    BY <1>3, <1>t, FS_AddElement
<1>5. more \in [U -> 1..(k + 1)]
  BY <1>1
<1>6. ASSUME NEW e \in Edges(reqs), e[1] \in U
      PROVE  e[2] \in U /\ more[e[2]] < more[e[1]]
  <2>1. e = <<e[1], e[2]>> /\ e[2] \in Ids(reqs)
    BY ValidGroup
  <2>2. CASE e[1] = v
    <3>1. e[2] \in T
      BY <1>3, <2>1, <2>2
    <3> QED
      BY <1>1, <1>3, <2>2, <3>1
  <2>3. CASE e[1] # v
    <3>1. e[1] \in T /\ e[2] \in T /\ rank[e[2]] < rank[e[1]]
      BY <1>1, <1>6, <2>3
    <3> QED
      BY <1>3, <3>1
  <2> QED
    BY <2>2, <2>3
<1> HIDE DEF U, more
<1> QED
  BY <1>4, <1>5, <1>6 DEF Ordered, Places

\* A group that is not refused has an order.
LEMMA ArrangedHasOrder ==
  ASSUME NEW reqs \in Seq(Request), IsValid(reqs), ~Refuses(reqs)
  PROVE  Ranks(reqs) # {}
<1> DEFINE Stuck == {k \in 0..Len(reqs) : ~Ordered(reqs, k)}
<1>0. Len(reqs) \in Nat
  BY ValidGroup
<1>1. Ordered(reqs, 0)
  <2>1. [x \in {} |-> 1] \in [{} -> 1..0]
    OBVIOUS
  <2> QED
    BY <2>1, FS_EmptySet DEF Ordered, Places
<1>2. Stuck = {}
  <2> SUFFICES ASSUME Stuck # {}
               PROVE  FALSE
    OBVIOUS
  <2>1. PICK m \in Stuck : \A k \in Stuck : m <= k
    <3>1. Stuck \subseteq Nat
      BY <1>0
    <3> QED
      BY <3>1, LeastNatural
  <2>2. m # 0 /\ m - 1 \in Nat /\ m - 1 < Len(reqs) /\ m - 1 \notin Stuck
    BY <1>0, <1>1, <2>1
  <2>3. Ordered(reqs, m - 1)
    BY <1>0, <2>1, <2>2
  <2>4. Ordered(reqs, (m - 1) + 1)
    BY <2>2, <2>3, OneMore
  <2> QED
    BY <1>0, <2>1, <2>4
<1>3. Ordered(reqs, Len(reqs))
  BY <1>0, <1>2
<1>t. PICK T \in SUBSET Ids(reqs) : Places(reqs, Len(reqs), T)
  BY <1>3 DEF Ordered
<1>4. PICK rank \in [T -> 1..Len(reqs)] :
        \A e \in Edges(reqs) :
          e[1] \in T => e[2] \in T /\ rank[e[2]] < rank[e[1]]
  BY <1>t DEF Places
<1>5. T = Ids(reqs)
  BY <1>t, ValidGroup, FS_Subset DEF Places
<1>6. rank \in Ranks(reqs)
  BY <1>4, <1>5, ValidGroup DEF Ranks
<1> QED
  BY <1>6

----------------------------------------------------------------------------
(* Induction up to a number, iteration, sequences                          *)

\* What holds at 0, and at k + 1 whenever it does at k, holds up to n.
LEMMA Stepwise ==
  ASSUME NEW n \in Nat, NEW S, 0 \in S, \A k \in 0..(n - 1) : k \in S => k + 1 \in S
  PROVE  0..n \subseteq S
<1> DEFINE Stuck == (0..n) \ S
<1> SUFFICES ASSUME Stuck # {}
             PROVE  FALSE
  OBVIOUS
<1>1. PICK m \in Stuck : \A k \in Stuck : m <= k
  <2>1. Stuck \subseteq Nat
    OBVIOUS
  <2> QED
    BY <2>1, LeastNatural
<1>2. m # 0 /\ m - 1 \in 0..(n - 1) /\ m - 1 \notin Stuck
  BY <1>1
<1>3. m - 1 \in S
  BY <1>2
<1> QED
  BY <1>1, <1>2, <1>3

\* The function that starts with base and goes on by the steps.
Iterates(f, base, n, step) ==
  f[0] = base /\ \A k \in 1..n : f[k] = step[k][f[k - 1]]

\* There is one over a set that base is of and each step keeps to.
LEMMA Iterated ==
  ASSUME NEW T, NEW base \in T, NEW n \in Nat, NEW step \in [1..n -> [T -> T]]
  PROVE  \E f \in [0..n -> T] : Iterates(f, base, n, step)
<1> DEFINE Runs(f, m) == f[0] = base /\ \A k \in 1..m : f[k] = step[k][f[k - 1]]
           S == {m \in 0..n : \E f \in [0..m -> T] : Runs(f, m)}
<1>1. 0 \in S
  <2> DEFINE f == [k \in 0..0 |-> base]
  <2>1. f \in [0..0 -> T] /\ f[0] = base
    OBVIOUS
  <2>2. Runs(f, 0)
    BY <2>1
  <2> HIDE DEF f, Runs
  <2> QED
    BY <2>1, <2>2
<1>2. ASSUME NEW m \in 0..(n - 1), m \in S
      PROVE  m + 1 \in S
  <2>1. PICK f \in [0..m -> T] : Runs(f, m)
    BY <1>2
  <2> DEFINE g == [k \in 0..(m + 1) |-> IF k = m + 1 THEN step[m + 1][f[m]] ELSE f[k]]
  <2>2. step[m + 1] \in [T -> T] /\ f[m] \in T
    OBVIOUS
  <2>3. g \in [0..(m + 1) -> T]
    BY <2>2
  <2>4. Runs(g, m + 1)
    <3>1. g[0] = base
      BY <2>1
    <3>2. ASSUME NEW k \in 1..(m + 1)
          PROVE  g[k] = step[k][g[k - 1]]
      <4>1. CASE k = m + 1
        BY <4>1
      <4>2. CASE k # m + 1
        <5>1. k \in 1..m /\ k - 1 \in 0..m
          BY <4>2
        <5>2. g[k] = f[k] /\ g[k - 1] = f[k - 1]
          BY <5>1
        <5> QED
          BY <2>1, <5>1, <5>2
      <4> QED
        BY <4>1, <4>2
    <3> QED
      BY <3>1, <3>2
  <2> HIDE DEF g, Runs
  <2> QED
    BY <2>3, <2>4
<1>3. n \in S
  <2> HIDE DEF S
  <2>1. 0..n \subseteq S
    BY <1>1, <1>2, Stepwise
  <2> QED
    BY <2>1
<1>4. PICK f \in [0..n -> T] : Runs(f, n)
  BY <1>3
<1> QED
  BY <1>4 DEF Iterates

\* The numbers of a finite set, each once.
LEMMA AscendingFacts ==
  ASSUME NEW S \in SUBSET Nat, IsFiniteSet(S)
  PROVE  /\ Ascending(S) \in Seq(S) /\ Len(Ascending(S)) = Cardinality(S)
         /\ Cardinality(S) \in Nat /\ Ascending(S) \in [1..Cardinality(S) -> S]
         /\ Range(Ascending(S)) = S
         /\ IsInjective(Ascending(S))
<1> DEFINE Below(k) == {j \in S : j < k}
           n == Cardinality(S)
           rank == [k \in S |-> Cardinality(Below(k)) + 1]
<1>0. n \in Nat
  BY FS_CardinalityType
<1>1. ASSUME NEW k \in S
      PROVE  IsFiniteSet(Below(k)) /\ Cardinality(Below(k)) \in Nat /\ Cardinality(Below(k)) < n
  <2>1. Below(k) \in SUBSET S
    OBVIOUS
  <2>2. IsFiniteSet(Below(k)) /\ Cardinality(Below(k)) <= n /\ (n = Cardinality(Below(k)) => S = Below(k))
    BY <2>1, FS_Subset
  <2>3. S # Below(k)
    OBVIOUS
  <2>4. Cardinality(Below(k)) \in Nat
    BY <2>2, FS_CardinalityType
  <2> HIDE DEF Below, n
  <2> QED
    BY <2>2, <2>3, <2>4, <1>0
<1>2. ASSUME NEW k \in S, NEW m \in S, k < m
      PROVE  Cardinality(Below(k)) # Cardinality(Below(m))
  <2>0. k \in Nat /\ m \in Nat /\ \A j \in S : j \in Nat
    OBVIOUS
  <2>1. Below(k) \in SUBSET Below(m) /\ k \in Below(m) /\ k \notin Below(k)
    <3>1. ASSUME NEW j \in Below(k)
          PROVE  j \in Below(m)
      <4>1. j \in S /\ j \in Nat /\ j < k
        BY <2>0
      <4>2. j < m
        BY <1>2, <2>0, <4>1
      <4> QED
        BY <4>1, <4>2
    <3>2. k \in Below(m) /\ k \notin Below(k)
      BY <1>2, <2>0
    <3> HIDE DEF Below
    <3> QED
      BY <3>1, <3>2
  <2>2. Cardinality(Below(k)) = Cardinality(Below(m)) => Below(m) = Below(k)
    BY <1>1, <2>1, FS_Subset
  <2> QED
    BY <2>1, <2>2
<1>3. rank \in Injection(S, 1..n)
  <2>1. rank \in [S -> 1..n]
    <3> SUFFICES ASSUME NEW k \in S
                 PROVE  Cardinality(Below(k)) + 1 \in 1..n
      OBVIOUS
    <3> HIDE DEF Below, n
    <3> QED
      BY <1>0, <1>1
  <2>2. ASSUME NEW k \in S, NEW m \in S, rank[k] = rank[m]
        PROVE  k = m
    <3>1. Cardinality(Below(k)) \in Nat /\ Cardinality(Below(m)) \in Nat
      BY <1>1
    <3>2. Cardinality(Below(k)) = Cardinality(Below(m))
      BY <2>2, <3>1
    <3>3. k \in Nat /\ m \in Nat
      OBVIOUS
    <3> HIDE DEF Below
    <3> QED
      BY <1>2, <3>2, <3>3
  <2> QED
    BY <2>1, <2>2 DEF Injection, IsInjective
<1>4. rank \in Surjection(S, 1..n)
  <2>1. IsFiniteSet(1..n) /\ Cardinality(1..n) = n
    <3> HIDE DEF n
    <3> QED
      BY <1>0, FS_Interval
  <2> HIDE DEF rank
  <2> QED
    BY <1>3, <2>1, FS_Injection
<1> DEFINE s == Ascending(S)
<1>5. ASSUME NEW i \in 1..n
      PROVE  s[i] \in S /\ rank[s[i]] = i
  <2>1. PICK k \in S : rank[k] = i
    BY <1>4 DEF Surjection
  <2>2. Cardinality(Below(k)) = i - 1
    BY <1>1, <2>1
  <2>3. s[i] = CHOOSE m \in S : Cardinality(Below(m)) = i - 1
    BY DEF Ascending
  <2>4. s[i] \in S /\ Cardinality(Below(s[i])) = i - 1
    <3> HIDE DEF Below, s
    <3> QED
      BY <2>2, <2>3
  <2> HIDE DEF s
  <2> QED
    BY <2>4, <1>0
<1>6. DOMAIN s = 1..n
  BY DEF Ascending
<1>7. s \in [1..n -> S]
  <2> DEFINE At(i) == CHOOSE k \in S : Cardinality({j \in S : j < k}) = i - 1
  <2>1. s = [i \in 1..n |-> At(i)]
    BY DEF Ascending
  <2> HIDE DEF s, At, n
  <2>2. \A i \in 1..n : At(i) \in S
    BY <1>5, <2>1
  <2> QED
    BY <2>1, <2>2
<1>8. s \in Seq(S) /\ Len(s) = n
  <2> HIDE DEF s, n
  <2> QED
    BY <1>0, <1>7
<1>9. S \subseteq Range(s)
  <2> SUFFICES ASSUME NEW k \in S
               PROVE  k \in Range(s)
    OBVIOUS
  <2>1. rank[k] \in 1..n
    BY <1>3 DEF Injection
  <2>2. s[rank[k]] \in S /\ rank[s[rank[k]]] = rank[k]
    BY <1>5, <2>1
  <2>3. s[rank[k]] = k
    <3> HIDE DEF s, rank
    <3> QED
      BY <1>3, <2>2 DEF Injection, IsInjective
  <2> HIDE DEF s, rank
  <2> QED
    BY <1>6, <2>1, <2>3 DEF Range
<1>10. IsInjective(s)
  <2> HIDE DEF s, rank, n
  <2> QED
    BY <1>5, <1>6 DEF IsInjective
<1> HIDE DEF s, rank, n
<1>11. Range(s) = S
  BY <1>6, <1>7, <1>9 DEF Range
<1> QED
  BY <1>0, <1>7, <1>8, <1>10, <1>11 DEF s, n

\* The elements of a sequence over a set are of the set.
LEMMA ElementsOf ==
  ASSUME NEW T, NEW s \in Seq(T)
  PROVE  Range(s) \in SUBSET T /\ \A i \in DOMAIN s : s[i] \in Range(s)
<1>1. DOMAIN s = 1..Len(s) /\ \A i \in 1..Len(s) : s[i] \in T
  OBVIOUS
<1> QED
  BY <1>1 DEF Range

\* Joining two sequences joins their ranges and adds their lengths.
LEMMA Joined ==
  ASSUME NEW T, NEW s \in Seq(T), NEW t \in Seq(T)
  PROVE  /\ s \o t \in Seq(T) /\ Len(s \o t) = Len(s) + Len(t)
         /\ Len(s) \in Nat /\ Len(t) \in Nat
         /\ Range(s \o t) = Range(s) \cup Range(t)
<1>1. /\ s \o t \in Seq(T) /\ Len(s \o t) = Len(s) + Len(t)
      /\ DOMAIN s = 1..Len(s) /\ DOMAIN t = 1..Len(t)
      /\ DOMAIN (s \o t) = 1..(Len(s) + Len(t))
      /\ Len(s) \in Nat /\ Len(t) \in Nat
  OBVIOUS
<1>2. \A i \in 1..(Len(s) + Len(t)) :
        (s \o t)[i] = IF i <= Len(s) THEN s[i] ELSE t[i - Len(s)]
  OBVIOUS
<1>3. Range(s \o t) \subseteq Range(s) \cup Range(t)
  <2> SUFFICES ASSUME NEW i \in 1..(Len(s) + Len(t))
               PROVE  (s \o t)[i] \in Range(s) \cup Range(t)
    BY <1>1 DEF Range
  <2>1. CASE i <= Len(s)
    BY <1>1, <1>2, <2>1 DEF Range
  <2>2. CASE ~(i <= Len(s))
    <3>1. i - Len(s) \in 1..Len(t)
      BY <1>1, <2>2
    <3> QED
      BY <1>1, <1>2, <2>2, <3>1 DEF Range
  <2> QED
    BY <2>1, <2>2
<1>4. Range(s) \subseteq Range(s \o t)
  <2> SUFFICES ASSUME NEW i \in 1..Len(s)
               PROVE  s[i] \in Range(s \o t)
    BY <1>1 DEF Range
  <2>1. i \in 1..(Len(s) + Len(t)) /\ (s \o t)[i] = s[i]
    BY <1>1, <1>2
  <2> QED
    BY <1>1, <2>1 DEF Range
<1>5. Range(t) \subseteq Range(s \o t)
  <2> SUFFICES ASSUME NEW i \in 1..Len(t)
               PROVE  t[i] \in Range(s \o t)
    BY <1>1 DEF Range
  <2>1. i + Len(s) \in 1..(Len(s) + Len(t)) /\ (s \o t)[i + Len(s)] = t[i]
    BY <1>1, <1>2
  <2> QED
    BY <1>1, <2>1 DEF Range
<1> QED
  BY <1>1, <1>3, <1>4, <1>5

\* A sequence with a first element, and what comes after it.
LEMMA FirstAndRest ==
  ASSUME NEW T, NEW s \in Seq(T), s # <<>>
  PROVE  /\ Head(s) \in T /\ Tail(s) \in Seq(T) /\ Len(Tail(s)) = Len(s) - 1
         /\ Len(s) \in Nat
         /\ Range(s) = {Head(s)} \cup Range(Tail(s))
<1>1. /\ Len(s) \in Nat /\ Len(s) >= 1 /\ DOMAIN s = 1..Len(s)
      /\ Tail(s) \in Seq(T) /\ Len(Tail(s)) = Len(s) - 1
      /\ DOMAIN Tail(s) = 1..(Len(s) - 1)
      /\ Head(s) = s[1]
  OBVIOUS
<1>2. \A i \in 1..(Len(s) - 1) : Tail(s)[i] = s[i + 1]
  OBVIOUS
<1>3. Range(s) \subseteq {Head(s)} \cup Range(Tail(s))
  <2> SUFFICES ASSUME NEW i \in 1..Len(s), i # 1
               PROVE  s[i] \in Range(Tail(s))
    BY <1>1 DEF Range
  <2>1. i - 1 \in 1..(Len(s) - 1) /\ Tail(s)[i - 1] = s[i]
    BY <1>1, <1>2
  <2> QED
    BY <1>1, <2>1 DEF Range
<1>4. {Head(s)} \cup Range(Tail(s)) \subseteq Range(s)
  <2>1. Head(s) \in Range(s)
    BY <1>1 DEF Range
  <2>2. ASSUME NEW i \in 1..(Len(s) - 1)
        PROVE  Tail(s)[i] \in Range(s)
    <3>1. i + 1 \in 1..Len(s)
      BY <1>1
    <3> QED
      BY <1>1, <1>2, <3>1 DEF Range
  <2> QED
    BY <1>1, <2>1, <2>2 DEF Range
<1> QED
  BY <1>1, <1>3, <1>4

\* A sequence without repetition is as long as it has elements.
LEMMA OnceEach ==
  ASSUME NEW s \in Seq(Nat), IsInjective(s)
  PROVE  Len(s) = Cardinality(Range(s))
<1>1. DOMAIN s = 1..Len(s) /\ Len(s) \in Nat
  OBVIOUS
<1>2. s \in Surjection(1..Len(s), Range(s)) /\ s \in Injection(1..Len(s), Range(s))
  <2>1. s \in [1..Len(s) -> Range(s)]
    BY <1>1 DEF Range
  <2> QED
    BY <1>1, <2>1 DEF Surjection, Injection, Range, IsInjective
<1>3. IsFiniteSet(1..Len(s)) /\ Cardinality(1..Len(s)) = Len(s)
  <2> DEFINE n == Len(s)
  <2>1. n \in Nat
    BY <1>1
  <2> HIDE DEF n
  <2>2. IsFiniteSet(1..n) /\ Cardinality(1..n) = n
    BY <2>1, FS_Interval
  <2> QED
    BY <2>2 DEF n
<1>4. Cardinality(Range(s)) = Cardinality(1..Len(s))
  BY <1>2, <1>3, FS_Surjection
<1> QED
  BY <1>3, <1>4

----------------------------------------------------------------------------
(* The search of a component                                               *)

Outgoing(v, edges) == {e[2] : e \in {d \in edges : d[1] = v}}
Incoming(v, edges) == {e[1] : e \in {d \in edges : d[2] = v}}

\* A graph as groupDependsOn makes it.
IsGraph(edges) ==
  /\ IsFiniteSet(edges)
  /\ \A e \in edges : e = <<e[1], e[2]>> /\ e[1] \in Nat /\ e[2] \in Nat

\* The nodes around a node, each edge of it counted at most once.
LEMMA NeighboursFacts ==
  ASSUME NEW edges, IsGraph(edges), NEW v \in Nat
  PROVE  /\ Neighbours(v, edges) \in Seq(Nat)
         /\ Range(Neighbours(v, edges)) = Outgoing(v, edges) \cup Incoming(v, edges)
         /\ Len(Neighbours(v, edges)) <=
              Cardinality({e \in edges : e[1] = v}) + Cardinality({e \in edges : e[2] = v})
<1> DEFINE O == {e \in edges : e[1] = v}
           I == {e \in edges : e[2] = v}
<1>1. IsFiniteSet(O) /\ IsFiniteSet(I)
  BY FS_Subset DEF IsGraph
<1>2. /\ IsFiniteSet(Outgoing(v, edges)) /\ Cardinality(Outgoing(v, edges)) <= Cardinality(O)
  <2>1. [e \in O |-> e[2]] \in Surjection(O, Outgoing(v, edges))
    BY DEF Surjection, Outgoing
  <2> QED
    BY <1>1, <2>1, FS_Surjection
<1>3. /\ IsFiniteSet(Incoming(v, edges)) /\ Cardinality(Incoming(v, edges)) <= Cardinality(I)
  <2>1. [e \in I |-> e[1]] \in Surjection(I, Incoming(v, edges))
    BY DEF Surjection, Incoming
  <2> QED
    BY <1>1, <2>1, FS_Surjection
<1>4. Outgoing(v, edges) \in SUBSET Nat /\ Incoming(v, edges) \in SUBSET Nat
  BY DEF Outgoing, Incoming, IsGraph
<1> DEFINE s == Ascending(Outgoing(v, edges))
           t == Ascending(Incoming(v, edges))
<1>5. /\ s \in Seq(Nat) /\ Len(s) = Cardinality(Outgoing(v, edges))
      /\ Range(s) = Outgoing(v, edges)
  <2>1. s \in Seq(Outgoing(v, edges))
    BY <1>2, <1>4, AscendingFacts
  <2>2. Seq(Outgoing(v, edges)) \subseteq Seq(Nat)
    BY <1>4
  <2> QED
    BY <1>2, <1>4, <2>1, <2>2, AscendingFacts
<1>6. /\ t \in Seq(Nat) /\ Len(t) = Cardinality(Incoming(v, edges))
      /\ Range(t) = Incoming(v, edges)
  <2>1. t \in Seq(Incoming(v, edges))
    BY <1>3, <1>4, AscendingFacts
  <2>2. Seq(Incoming(v, edges)) \subseteq Seq(Nat)
    BY <1>4
  <2> QED
    BY <1>3, <1>4, <2>1, <2>2, AscendingFacts
<1>7. Neighbours(v, edges) = s \o t
  BY DEF Neighbours, Outgoing, Incoming
<1>8. /\ Cardinality(O) \in Nat /\ Cardinality(I) \in Nat
      /\ Cardinality(Outgoing(v, edges)) \in Nat /\ Cardinality(Incoming(v, edges)) \in Nat
  BY <1>1, <1>2, <1>3, FS_CardinalityType
<1> HIDE DEF s, t
<1>9. /\ s \o t \in Seq(Nat) /\ Len(s \o t) = Len(s) + Len(t)
      /\ Range(s \o t) = Range(s) \cup Range(t)
  BY <1>5, <1>6, Joined
<1> HIDE DEF O, I
<1>10. Len(s \o t) <= Cardinality(O) + Cardinality(I)
  BY <1>2, <1>3, <1>5, <1>6, <1>8, <1>9
<1> QED
  BY <1>5, <1>6, <1>7, <1>9, <1>10 DEF O, I

Searches == [todo : Seq(Nat), seen : Seq(Nat)]
Start(root) == [todo |-> <<root>>, seen |-> <<>>]

\* The search is what its recursive definition says.
LEMMA SearchSteps ==
  ASSUME NEW edges, IsGraph(edges), NEW root \in Nat
  PROVE  /\ Turns(edges) \in Nat
         /\ Turn(edges) \in [Searches -> Searches]
         /\ Search(root, edges) \in [0..Turns(edges) -> Searches]
         /\ Search(root, edges)[0] = Start(root)
         /\ \A k \in 1..Turns(edges) :
              Search(root, edges)[k] = Turn(edges)[Search(root, edges)[k - 1]]
<1>1. Turns(edges) \in Nat
  BY FS_CardinalityType DEF Turns, IsGraph
<1>2. Turn(edges) \in [Searches -> Searches]
  <2> DEFINE New(search) ==
        LET v == Head(search.todo)
        IN  IF search.todo = <<>> THEN search
            ELSE IF Contains(search.seen, v) THEN [search EXCEPT !.todo = Tail(@)]
            ELSE [todo |-> Neighbours(v, edges) \o Tail(search.todo),
                  seen |-> Append(search.seen, v)]
  <2>1. Turn(edges) = [search \in Searches |-> New(search)]
    BY DEF Turn, Searches
  <2>2. ASSUME NEW search \in Searches
        PROVE  New(search) \in Searches
    <3>1. CASE search.todo = <<>>
      BY <3>1
    <3>2. CASE search.todo # <<>>
      <4>1. Head(search.todo) \in Nat /\ Tail(search.todo) \in Seq(Nat)
        BY <3>2, FirstAndRest DEF Searches
      <4>2. Neighbours(Head(search.todo), edges) \in Seq(Nat)
        BY <4>1, NeighboursFacts
      <4>3. Neighbours(Head(search.todo), edges) \o Tail(search.todo) \in Seq(Nat)
        BY <4>1, <4>2
      <4>4. Append(search.seen, Head(search.todo)) \in Seq(Nat)
        BY <4>1 DEF Searches
      <4>5. [search EXCEPT !.todo = Tail(@)] \in Searches
        BY <4>1 DEF Searches
      <4> QED
        BY <3>2, <4>3, <4>4, <4>5 DEF Searches
    <3> QED
      BY <3>1, <3>2
  <2> HIDE DEF New
  <2> QED
    BY <2>1, <2>2
<1> DEFINE T == Turns(edges)
           Correct(f) == f = [n \in 0..T |->
             IF n = 0 THEN [todo |-> <<root>>, seen |-> <<>>] ELSE Turn(edges)[f[n - 1]]]
<1>3. Search(root, edges) = CHOOSE f : Correct(f)
  BY DEF Search
<1>4. \E f : Correct(f)
  <2> HIDE DEF T
  <2>1. Start(root) \in Searches
    BY DEF Start, Searches
  <2> DEFINE turns == [k \in 1..T |-> Turn(edges)]
  <2>2. turns \in [1..T -> [Searches -> Searches]]
    BY <1>2
  <2>3. T \in Nat
    BY <1>1 DEF T
  <2>4. PICK f \in [0..T -> Searches] : Iterates(f, Start(root), T, turns)
    <3> HIDE DEF turns
    <3> QED
      BY <2>1, <2>2, <2>3, Iterated
  <2>5. \A k \in 1..T : f[k] = Turn(edges)[f[k - 1]]
    BY <2>4 DEF Iterates
  <2>6. Correct(f)
    BY <2>3, <2>4, <2>5 DEF Start, Iterates
  <2> QED
    BY <2>6
<1> DEFINE after == Search(root, edges)
<1>5. Correct(after)
  <2> HIDE DEF Correct
  <2> QED
    BY <1>3, <1>4
<1>6. /\ after[0] = Start(root)
      /\ \A k \in 1..T : after[k] = Turn(edges)[after[k - 1]]
  <2> HIDE DEF after, T
  <2>1. T \in Nat
    BY <1>1 DEF T
  <2> QED
    BY <1>5, <2>1 DEF Start
<1>7. after \in [0..T -> Searches]
  <2> HIDE DEF after, T
  <2>1. T \in Nat
    BY <1>1 DEF T
  <2> DEFINE S == {k \in 0..T : after[k] \in Searches}
  <2>2. 0 \in S
    <3>1. Start(root) \in Searches
      BY DEF Start, Searches
    <3> QED
      BY <1>6, <2>1, <3>1
  <2>3. \A k \in 0..(T - 1) : k \in S => k + 1 \in S
    BY <1>2, <1>6, <2>1
  <2>4. 0..T \subseteq S
    <3> HIDE DEF S
    <3> QED
      BY <2>1, <2>2, <2>3, Stepwise
  <2>5. DOMAIN after = 0..T /\ after = [k \in 0..T |-> after[k]]
    BY <1>5
  <2> QED
    BY <2>4, <2>5
<1> QED
  BY <1>1, <1>2, <1>6, <1>7

Closed(C, edges) == \A e \in edges : e[1] \in C <=> e[2] \in C

\* The edges that still lead to their ends.
LeftOut(search, edges) == {e \in edges : e[1] \notin Range(search.seen)}
LeftIn(search, edges) == {e \in edges : e[2] \notin Range(search.seen)}

Met(search) == Range(search.seen) \cup Range(search.todo)

\* What holds after k turns of a search from a root: no node is listed twice,
\* the root and the nodes around one that is listed are listed or to be looked
\* at, those are all connected with the root, and what is to be looked at is
\* no more than the turns left.
Searching(root, edges, k, search) ==
  /\ search \in Searches
  /\ IsInjective(search.seen)
  /\ root \in Met(search)
  /\ \A e \in edges : e[1] \in Range(search.seen) \/ e[2] \in Range(search.seen)
                        => e[1] \in Met(search) /\ e[2] \in Met(search)
  /\ \A C \in SUBSET Nat : Closed(C, edges) /\ root \in C => Met(search) \subseteq C
  /\ \/ search.todo = <<>>
     \/ Len(search.todo) + Cardinality(LeftOut(search, edges))
          + Cardinality(LeftIn(search, edges)) <= Turns(edges) - k

\* Listing a node that is not listed.
LEMMA Listed ==
  ASSUME NEW s \in Seq(Nat), NEW v \in Nat, v \notin Range(s), IsInjective(s)
  PROVE  /\ Append(s, v) \in Seq(Nat) /\ IsInjective(Append(s, v))
         /\ Range(Append(s, v)) = Range(s) \cup {v}
<1>1. /\ Append(s, v) \in Seq(Nat) /\ Len(s) \in Nat
      /\ DOMAIN s = 1..Len(s) /\ DOMAIN Append(s, v) = 1..(Len(s) + 1)
      /\ Append(s, v)[Len(s) + 1] = v
      /\ \A i \in 1..Len(s) : Append(s, v)[i] = s[i]
  OBVIOUS
<1>2. \A i \in 1..Len(s) : s[i] # v
  BY <1>1 DEF Range
<1>3. \A i \in 1..(Len(s) + 1) : i \in 1..Len(s) \/ i = Len(s) + 1
  BY <1>1
<1>4. IsInjective(Append(s, v))
  BY <1>1, <1>2, <1>3 DEF IsInjective
<1>5. Range(Append(s, v)) \subseteq Range(s) \cup {v}
  BY <1>1, <1>3 DEF Range
<1>6. Range(s) \cup {v} \subseteq Range(Append(s, v))
  <2>1. Len(s) + 1 \in 1..(Len(s) + 1) /\ \A i \in 1..Len(s) : i \in 1..(Len(s) + 1)
    BY <1>1
  <2> QED
    BY <1>1, <2>1 DEF Range
<1> QED
  BY <1>1, <1>4, <1>5, <1>6

\* The three cases of a turn.
LEMMA TurnIs ==
  ASSUME NEW edges, NEW search \in Searches
  PROVE  /\ search.todo = <<>> => Turn(edges)[search] = search
         /\ search.todo # <<>> /\ Head(search.todo) \in Range(search.seen) =>
              Turn(edges)[search] = [todo |-> Tail(search.todo), seen |-> search.seen]
         /\ search.todo # <<>> /\ Head(search.todo) \notin Range(search.seen) =>
              Turn(edges)[search] =
                [todo |-> Neighbours(Head(search.todo), edges) \o Tail(search.todo),
                 seen |-> Append(search.seen, Head(search.todo))]
<1>1. Contains(search.seen, Head(search.todo)) <=> Head(search.todo) \in Range(search.seen)
  <2>1. DOMAIN search.seen = 1..Len(search.seen)
    BY DEF Searches
  <2> QED
    BY <2>1 DEF Contains, Range
<1>2. [search EXCEPT !.todo = Tail(@)] = [todo |-> Tail(search.todo), seen |-> search.seen]
  <2>1. \A rest : [search EXCEPT !.todo = rest] = [todo |-> rest, seen |-> search.seen]
    BY DEF Searches
  <2> QED
    BY <2>1
<1> QED
  BY <1>1, <1>2 DEF Turn, Searches

LEMMA SearchStarts ==
  ASSUME NEW edges, IsGraph(edges), NEW root \in Nat
  PROVE  Searching(root, edges, 0, Start(root))
<1>1. /\ Start(root) \in Searches /\ Range(Start(root).seen) = {}
      /\ Range(Start(root).todo) = {root}
      /\ IsInjective(Start(root).seen) /\ Len(Start(root).todo) = 1
  BY DEF Start, Searches, Range, IsInjective
<1>2. LeftOut(Start(root), edges) = edges /\ LeftIn(Start(root), edges) = edges
  BY <1>1 DEF LeftOut, LeftIn
<1>3. Cardinality(edges) \in Nat
  BY FS_CardinalityType DEF IsGraph
<1>4. 1 + Cardinality(edges) + Cardinality(edges) <= Turns(edges) - 0
  BY <1>3 DEF Turns
<1> QED
  BY <1>1, <1>2, <1>4 DEF Searching, Met

LEMMA SearchTurns ==
  ASSUME NEW edges, IsGraph(edges), NEW root \in Nat, NEW k \in Nat,
         NEW search \in Searches, Searching(root, edges, k, search)
  PROVE  Searching(root, edges, k + 1, Turn(edges)[search])
<1> DEFINE next == Turn(edges)[search]
           v == Head(search.todo)
           rest == Tail(search.todo)
<1>0. /\ Turns(edges) \in Nat /\ next \in Searches
      /\ search.todo \in Seq(Nat) /\ search.seen \in Seq(Nat)
  BY SearchSteps DEF Searches
<1>c. \A s : /\ IsFiniteSet(LeftOut(s, edges)) /\ IsFiniteSet(LeftIn(s, edges))
             /\ Cardinality(LeftOut(s, edges)) \in Nat /\ Cardinality(LeftIn(s, edges)) \in Nat
  BY FS_Subset, FS_CardinalityType DEF LeftOut, LeftIn, IsGraph
<1>1. CASE search.todo = <<>>
  BY <1>1, TurnIs DEF Searching
<1> SUFFICES ASSUME search.todo # <<>>
             PROVE  Searching(root, edges, k + 1, next)
  BY <1>1
<1>2. /\ v \in Nat /\ rest \in Seq(Nat) /\ Len(rest) = Len(search.todo) - 1
      /\ Len(search.todo) \in Nat /\ Range(search.todo) = {v} \cup Range(rest)
  BY <1>0, FirstAndRest
<1>3. Len(search.todo) + Cardinality(LeftOut(search, edges))
        + Cardinality(LeftIn(search, edges)) <= Turns(edges) - k
  BY DEF Searching
<1>4. CASE v \in Range(search.seen)
  <2>1. next = [todo |-> rest, seen |-> search.seen]
    BY <1>4, TurnIs
  <2>2. Met(next) = Met(search)
    BY <1>2, <1>4, <2>1 DEF Met
  <2>3. next.seen = search.seen /\ next.todo = rest
    BY <2>1
  <2>4. LeftOut(next, edges) = LeftOut(search, edges) /\ LeftIn(next, edges) = LeftIn(search, edges)
    BY <2>3 DEF LeftOut, LeftIn
  <2>5. Len(next.todo) + Cardinality(LeftOut(next, edges))
          + Cardinality(LeftIn(next, edges)) <= Turns(edges) - (k + 1)
    <3> DEFINE a == Cardinality(LeftOut(search, edges))
               b == Cardinality(LeftIn(search, edges))
    <3>1. a \in Nat /\ b \in Nat
      BY <1>c
    <3> HIDE DEF a, b, rest
    <3>2. Len(rest) + a + b <= Turns(edges) - (k + 1)
      BY <1>0, <1>2, <1>3, <3>1 DEF a, b
    <3> QED
      BY <2>3, <2>4, <3>2 DEF a, b
  <2> HIDE DEF next, v, rest
  <2> QED
    BY <1>0, <2>2, <2>3, <2>5 DEF Searching
<1>5. CASE v \notin Range(search.seen)
  <2> DEFINE around == Neighbours(v, edges)
  <2>1. next = [todo |-> around \o rest, seen |-> Append(search.seen, v)]
    BY <1>5, TurnIs
  <2>2. /\ around \in Seq(Nat)
        /\ Range(around) = Outgoing(v, edges) \cup Incoming(v, edges)
        /\ Len(around) <=
              Cardinality({e \in edges : e[1] = v}) + Cardinality({e \in edges : e[2] = v})
    BY <1>2, NeighboursFacts
  <2>3. /\ Range(next.seen) = Range(search.seen) \cup {v} /\ IsInjective(next.seen)
    BY <1>0, <1>2, <1>5, <2>1, Listed DEF Searching
  <2>4. /\ Range(next.todo) = Outgoing(v, edges) \cup Incoming(v, edges) \cup Range(rest)
        /\ Len(next.todo) = Len(around) + Len(rest)
        /\ Len(around) \in Nat
    <3> HIDE DEF next, v, rest, around
    <3>1. next.todo = around \o rest
      BY <2>1
    <3>2. /\ Len(around \o rest) = Len(around) + Len(rest) /\ Len(around) \in Nat
          /\ Range(around \o rest) = Range(around) \cup Range(rest)
      <4>1. around \in Seq(Nat) /\ rest \in Seq(Nat)
        BY <1>2, <2>2
      <4> QED
        BY <4>1, Joined
    <3> QED
      BY <2>2, <3>1, <3>2
  <2> HIDE DEF next, v, rest, around
  <2>5. Met(next) = Met(search) \cup Outgoing(v, edges) \cup Incoming(v, edges)
    BY <1>2, <2>3, <2>4 DEF Met
  <2>6. ASSUME NEW e \in edges, e[1] \in Range(next.seen) \/ e[2] \in Range(next.seen)
        PROVE  e[1] \in Met(next) /\ e[2] \in Met(next)
    <3>1. CASE e[1] \in Range(search.seen) \/ e[2] \in Range(search.seen)
      BY <2>5, <3>1 DEF Searching
    <3>2. CASE e[1] = v \/ e[2] = v
      <4>1. v \in Met(next)
        BY <2>3 DEF Met
      <4>2. e[1] = v => e[2] \in Outgoing(v, edges)
        BY DEF Outgoing
      <4>3. e[2] = v => e[1] \in Incoming(v, edges)
        BY DEF Incoming
      <4> QED
        BY <2>5, <3>2, <4>1, <4>2, <4>3
    <3> QED
      BY <2>3, <2>6, <3>1, <3>2
  <2>7. ASSUME NEW C \in SUBSET Nat, Closed(C, edges), root \in C
        PROVE  Met(next) \subseteq C
    <3>1. Met(search) \subseteq C
      BY <2>7 DEF Searching
    <3>2. v \in C
      BY <1>2, <3>1 DEF Met
    <3>3. Outgoing(v, edges) \subseteq C /\ Incoming(v, edges) \subseteq C
      BY <2>7, <3>2 DEF Outgoing, Incoming, Closed
    <3> QED
      BY <2>5, <3>1, <3>3
  <2>8. Len(next.todo) + Cardinality(LeftOut(next, edges))
          + Cardinality(LeftIn(next, edges)) <= Turns(edges) - (k + 1)
    <3> DEFINE O == {e \in edges : e[1] = v}
               I == {e \in edges : e[2] = v}
               a == Cardinality(LeftOut(search, edges))
               b == Cardinality(LeftIn(search, edges))
    <3>1. Cardinality(LeftOut(next, edges)) = a - Cardinality(O) /\ Cardinality(O) \in Nat
      <4>1. LeftOut(next, edges) = LeftOut(search, edges) \ O
        BY <2>3 DEF LeftOut
      <4>2. LeftOut(search, edges) \cap O = O
        BY <1>5 DEF LeftOut
      <4>3. IsFiniteSet(O)
        BY FS_Subset DEF IsGraph
      <4> HIDE DEF O
      <4> QED
        BY <1>c, <4>1, <4>2, <4>3, FS_Difference, FS_CardinalityType
    <3>2. Cardinality(LeftIn(next, edges)) = b - Cardinality(I) /\ Cardinality(I) \in Nat
      <4>1. LeftIn(next, edges) = LeftIn(search, edges) \ I
        BY <2>3 DEF LeftIn
      <4>2. LeftIn(search, edges) \cap I = I
        BY <1>5 DEF LeftIn
      <4>3. IsFiniteSet(I)
        BY FS_Subset DEF IsGraph
      <4> HIDE DEF I
      <4> QED
        BY <1>c, <4>1, <4>2, <4>3, FS_Difference, FS_CardinalityType
    <3>3. a \in Nat /\ b \in Nat /\ Len(search.todo) + a + b <= Turns(edges) - k
      BY <1>c, <1>3
    <3>4. Len(around) <= Cardinality(O) + Cardinality(I)
      BY <2>2
    <3> HIDE DEF a, b, O, I
    <3>5. Len(next.todo) <= Len(search.todo) - 1 + Cardinality(O) + Cardinality(I)
      BY <1>2, <2>4, <3>1, <3>2, <3>4
    <3>6. Len(next.todo) \in Nat
      BY <1>2, <2>4
    <3>7. ASSUME NEW x \in Nat, NEW y \in Nat, NEW o \in Nat, NEW i \in Nat, NEW t \in Nat,
                 NEW p \in Nat, NEW q \in Nat,
                 x <= y - 1 + o + i, y + p + q <= t - k
          PROVE  x + (p - o) + (q - i) <= t - (k + 1)
      BY <3>7
    <3> QED
      BY <1>0, <1>2, <3>1, <3>2, <3>3, <3>5, <3>6, <3>7
  <2>9. root \in Met(next)
    BY <2>5 DEF Searching
  <2> QED
    BY <1>0, <2>3, <2>6, <2>7, <2>8, <2>9 DEF Searching, next
<1> QED
  BY <1>4, <1>5

\* A component lists its nodes once: its root and all that is connected with
\* it, directly or not, and nothing else.
LEMMA ComponentFacts ==
  ASSUME NEW edges, IsGraph(edges), NEW root \in Nat
  PROVE  /\ Component(root, edges) \in Seq(Nat)
         /\ IsInjective(Component(root, edges))
         /\ root \in Range(Component(root, edges))
         /\ Closed(Range(Component(root, edges)), edges)
         /\ \A C \in SUBSET Nat :
              Closed(C, edges) /\ root \in C => Range(Component(root, edges)) \subseteq C
<1> DEFINE T == Turns(edges)
           at == Search(root, edges)
           S == {k \in 0..T : Searching(root, edges, k, at[k])}
<1>0. /\ T \in Nat /\ at \in [0..T -> Searches] /\ at[0] = Start(root)
      /\ \A k \in 1..T : at[k] = Turn(edges)[at[k - 1]]
  BY SearchSteps
<1> HIDE DEF T, at
<1>1. 0 \in S
  BY <1>0, SearchStarts
<1>2. ASSUME NEW k \in 0..(T - 1), k \in S
      PROVE  k + 1 \in S
  <2>1. k \in Nat /\ k \in 0..T /\ k + 1 \in 1..T /\ (k + 1) - 1 = k
    BY <1>0
  <2>2. at[k] \in Searches /\ at[k + 1] = Turn(edges)[at[k]]
    BY <1>0, <2>1
  <2>3. Searching(root, edges, k + 1, Turn(edges)[at[k]])
    BY <1>2, <2>1, <2>2, SearchTurns
  <2> QED
    BY <2>1, <2>2, <2>3
<1>3. Searching(root, edges, T, at[T])
  <2> HIDE DEF S
  <2>1. 0..T \subseteq S
    BY <1>0, <1>1, <1>2, Stepwise
  <2>2. T \in S
    BY <1>0, <2>1
  <2> QED
    BY <2>2 DEF S
<1> DEFINE last == at[T]
<1>4. last.todo = <<>>
  <2>1. last \in Searches /\ Len(last.todo) \in Nat /\ (Len(last.todo) = 0 => last.todo = <<>>)
    BY <1>0 DEF Searches
  <2>2. Cardinality(LeftOut(last, edges)) \in Nat /\ Cardinality(LeftIn(last, edges)) \in Nat
    BY FS_Subset, FS_CardinalityType DEF LeftOut, LeftIn, IsGraph
  <2>3. \/ last.todo = <<>>
        \/ Len(last.todo) + Cardinality(LeftOut(last, edges))
             + Cardinality(LeftIn(last, edges)) <= T - T
    BY <1>3 DEF Searching, T
  <2> HIDE DEF last
  <2> QED
    BY <1>0, <2>1, <2>2, <2>3
<1>5. Component(root, edges) = last.seen
  BY DEF Component, at, T
<1> HIDE DEF last
<1>6. Met(last) = Range(last.seen)
  BY <1>4 DEF Met, Range
<1> QED
  BY <1>3, <1>5, <1>6 DEF Searching, last, Closed, Searches

\* The component of a node of a component is the same one.
LEMMA SameComponent ==
  ASSUME NEW edges, IsGraph(edges), NEW v \in Nat, NEW w \in Range(Component(v, edges))
  PROVE  w \in Nat /\ Range(Component(w, edges)) = Range(Component(v, edges))
<1> DEFINE V == Range(Component(v, edges))
           W == Range(Component(w, edges))
<1>0. V \in SUBSET Nat /\ v \in V /\ Closed(V, edges)
  BY ComponentFacts, ElementsOf
<1>1. w \in Nat
  BY <1>0
<1>2. W \in SUBSET Nat /\ w \in W /\ Closed(W, edges) /\ W \subseteq V
  BY <1>0, <1>1, ComponentFacts, ElementsOf
<1>3. v \in W
  <2> SUFFICES ASSUME v \notin W
               PROVE  FALSE
    OBVIOUS
  <2>1. V \ W \in SUBSET Nat /\ v \in V \ W /\ Closed(V \ W, edges)
    BY <1>0, <1>2 DEF Closed
  <2>2. V \subseteq V \ W
    BY <2>1, ComponentFacts
  <2> QED
    BY <1>2, <2>2
<1>4. V \subseteq W
  BY <1>2, <1>3, ComponentFacts
<1> QED
  BY <1>1, <1>2, <1>4

----------------------------------------------------------------------------
(* The dependency groups, one after another                                *)

\* Joining sequences that share nothing lists everything once, and keeps what
\* each has in its order.
LEMMA JoinedOnce ==
  ASSUME NEW s \in Seq(Nat), NEW t \in Seq(Nat)
  PROVE  /\ IsInjective(s) /\ IsInjective(t) /\ Range(s) \cap Range(t) = {}
              => IsInjective(s \o t)
         /\ \A a, b : Before(s, a, b) \/ Before(t, a, b) => Before(s \o t, a, b)
<1>1. /\ DOMAIN s = 1..Len(s) /\ DOMAIN t = 1..Len(t)
      /\ DOMAIN (s \o t) = 1..(Len(s) + Len(t))
      /\ Len(s) \in Nat /\ Len(t) \in Nat
  OBVIOUS
<1>2. \A i \in 1..(Len(s) + Len(t)) :
        (s \o t)[i] = IF i <= Len(s) THEN s[i] ELSE t[i - Len(s)]
  OBVIOUS
<1> DEFINE u == s \o t
<1>3. \A i \in 1..Len(s) : i \in DOMAIN u /\ u[i] = s[i]
  BY <1>1, <1>2
<1>4. \A i \in 1..Len(t) : i + Len(s) \in DOMAIN u /\ u[i + Len(s)] = t[i]
  BY <1>1, <1>2
<1>5. \A i \in DOMAIN u : i \in 1..Len(s) \/ (i - Len(s) \in 1..Len(t) /\ u[i] = t[i - Len(s)])
  BY <1>1, <1>2
<1> HIDE DEF u
<1>6. ASSUME IsInjective(s), IsInjective(t), Range(s) \cap Range(t) = {},
             NEW i \in DOMAIN u, NEW j \in DOMAIN u, u[i] = u[j]
      PROVE  i = j
  <2>0. i \in Int /\ j \in Int
    BY <1>1 DEF u
  <2>1. CASE i \in 1..Len(s) /\ j \in 1..Len(s)
    BY <1>1, <1>3, <1>6, <2>1 DEF IsInjective
  <2>2. CASE i \notin 1..Len(s) /\ j \notin 1..Len(s)
    <3>1. i - Len(s) = j - Len(s)
      BY <1>1, <1>5, <1>6, <2>2 DEF IsInjective
    <3> QED
      BY <1>1, <2>0, <3>1
  <2>3. CASE i \in 1..Len(s) /\ j \notin 1..Len(s)
    <3>1. u[i] \in Range(s) /\ u[j] \in Range(t)
      BY <1>1, <1>3, <1>5, <2>3 DEF Range
    <3> QED
      BY <1>6, <3>1
  <2>4. CASE i \notin 1..Len(s) /\ j \in 1..Len(s)
    <3>1. u[j] \in Range(s) /\ u[i] \in Range(t)
      BY <1>1, <1>3, <1>5, <2>4 DEF Range
    <3> QED
      BY <1>6, <3>1
  <2> QED
    BY <2>1, <2>2, <2>3, <2>4
<1>7. ASSUME NEW a, NEW b, Before(s, a, b)
      PROVE  Before(u, a, b)
  BY <1>1, <1>3, <1>7 DEF Before
<1>8. ASSUME NEW a, NEW b, Before(t, a, b)
      PROVE  Before(u, a, b)
  <2>1. PICK i \in 1..Len(t), j \in 1..Len(t) : i < j /\ t[i] = a /\ t[j] = b
    BY <1>1, <1>8 DEF Before
  <2>2. /\ i + Len(s) \in DOMAIN u /\ j + Len(s) \in DOMAIN u
        /\ i + Len(s) < j + Len(s)
        /\ u[i + Len(s)] = a /\ u[j + Len(s)] = b
    BY <1>1, <1>4, <2>1
  <2> QED
    BY <2>2 DEF Before
<1> QED
  BY <1>6, <1>7, <1>8 DEF IsInjective, u

\* FlattenSeq joins its sequences one after another.
LEMMA FlattenSteps ==
  ASSUME NEW seqs \in Seq(Seq(Nat))
  PROVE  \E f \in [0..Len(seqs) -> Seq(Nat)] :
           /\ f[0] = <<>>
           /\ \A i \in 1..Len(seqs) : f[i] = f[i - 1] \o seqs[i]
           /\ FlattenSeq(seqs) = f[Len(seqs)]
<1> DEFINE n == Len(seqs)
           join == [i \in 1..n |-> [s \in Seq(Nat) |-> s \o seqs[i]]]
<1>0. n \in Nat /\ \A i \in 1..n : seqs[i] \in Seq(Nat)
  OBVIOUS
<1>1. join \in [1..n -> [Seq(Nat) -> Seq(Nat)]]
  <2> SUFFICES ASSUME NEW i \in 1..n, NEW s \in Seq(Nat)
               PROVE  s \o seqs[i] \in Seq(Nat)
    OBVIOUS
  <2> QED
    BY <1>0
<1>2. <<>> \in Seq(Nat)
  OBVIOUS
<1>3. PICK f \in [0..n -> Seq(Nat)] :
        f[0] = <<>> /\ \A i \in 1..n : f[i] = join[i][f[i - 1]]
  <2> HIDE DEF n, join
  <2> HIDE DEF n, join
  <2>1. \E f \in [0..n -> Seq(Nat)] : Iterates(f, <<>>, n, join)
    BY <1>0, <1>1, <1>2, Iterated
  <2> QED
    BY <2>1 DEF Iterates
<1>4. \A i \in 1..n : f[i] = f[i - 1] \o seqs[i]
  <2> SUFFICES ASSUME NEW i \in 1..n
               PROVE  f[i] = f[i - 1] \o seqs[i]
    OBVIOUS
  <2>1. i - 1 \in 0..n
    BY <1>0
  <2>2. f[i - 1] \in Seq(Nat)
    BY <2>1
  <2> QED
    BY <1>3, <2>2
<1>e. n # 0 => seqs[1] \in Seq(Nat) /\ f[1] = seqs[1]
  <2> SUFFICES ASSUME n # 0
               PROVE  seqs[1] \in Seq(Nat) /\ f[1] = seqs[1]
    OBVIOUS
  <2>1. 1 \in 1..n /\ 1 - 1 = 0
    BY <1>0
  <2>2. f[1] = <<>> \o seqs[1] /\ seqs[1] \in Seq(Nat)
    BY <1>0, <1>3, <1>4, <2>1
  <2>3. \A s \in Seq(Nat) : <<>> \o s = s
    OBVIOUS
  <2> QED
    BY <2>2, <2>3
<1>5. CASE n = 0
  <2>1. FlattenSeq(seqs) = <<>>
    BY <1>5 DEF FlattenSeq
  <2> QED
    BY <1>3, <1>4, <1>5, <2>1
<1>6. CASE n # 0
  <2> DEFINE Correct(g) ==
        g = [i \in 1..Len(seqs) |-> IF i = 1 THEN seqs[i] ELSE g[i - 1] \o seqs[i]]
      flatten == CHOOSE g : Correct(g)
  <2>1. FlattenSeq(seqs) = flatten[Len(seqs)]
    BY <1>6 DEF FlattenSeq
  <2>2. \E g : Correct(g)
    <3> DEFINE g == [i \in 1..n |-> f[i]]
    <3>1. ASSUME NEW i \in 1..n
          PROVE  g[i] = IF i = 1 THEN seqs[i] ELSE g[i - 1] \o seqs[i]
      <4>1. CASE i = 1
        BY <1>e, <1>6, <4>1
      <4>2. CASE i # 1
        <5>1. i - 1 \in 1..n
          BY <1>0, <4>2
        <5> QED
          BY <1>4, <4>2, <5>1
      <4> QED
        BY <4>1, <4>2
    <3>2. Correct(g)
      BY <3>1
    <3> QED
      BY <3>2
  <2>3. Correct(flatten)
    <3> HIDE DEF Correct
    <3> QED
      BY <2>2
  <2> HIDE DEF flatten
  <2> DEFINE S == {k \in 0..n : k # 0 => flatten[k] = f[k]}
  <2>4. 0 \in S
    BY <1>0
  <2>5. ASSUME NEW k \in 0..(n - 1), k \in S
        PROVE  k + 1 \in S
    <3>1. k + 1 \in 1..n /\ (k + 1) - 1 = k
      BY <1>0
    <3>2. CASE k = 0
      <4>1. flatten[1] = seqs[1]
        BY <2>3, <3>1, <3>2
      <4> QED
        BY <1>e, <1>6, <3>1, <3>2, <4>1
    <3>3. CASE k # 0
      <4>1. flatten[k] = f[k] /\ k + 1 # 1
        BY <2>5, <3>3
      <4>2. flatten[k + 1] = flatten[k] \o seqs[k + 1]
        BY <2>3, <3>1, <4>1
      <4>3. f[k + 1] = f[(k + 1) - 1] \o seqs[k + 1]
        BY <1>4, <3>1
      <4> QED
        <5>1. flatten[k + 1] = f[k + 1]
          BY <3>1, <4>1, <4>2, <4>3
        <5>2. k + 1 \in 0..n
          BY <1>0
        <5> QED
          BY <5>1, <5>2
    <3> QED
      BY <3>2, <3>3
  <2>6. n \in S
    <3> HIDE DEF S
    <3>1. 0..n \subseteq S
      BY <1>0, <2>4, <2>5, Stepwise
    <3> QED
      BY <1>0, <3>1
  <2>7. FlattenSeq(seqs) = f[n]
    BY <1>6, <2>1, <2>6
  <2> QED
    BY <1>3, <1>4, <2>7
<1> QED
  BY <1>5, <1>6

\* What is listed when sequences are joined.
LEMMA FlattenFacts ==
  ASSUME NEW seqs \in Seq(Seq(Nat)),
         \A i \in 1..Len(seqs) : IsInjective(seqs[i]),
         \A i, j \in 1..Len(seqs) : i # j => Range(seqs[i]) \cap Range(seqs[j]) = {}
  PROVE  /\ FlattenSeq(seqs) \in Seq(Nat)
         /\ IsInjective(FlattenSeq(seqs))
         /\ Range(FlattenSeq(seqs)) = UNION {Range(seqs[i]) : i \in 1..Len(seqs)}
         /\ \A i \in 1..Len(seqs) : \A a, b :
              Before(seqs[i], a, b) => Before(FlattenSeq(seqs), a, b)
<1> DEFINE n == Len(seqs)
<1>1. PICK f \in [0..n -> Seq(Nat)] :
        /\ f[0] = <<>>
        /\ \A i \in 1..n : f[i] = f[i - 1] \o seqs[i]
        /\ FlattenSeq(seqs) = f[n]
  BY FlattenSteps
<1>0. n \in Nat /\ \A i \in 1..n : seqs[i] \in Seq(Nat)
  OBVIOUS
<1> DEFINE Lists(s, k) ==
      /\ IsInjective(s)
      /\ Range(s) = UNION {Range(seqs[i]) : i \in 1..k}
      /\ \A i \in 1..k : \A a, b : Before(seqs[i], a, b) => Before(s, a, b)
    S == {k \in 0..n : Lists(f[k], k)}
<1>2. 0 \in S
  <2>1. Range(<<>>) = {} /\ IsInjective(<<>>)
    BY DEF Range, IsInjective
  <2>2. 1..0 = {}
    OBVIOUS
  <2>3. Lists(<<>>, 0)
    BY <2>1, <2>2
  <2> HIDE DEF Lists
  <2> QED
    BY <1>0, <1>1, <2>3
<1>3. ASSUME NEW k \in 0..(n - 1), k \in S
      PROVE  k + 1 \in S
  <2> DEFINE s == f[k]
             t == seqs[k + 1]
  <2>1. /\ k \in 0..n /\ k + 1 \in 1..n /\ k + 1 \in 0..n /\ (k + 1) - 1 = k
        /\ 1..k \subseteq 1..n /\ k + 1 \notin 1..k /\ 1..(k + 1) = 1..k \cup {k + 1}
    BY <1>0
  <2>2. s \in Seq(Nat) /\ t \in Seq(Nat) /\ f[k + 1] = s \o t
    BY <1>0, <1>1, <2>1
  <2>3. Lists(s, k)
    BY <1>3
  <2>4. IsInjective(t)
    BY <2>1
  <2>5. Range(s) \cap Range(t) = {}
    <3>1. \A i \in 1..k : Range(seqs[i]) \cap Range(t) = {}
      BY <2>1
    <3> QED
      BY <2>3, <3>1
  <2> HIDE DEF s, t
  <2>6. /\ IsInjective(s \o t)
        /\ \A a, b : Before(s, a, b) \/ Before(t, a, b) => Before(s \o t, a, b)
    BY <2>2, <2>3, <2>4, <2>5, JoinedOnce
  <2>7. Range(s \o t) = UNION {Range(seqs[i]) : i \in 1..(k + 1)}
    <3>1. Range(s \o t) = Range(s) \cup Range(t)
      BY <2>2, Joined
    <3> QED
      BY <2>1, <2>3, <3>1 DEF t
  <2>8. \A i \in 1..(k + 1) : \A a, b : Before(seqs[i], a, b) => Before(s \o t, a, b)
    BY <2>1, <2>3, <2>6 DEF t
  <2>9. Lists(f[k + 1], k + 1)
    BY <2>2, <2>6, <2>7, <2>8
  <2> HIDE DEF Lists
  <2> QED
    BY <2>1, <2>9
<1>4. n \in S
  <2> HIDE DEF S
  <2>1. 0..n \subseteq S
    BY <1>0, <1>2, <1>3, Stepwise
  <2> QED
    BY <1>0, <2>1
<1>5. Lists(f[n], n)
  BY <1>4
<1>6. f[n] \in Seq(Nat)
  BY <1>0
<1> QED
  BY <1>1, <1>5, <1>6

\* Sequences that list the nodes once, the ends of an edge in one of them.
Partitions(parts, nodes, edges) ==
  /\ parts \in Seq(Seq(Nat))
  /\ \A i \in 1..Len(parts) : IsInjective(parts[i])
  /\ \A i, j \in 1..Len(parts) : i # j => Range(parts[i]) \cap Range(parts[j]) = {}
  /\ UNION {Range(parts[i]) : i \in 1..Len(parts)} = nodes
  /\ \A e \in edges :
       \E i \in 1..Len(parts) : e[1] \in Range(parts[i]) /\ e[2] \in Range(parts[i])

\* The components do, each searched from its least node.
LEMMA ComponentsFacts ==
  ASSUME NEW edges, IsGraph(edges), NEW nodes \in SUBSET Nat, IsFiniteSet(nodes),
         \A e \in edges : e[1] \in nodes /\ e[2] \in nodes
  PROVE  /\ Partitions(Components(nodes, edges), nodes, edges)
         /\ \A i \in 1..Len(Components(nodes, edges)) :
              \E root \in Nat :
                /\ Components(nodes, edges)[i] = Component(root, edges)
                /\ \A w \in Range(Components(nodes, edges)[i]) : root <= w
<1> DEFINE C(v) == Component(v, edges)
           roots == {v \in nodes : \A w \in Range(C(v)) : v <= w}
           order == Ascending(roots)
           parts == Components(nodes, edges)
<1>1. ASSUME NEW v \in Nat
      PROVE  /\ C(v) \in Seq(Nat) /\ IsInjective(C(v)) /\ v \in Range(C(v))
             /\ Closed(Range(C(v)), edges) /\ Range(C(v)) \in SUBSET Nat
             /\ v \in nodes => Range(C(v)) \subseteq nodes
  <2>1. Closed(nodes, edges)
    BY DEF Closed
  <2> QED
    BY <2>1, ComponentFacts, ElementsOf
<1>2. ASSUME NEW v \in Nat, NEW w \in Range(C(v))
      PROVE  Range(C(w)) = Range(C(v))
  BY SameComponent
<1>3. /\ roots \in SUBSET Nat /\ roots \in SUBSET nodes
      /\ order \in Seq(roots) /\ Len(order) \in Nat /\ DOMAIN order = 1..Len(order)
      /\ Range(order) = roots /\ IsInjective(order)
  <2>1. roots \in SUBSET Nat /\ IsFiniteSet(roots) /\ roots \in SUBSET nodes
    BY FS_Subset
  <2> HIDE DEF roots
  <2> QED
    BY <2>1, AscendingFacts
<1>4. parts = [i \in 1..Len(order) |-> C(order[i])]
  BY <1>3 DEF Components
<1>5. \A i \in 1..Len(order) : order[i] \in roots /\ order[i] \in Nat /\ order[i] \in nodes
  <2> HIDE DEF roots, order
  <2>1. \A i \in 1..Len(order) : order[i] \in roots
    BY <1>3 DEF Range
  <2> QED
    BY <1>3, <2>1
<1>6. \A r \in roots : \A w \in Range(C(r)) : r <= w
  OBVIOUS
<1>7. parts \in Seq(Seq(Nat)) /\ Len(parts) = Len(order)
  <2> HIDE DEF parts, order, C, roots
  <2>1. \A i \in 1..Len(order) : C(order[i]) \in Seq(Nat)
    BY <1>1, <1>5
  <2> QED
    BY <1>3, <1>4, <2>1
<1>8. \A i \in 1..Len(parts) : parts[i] = C(order[i])
  BY <1>4, <1>7
<1> HIDE DEF parts, order, C
<1>9. \A i \in 1..Len(parts) : IsInjective(parts[i])
  BY <1>1, <1>5, <1>7, <1>8
<1>10. ASSUME NEW i \in 1..Len(parts), NEW j \in 1..Len(parts), i # j
       PROVE  Range(parts[i]) \cap Range(parts[j]) = {}
  <2> SUFFICES ASSUME NEW w \in Range(parts[i]), w \in Range(parts[j])
               PROVE  FALSE
    OBVIOUS
  <2> DEFINE p == order[i]
             q == order[j]
  <2>1. /\ p \in Nat /\ q \in Nat /\ p \in roots /\ q \in roots
        /\ parts[i] = C(p) /\ parts[j] = C(q)
    BY <1>5, <1>7, <1>8
  <2>2. p # q
    BY <1>3, <1>7, <1>10 DEF IsInjective
  <2> HIDE DEF p, q, roots
  <2>3. Range(C(p)) = Range(C(w)) /\ Range(C(q)) = Range(C(w))
    BY <1>2, <2>1
  <2>4. p \in Range(C(q)) /\ q \in Range(C(p))
    BY <1>1, <2>1, <2>3
  <2>5. p <= q /\ q <= p
    BY <1>6, <2>1, <2>4
  <2> QED
    BY <2>1, <2>2, <2>5
<1>11. ASSUME NEW v \in nodes
       PROVE  \E i \in 1..Len(parts) : Range(parts[i]) = Range(C(v))
  <2>0. v \in Nat
    OBVIOUS
  <2>1. Range(C(v)) \subseteq Nat /\ Range(C(v)) # {}
    BY <1>1, <2>0
  <2>2. PICK m \in Range(C(v)) : \A w \in Range(C(v)) : m <= w
    BY <2>1, LeastNatural
  <2>3. Range(C(m)) = Range(C(v)) /\ m \in nodes
    BY <1>1, <1>2, <2>0
  <2>4. m \in roots
    BY <2>2, <2>3
  <2> HIDE DEF roots
  <2>5. PICK i \in 1..Len(order) : order[i] = m
    BY <1>3, <2>4 DEF Range
  <2> QED
    BY <1>7, <1>8, <2>3, <2>5
<1>12. UNION {Range(parts[i]) : i \in 1..Len(parts)} = nodes
  <2>1. ASSUME NEW i \in 1..Len(parts)
        PROVE  Range(parts[i]) \subseteq nodes
    BY <1>1, <1>5, <1>7, <1>8
  <2>2. ASSUME NEW v \in nodes
        PROVE  v \in UNION {Range(parts[i]) : i \in 1..Len(parts)}
    <3>1. PICK i \in 1..Len(parts) : Range(parts[i]) = Range(C(v))
      BY <1>11
    <3>2. v \in Range(parts[i])
      BY <1>1, <3>1
    <3> QED
      BY <3>2
  <2> QED
    BY <2>1, <2>2
<1>13. ASSUME NEW e \in edges
       PROVE  \E i \in 1..Len(parts) : e[1] \in Range(parts[i]) /\ e[2] \in Range(parts[i])
  <2>1. e[1] \in nodes /\ e[1] \in Nat
    OBVIOUS
  <2>2. PICK i \in 1..Len(parts) : Range(parts[i]) = Range(C(e[1]))
    BY <1>11, <2>1
  <2> QED
    BY <1>1, <2>1, <2>2 DEF Closed
<1>14. ASSUME NEW i \in 1..Len(parts)
       PROVE  \E root \in Nat : /\ parts[i] = Component(root, edges)
                                /\ \A w \in Range(parts[i]) : root <= w
  <2>1. order[i] \in Nat /\ order[i] \in roots /\ parts[i] = C(order[i])
    BY <1>5, <1>7, <1>8
  <2> HIDE DEF roots
  <2>2. \A w \in Range(parts[i]) : order[i] <= w
    BY <1>6, <2>1
  <2> QED
    BY <2>1, <2>2 DEF C
<1> QED
  BY <1>7, <1>9, <1>10, <1>12, <1>13, <1>14 DEF parts, Partitions

\* Where every node has at most one edge of its own, what the nodes to look at
\* depend on is listed already, and what a listed one depends on came before.
Dependent(edges, search) ==
  /\ search \in Searches
  /\ \A e \in edges :
       /\ e[1] \in Range(search.todo) => e[2] \in Range(search.seen)
       /\ e[1] \in Range(search.seen) => Before(search.seen, e[2], e[1])

OneEach(edges) == \A e, d \in edges : d[1] = e[1] => d = e

LEMMA BeforeListed ==
  ASSUME NEW s \in Seq(Nat), NEW v \in Nat
  PROVE  /\ \A a, b : Before(s, a, b) => Before(Append(s, v), a, b)
         /\ \A a \in Range(s) : Before(Append(s, v), a, v)
<1>1. /\ Len(s) \in Nat /\ DOMAIN s = 1..Len(s) /\ DOMAIN Append(s, v) = 1..(Len(s) + 1)
      /\ Append(s, v)[Len(s) + 1] = v
      /\ \A i \in 1..Len(s) : Append(s, v)[i] = s[i]
  OBVIOUS
<1>2. /\ Len(s) + 1 \in 1..(Len(s) + 1)
      /\ \A i \in 1..Len(s) : i \in 1..(Len(s) + 1) /\ i < Len(s) + 1
  BY <1>1
<1>3. ASSUME NEW a, NEW b, Before(s, a, b)
      PROVE  Before(Append(s, v), a, b)
  BY <1>1, <1>2, <1>3 DEF Before
<1>4. ASSUME NEW a \in Range(s)
      PROVE  Before(Append(s, v), a, v)
  <2>1. PICK i \in 1..Len(s) : s[i] = a
    BY <1>1 DEF Range
  <2> QED
    BY <1>1, <1>2, <2>1 DEF Before
<1> QED
  BY <1>3, <1>4

LEMMA DependentTurns ==
  ASSUME NEW edges, IsGraph(edges), OneEach(edges), NEW search \in Searches,
         Dependent(edges, search)
  PROVE  Dependent(edges, Turn(edges)[search])
<1> DEFINE next == Turn(edges)[search]
           v == Head(search.todo)
           rest == Tail(search.todo)
<1>0. /\ next \in Searches /\ search.todo \in Seq(Nat) /\ search.seen \in Seq(Nat)
  <2>1. 0 \in Nat
    OBVIOUS
  <2> QED
    BY <2>1, SearchSteps DEF Searches
<1>1. CASE search.todo = <<>>
  BY <1>1, TurnIs
<1> SUFFICES ASSUME search.todo # <<>>
             PROVE  Dependent(edges, next)
  BY <1>1
<1>2. v \in Nat /\ rest \in Seq(Nat) /\ Range(search.todo) = {v} \cup Range(rest)
  BY <1>0, FirstAndRest
<1>3. CASE v \in Range(search.seen)
  <2>1. next = [todo |-> rest, seen |-> search.seen]
    BY <1>3, TurnIs
  <2>2. next.todo = rest /\ next.seen = search.seen
    BY <2>1
  <2> HIDE DEF next, v, rest
  <2> QED
    BY <1>0, <1>2, <2>2 DEF Dependent
<1>4. CASE v \notin Range(search.seen)
  <2> DEFINE around == Neighbours(v, edges)
  <2>1. next = [todo |-> around \o rest, seen |-> Append(search.seen, v)]
    BY <1>4, TurnIs
  <2>2. around \in Seq(Nat) /\ Range(around) = Outgoing(v, edges) \cup Incoming(v, edges)
    BY <1>2, NeighboursFacts
  <2> HIDE DEF next, v, rest, around
  <2>3. next.todo = around \o rest /\ next.seen = Append(search.seen, v)
    BY <2>1
  <2>4. Range(next.todo) = Outgoing(v, edges) \cup Incoming(v, edges) \cup Range(rest)
    <3>1. Range(around \o rest) = Range(around) \cup Range(rest)
      BY <1>2, <2>2, Joined
    <3> QED
      BY <2>2, <2>3, <3>1
  <2>5. Range(next.seen) = Range(search.seen) \cup {v}
    <3>1. /\ DOMAIN search.seen = 1..Len(search.seen) /\ Len(search.seen) \in Nat
          /\ DOMAIN next.seen = 1..(Len(search.seen) + 1)
          /\ next.seen[Len(search.seen) + 1] = v
          /\ \A i \in 1..Len(search.seen) : next.seen[i] = search.seen[i]
      BY <1>0, <1>2, <2>3
    <3> QED
      BY <3>1 DEF Range
  <2>6. ASSUME NEW e \in edges, e[1] \in Range(next.seen)
        PROVE  Before(next.seen, e[2], e[1])
    <3>1. CASE e[1] \in Range(search.seen)
      BY <1>0, <1>2, <2>3, <3>1, BeforeListed DEF Dependent
    <3>2. CASE e[1] = v
      <4>1. e[2] \in Range(search.seen)
        BY <1>2, <3>2 DEF Dependent
      <4> QED
        BY <1>0, <1>2, <2>3, <3>2, <4>1, BeforeListed
    <3> QED
      BY <2>5, <2>6, <3>1, <3>2
  <2>7. ASSUME NEW e \in edges, e[1] \in Range(next.todo)
        PROVE  e[2] \in Range(next.seen)
    <3>1. CASE e[1] \in Range(rest)
      BY <1>2, <2>5, <3>1 DEF Dependent
    <3>2. CASE e[1] \in Outgoing(v, edges)
      <4>1. PICK d \in edges : d[1] = v /\ d[2] = e[1]
        BY <3>2 DEF Outgoing
      <4>2. e[1] \in Range(search.seen)
        BY <1>2, <4>1 DEF Dependent
      <4>3. Before(search.seen, e[2], e[1])
        BY <4>2 DEF Dependent
      <4>4. e[2] \in Range(search.seen)
        BY <4>3 DEF Before, Range
      <4> QED
        BY <2>5, <4>4
    <3>3. CASE e[1] \in Incoming(v, edges)
      <4>1. PICK d \in edges : d[2] = v /\ d[1] = e[1]
        BY <3>3 DEF Incoming
      <4>2. e[2] = v
        BY <4>1 DEF OneEach
      <4> QED
        BY <2>5, <4>2
    <3> QED
      BY <2>4, <2>7, <3>1, <3>2, <3>3
  <2> QED
    BY <1>0, <2>6, <2>7 DEF Dependent, next
<1> QED
  BY <1>3, <1>4

\* A component that is searched from a node that depends on nothing lists
\* every node after the one it depends on.
LEMMA ForestComponent ==
  ASSUME NEW edges, IsGraph(edges), OneEach(edges), NEW root \in Nat,
         \A e \in edges : e[1] # root
  PROVE  \A e \in edges : e[1] \in Range(Component(root, edges)) =>
                            Before(Component(root, edges), e[2], e[1])
<1> DEFINE T == Turns(edges)
           at == Search(root, edges)
           S == {k \in 0..T : Dependent(edges, at[k])}
<1>0. /\ T \in Nat /\ at \in [0..T -> Searches] /\ at[0] = Start(root)
      /\ \A k \in 1..T : at[k] = Turn(edges)[at[k - 1]]
  BY SearchSteps
<1> HIDE DEF T, at
<1>1. 0 \in S
  <2>1. /\ Start(root) \in Searches /\ Range(Start(root).seen) = {}
        /\ Range(Start(root).todo) = {root}
    BY DEF Start, Searches, Range
  <2> QED
    BY <1>0, <2>1 DEF Dependent
<1>2. ASSUME NEW k \in 0..(T - 1), k \in S
      PROVE  k + 1 \in S
  <2>1. k \in Nat /\ k \in 0..T /\ k + 1 \in 1..T /\ (k + 1) - 1 = k
    BY <1>0
  <2>2. at[k] \in Searches /\ at[k + 1] = Turn(edges)[at[k]]
    BY <1>0, <2>1
  <2>3. Dependent(edges, Turn(edges)[at[k]])
    BY <1>2, <2>2, DependentTurns
  <2> QED
    BY <2>1, <2>2, <2>3
<1>3. Dependent(edges, at[T])
  <2> HIDE DEF S
  <2>1. 0..T \subseteq S
    BY <1>0, <1>1, <1>2, Stepwise
  <2>2. T \in S
    BY <1>0, <2>1
  <2> QED
    BY <2>2 DEF S
<1> QED
  BY <1>3 DEF Dependent, Component, at, T

----------------------------------------------------------------------------
\* The graph of a valid group is finite, and when it has edges its nodes are
\* the requests that are not bare.
LEMMA GroupGraph ==
  ASSUME NEW reqs \in Seq(Request), IsValid(reqs)
  PROVE  /\ IsGraph(Edges(reqs))
         /\ Ids(reqs) \in SUBSET Nat
         /\ Nodes(reqs) \in SUBSET Nat /\ IsFiniteSet(Nodes(reqs))
         /\ \A e \in Edges(reqs) : e[1] \in Nodes(reqs) /\ e[2] \in Nodes(reqs)
         /\ Edges(reqs) # {} => Nodes(reqs) = Ids(reqs) \ Bare(reqs)
         /\ Edges(reqs) = {} => Bare(reqs) = {}
<1>1. /\ IsFiniteSet(Ids(reqs)) /\ Nodes(reqs) \in SUBSET Ids(reqs)
      /\ \A e \in Edges(reqs) :
           /\ e = <<e[1], e[2]>> /\ e[1] \in Ids(reqs) /\ e[2] \in Ids(reqs)
  BY ValidGroup
<1>2. Ids(reqs) \in SUBSET Nat /\ Range(reqs) \in SUBSET Request
  <2>1. Range(reqs) \in SUBSET Request
    BY ElementsOf
  <2> QED
    BY <2>1 DEF Ids, Request
<1>3. IsFiniteSet(Edges(reqs))
  <2>1. Edges(reqs) \in SUBSET (Ids(reqs) \X Ids(reqs))
    BY <1>1
  <2> QED
    BY <1>1, <2>1, FS_Product, FS_Subset
<1>4. IsGraph(Edges(reqs))
  BY <1>1, <1>2, <1>3 DEF IsGraph
<1>5. IsFiniteSet(Nodes(reqs))
  BY <1>1, FS_Subset
<1>6. \A e \in Edges(reqs) : e[1] \in Nodes(reqs) /\ e[2] \in Nodes(reqs)
  BY DEF Nodes
<1>7. ASSUME NEW id \in Nodes(reqs)
      PROVE  id \notin Bare(reqs)
  <2> SUFFICES ASSUME id \in Bare(reqs)
               PROVE  FALSE
    OBVIOUS
  <2>1. PICK q \in Range(reqs) :
          /\ q.dependsOn = {} /\ q.id = id
          /\ \A e \in Edges(reqs) : q.id \notin {e[1], e[2]}
    BY DEF Bare
  <2>2. \A e \in Edges(reqs) : id # e[1] /\ id # e[2]
    BY <2>1
  <2>3. PICK r \in Range(reqs) : r.dependsOn = Absent /\ r.id = id
    BY <2>2 DEF Nodes
  <2>4. q = r
    BY <2>1, <2>3 DEF IsValid, Range
  <2> QED
    BY <2>1, <2>3, <2>4, AbsentAssumption
<1>8. ASSUME Edges(reqs) # {}, NEW id \in Ids(reqs), id \notin Bare(reqs)
      PROVE  id \in Nodes(reqs)
  <2>1. PICK q \in Range(reqs) : q.id = id
    BY DEF Ids
  <2>2. CASE q.dependsOn = Absent
    BY <2>1, <2>2 DEF Nodes
  <2>3. CASE q.dependsOn # Absent /\ q.dependsOn # {}
    <3>1. PICK dep \in q.dependsOn : TRUE
      BY <1>2, <2>3 DEF Request
    <3>2. <<q.id, dep>> \in Edges(reqs)
      BY <2>3 DEF Edges
    <3>3. <<q.id, dep>>[1] \in Nodes(reqs)
      BY <1>6, <3>2
    <3> QED
      BY <2>1, <3>3
  <2>4. CASE q.dependsOn = {}
    <3>1. PICK e \in Edges(reqs) : q.id \in {e[1], e[2]}
      BY <1>8, <2>1, <2>4 DEF Bare
    <3> QED
      BY <1>6, <2>1, <3>1
  <2> QED
    BY <2>2, <2>3, <2>4
<1>9. Edges(reqs) # {} => Nodes(reqs) = Ids(reqs) \ Bare(reqs)
  BY <1>1, <1>7, <1>8
<1>10. Edges(reqs) = {} => Bare(reqs) = {}
  BY DEF Bare
<1> QED
  BY <1>1, <1>2, <1>4, <1>5, <1>6, <1>9, <1>10

\* The dependency groups of a valid group list every request that is not bare
\* once, those of an edge in one of them.
LEMMA GroupsFacts ==
  ASSUME NEW reqs \in Seq(Request), IsValid(reqs)
  PROVE  Partitions(groupDependsOn(reqs), Ids(reqs) \ Bare(reqs), Edges(reqs))
<1> DEFINE parts == groupDependsOn(reqs)
<1>1. CASE Edges(reqs) # {}
  <2>1. /\ IsGraph(Edges(reqs)) /\ Nodes(reqs) \in SUBSET Nat /\ IsFiniteSet(Nodes(reqs))
        /\ \A e \in Edges(reqs) : e[1] \in Nodes(reqs) /\ e[2] \in Nodes(reqs)
        /\ Nodes(reqs) = Ids(reqs) \ Bare(reqs)
    BY <1>1, GroupGraph
  <2>2. Partitions(Components(Nodes(reqs), Edges(reqs)), Nodes(reqs), Edges(reqs))
    BY <2>1, ComponentsFacts
  <2> QED
    BY <1>1, <2>1, <2>2 DEF groupDependsOn
<1>2. CASE Edges(reqs) = {}
  <2>0. /\ DOMAIN reqs = 1..Len(reqs) /\ Len(reqs) \in Nat
        /\ \A i \in 1..Len(reqs) : reqs[i].id \in Nat
    <3>1. \A i \in 1..Len(reqs) : reqs[i] \in Request
      OBVIOUS
    <3> QED
      BY <3>1 DEF Request
  <2>1. parts = [i \in 1..Len(reqs) |-> <<reqs[i].id>>]
    BY <1>2, <2>0 DEF groupDependsOn
  <2>2. \A i \in 1..Len(reqs) : <<reqs[i].id>> \in Seq(Nat)
    BY <2>0
  <2>3. parts \in Seq(Seq(Nat)) /\ Len(parts) = Len(reqs)
    BY <2>0, <2>1, <2>2
  <2>4. \A i \in 1..Len(parts) : parts[i] = <<reqs[i].id>>
    BY <2>1, <2>3
  <2>5. \A x : IsInjective(<<x>>) /\ Range(<<x>>) = {x}
    BY DEF IsInjective, Range
  <2> HIDE DEF parts
  <2>6. \A i \in 1..Len(parts) : IsInjective(parts[i]) /\ Range(parts[i]) = {reqs[i].id}
    BY <2>4, <2>5
  <2>7. \A i, j \in 1..Len(parts) : i # j => Range(parts[i]) \cap Range(parts[j]) = {}
    <3>1. \A i, j \in 1..Len(parts) : i # j => reqs[i].id # reqs[j].id
      BY <2>0, <2>3 DEF IsValid
    <3> QED
      BY <2>6, <3>1
  <2>8. UNION {Range(parts[i]) : i \in 1..Len(parts)} = Ids(reqs) \ Bare(reqs)
    <3>1. Bare(reqs) = {} /\ Ids(reqs) = {reqs[i].id : i \in 1..Len(reqs)}
      BY <1>2, <2>0, GroupGraph DEF Ids, Range
    <3>2. {Range(parts[i]) : i \in 1..Len(parts)} = {{reqs[i].id} : i \in 1..Len(reqs)}
      BY <2>3, <2>6
    <3>3. UNION {{reqs[i].id} : i \in 1..Len(reqs)} = {reqs[i].id : i \in 1..Len(reqs)}
      OBVIOUS
    <3> QED
      BY <3>1, <3>2, <3>3
  <2> QED
    BY <1>2, <2>3, <2>6, <2>7, <2>8 DEF parts, Partitions
<1> QED
  BY <1>1, <1>2

\* The order the requests of a valid group run in.
LEMMA RunOrderFacts ==
  ASSUME NEW reqs \in Seq(Request), IsValid(reqs)
  PROVE  LET order == RunOrder(groupDependsOn(reqs))
         IN  /\ order \in Seq(Nat) /\ IsInjective(order)
             /\ Range(order) = Ids(reqs) \ Bare(reqs)
             /\ \A i \in 1..Len(groupDependsOn(reqs)) : \A a, b :
                  Before(groupDependsOn(reqs)[i], a, b) => Before(order, a, b)
<1> DEFINE parts == groupDependsOn(reqs)
<1>1. /\ parts \in Seq(Seq(Nat))
      /\ \A i \in 1..Len(parts) : IsInjective(parts[i])
      /\ \A i, j \in 1..Len(parts) : i # j => Range(parts[i]) \cap Range(parts[j]) = {}
      /\ UNION {Range(parts[i]) : i \in 1..Len(parts)} = Ids(reqs) \ Bare(reqs)
  BY GroupsFacts DEF Partitions
<1> HIDE DEF parts
<1>2. /\ FlattenSeq(parts) \in Seq(Nat)
      /\ IsInjective(FlattenSeq(parts))
      /\ Range(FlattenSeq(parts)) = UNION {Range(parts[i]) : i \in 1..Len(parts)}
      /\ \A i \in 1..Len(parts) : \A a, b :
           Before(parts[i], a, b) => Before(FlattenSeq(parts), a, b)
  BY <1>1, FlattenFacts
<1> QED
  BY <1>1, <1>2 DEF RunOrder, parts

----------------------------------------------------------------------------
\* What the stages say of the group.
StageInv ==
  /\ requests \in Seq(Request)
  /\ stage \in {"refused", "arranged"} => IsValid(requests)
  /\ stage = "refused" => Refuses(requests)
  /\ stage = "arranged" => ~Refuses(requests) /\ groups = groupDependsOn(requests)

\* StageInv holds in every state.
LEMMA StageInvariance == DependsSpec => []StageInv
<1>1. DependsInit => StageInv
  BY AtomGroupsAssumption DEF DependsInit, StageInv
<1>2. StageInv /\ [DependsNext]_dependsVars => StageInv'
  BY DEF StageInv, DependsNext, FindInvalid, FindCycle, Arrange, dependsVars
<1> QED
  BY <1>1, <1>2, PTL DEF DependsSpec

\* groupDependsOn refuses an atom group for a cycle exactly when no order of
\* its requests runs each after those it depends on, for every group of any
\* number of requests.
THEOREM RefusedIffNoOrderHolds == DependsSpec => []RefusedIffNoOrder
<1>1. ASSUME StageInv
      PROVE  RefusedIffNoOrder
  <2>1. stage = "refused" => Ranks(requests) = {}
    BY <1>1, RefusedHasNoOrder DEF StageInv
  <2>2. stage = "arranged" => Ranks(requests) # {}
    BY <1>1, ArrangedHasOrder DEF StageInv
  <2> QED
    BY <2>1, <2>2 DEF RefusedIffNoOrder, Ranks
<1>2. StageInv => RefusedIffNoOrder
  BY <1>1
<1> QED
  BY StageInvariance, <1>2, PTL

\* groupDependsOn has every request of an atom group run, and none twice, but
\* for the bare ones: for every valid group, whatever its requests depend on.
THEOREM EachRunsOnceHolds == DependsSpec => []EachRunsOnce
<1>1. ASSUME StageInv, stage = "arranged"
      PROVE  /\ IsInjective(RunOrder(groups))
             /\ Range(RunOrder(groups)) = Ids(requests) \ Bare(requests)
  BY <1>1, RunOrderFacts DEF StageInv
<1>2. StageInv => EachRunsOnce
  BY <1>1 DEF EachRunsOnce
<1> QED
  BY StageInvariance, <1>2, PTL

\* Requests that depend on one another are in one dependency group.
THEOREM GroupsAreIndependentHolds == DependsSpec => []GroupsAreIndependent
<1>1. ASSUME StageInv, stage = "arranged", NEW e \in Edges(requests)
      PROVE  \E i \in DOMAIN groups : {e[1], e[2]} \subseteq Range(groups[i])
  <2>1. Partitions(groups, Ids(requests) \ Bare(requests), Edges(requests))
    BY <1>1, GroupsFacts DEF StageInv
  <2>2. DOMAIN groups = 1..Len(groups)
    BY <2>1 DEF Partitions
  <2>3. PICK i \in 1..Len(groups) : e[1] \in Range(groups[i]) /\ e[2] \in Range(groups[i])
    BY <2>1 DEF Partitions
  <2> QED
    BY <2>2, <2>3
<1>2. StageInv => GroupsAreIndependent
  BY <1>1 DEF GroupsAreIndependent
<1> QED
  BY StageInvariance, <1>2, PTL

\* When no request depends on more than one other, an earlier one, every
\* request runs after the one it depends on.
THEOREM ForestRunsInOrderHolds == DependsSpec => []ForestRunsInOrder
<1>1. ASSUME StageInv, stage = "arranged",
             \A e \in Edges(requests) :
               e[2] < e[1] /\ \A d \in Edges(requests) : d[1] = e[1] => d = e,
             NEW e \in Edges(requests)
      PROVE  Before(RunOrder(groups), e[2], e[1])
  <2> DEFINE edges == Edges(requests)
             nodes == Nodes(requests)
             parts == Components(nodes, edges)
  <2>0. requests \in Seq(Request) /\ IsValid(requests) /\ groups = groupDependsOn(requests)
    BY <1>1 DEF StageInv
  <2>1. /\ IsGraph(edges) /\ nodes \in SUBSET Nat /\ IsFiniteSet(nodes)
        /\ \A d \in edges : d[1] \in nodes /\ d[2] \in nodes
    BY <2>0, GroupGraph
  <2>2. groups = parts
    BY <2>0 DEF groupDependsOn
  <2> HIDE DEF edges, nodes
  <2>3. /\ Partitions(parts, nodes, edges)
        /\ \A i \in 1..Len(parts) :
             \E root \in Nat : /\ parts[i] = Component(root, edges)
                               /\ \A w \in Range(parts[i]) : root <= w
    BY <2>1, ComponentsFacts
  <2> HIDE DEF parts
  <2>4. e \in edges /\ OneEach(edges) /\ \A d \in edges : d[2] < d[1]
    BY <1>1 DEF OneEach, edges
  <2>5. PICK i \in 1..Len(parts) : e[1] \in Range(parts[i])
    BY <2>3, <2>4 DEF Partitions
  <2>6. PICK root \in Nat :
          parts[i] = Component(root, edges) /\ \A w \in Range(parts[i]) : root <= w
    BY <2>3
  <2>7. ASSUME NEW d \in edges, d[1] = root
        PROVE  FALSE
    <3>1. root \in Range(parts[i]) /\ Closed(Range(parts[i]), edges)
      BY <2>1, <2>6, ComponentFacts
    <3>2. d[2] \in Range(parts[i])
      BY <2>7, <3>1 DEF Closed
    <3>3. root <= d[2] /\ d[2] < root /\ d[2] \in Nat
      BY <2>1, <2>4, <2>6, <2>7, <3>2 DEF IsGraph
    <3> QED
      BY <3>3
  <2>8. Before(parts[i], e[2], e[1])
    BY <2>1, <2>4, <2>5, <2>6, <2>7, ForestComponent
  <2> QED
    BY <2>0, <2>2, <2>8, RunOrderFacts
<1>2. StageInv => ForestRunsInOrder
  BY <1>1 DEF ForestRunsInOrder
<1> QED
  BY StageInvariance, <1>2, PTL
=============================================================================
