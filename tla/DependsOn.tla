----------------------------- MODULE DependsOn -----------------------------
(***************************************************************************)
(* groupDependsOn of src/middlewares/batch.ts: the order in which the      *)
(* requests of one atom group run.                                         *)
(*                                                                         *)
(* A request is its id and its dependsOn, a set of ids, or Absent when     *)
(* there is none.  Ids are the strings of natural numbers, as the batch    *)
(* client and the tests generate them, and are modelled as those numbers:  *)
(* a JavaScript object, and with it graphlib, enumerates such keys in      *)
(* ascending order.                                                        *)
(***************************************************************************)
EXTENDS Integers, Sequences, FiniteSets, SequencesExt

CONSTANT Absent  \* the dependsOn field is absent

ASSUME AbsentAssumption == Absent # {}

Request == [id : Nat, dependsOn : {Absent} \cup SUBSET Nat]

Ids(reqs) == {req.id : req \in Range(reqs)}

\* checkDependsOnIsValid: ids are unique and every dependency is in the group.
IsValid(reqs) ==
  /\ \A i, j \in DOMAIN reqs : reqs[i].id = reqs[j].id => i = j
  /\ \A req \in Range(reqs) :
       req.dependsOn # Absent => req.dependsOn \subseteq Ids(reqs)

\* The edges go from a request to what it depends on.
Edges(reqs) ==
  UNION {{<<req.id, dep>> : dep \in req.dependsOn} :
           req \in {q \in Range(reqs) : q.dependsOn # Absent}}

\* setEdge adds its two ends, setNode a request without dependsOn; a request
\* whose dependsOn is empty adds nothing by itself.
Nodes(reqs) ==
  {req.id : req \in {q \in Range(reqs) : q.dependsOn = Absent}}
    \cup UNION {{e[1], e[2]} : e \in Edges(reqs)}

\* alg.findCycles finds something: some requests all depend on one another.
HasCycle(nodes, edges) ==
  \E S \in (SUBSET nodes) \ {{}} : \A v \in S : \E w \in S : <<v, w>> \in edges

\* Each number at the place that those below it leave.
Ascending(S) ==
  [i \in 1..Cardinality(S) |->
     CHOOSE k \in S : Cardinality({j \in S : j < k}) = i - 1]

\* The order alg.components looks around a node in.
Neighbours(v, edges) ==
  Ascending({e[2] : e \in {d \in edges : d[1] = v}})
    \o Ascending({e[1] : e \in {d \in edges : d[2] = v}})

\* Its depth-first search, a node at a time: one that is new is listed, and
\* those around it come before what is left to look at.
Turn(edges) ==
  [search \in [todo : Seq(Nat), seen : Seq(Nat)] |->
     LET v == Head(search.todo)
     IN  IF search.todo = <<>> THEN search
         ELSE IF Contains(search.seen, v) THEN [search EXCEPT !.todo = Tail(@)]
         ELSE [todo |-> Neighbours(v, edges) \o Tail(search.todo),
               seen |-> Append(search.seen, v)]]

\* Every edge leads to each of its ends once.
Turns(edges) == 1 + 2 * Cardinality(edges)
Search(root, edges) ==
  LET after[n \in 0..Turns(edges)] ==
        IF n = 0 THEN [todo |-> <<root>>, seen |-> <<>>]
        ELSE Turn(edges)[after[n - 1]]
  IN  after

Component(root, edges) == Search(root, edges)[Turns(edges)].seen

\* alg.components starts a component at every node not listed yet: at the
\* least node of each, as the nodes come in ascending order.
Components(nodes, edges) ==
  LET roots == {v \in nodes : \A w \in Range(Component(v, edges)) : v <= w}
      order == Ascending(roots)
  IN  [i \in DOMAIN order |-> Component(order[i], edges)]

\* Mutant: only two requests that depend on each other are noticed.
RefusesPairs(reqs) == \E e \in Edges(reqs) : <<e[2], e[1]>> \in Edges(reqs)

\* The TypeError about a cycle; one request that depends on itself is one.
Refuses(reqs) ==
  Edges(reqs) # {} /\ HasCycle(Nodes(reqs), Edges(reqs))

\* Mutants: a group for every request, of all it is connected with; a single
\* dependency is overlooked.
GroupEach(reqs) ==
  [i \in DOMAIN reqs |-> Component(reqs[i].id, Edges(reqs))]

GroupFromTwo(reqs) ==
  IF Cardinality(Edges(reqs)) <= 1 THEN [i \in DOMAIN reqs |-> <<reqs[i].id>>]
  ELSE Components(Nodes(reqs), Edges(reqs))

groupDependsOn(reqs) ==
  IF Edges(reqs) = {} THEN [i \in DOMAIN reqs |-> <<reqs[i].id>>]
  ELSE Components(Nodes(reqs), Edges(reqs))

\* Mutant: requests are taken off the end of their group.
RunBackwards(groups) == FlattenSeq([i \in DOMAIN groups |-> Reverse(groups[i])])

\* The handler runs the requests of each dependency group, one after another.
RunOrder(groups) == FlattenSeq(groups)

\* A request whose dependsOn is empty, on which nobody depends, beside a
\* request that has a dependency: it is a node of no graph, and never runs.
Bare(reqs) ==
  {req.id : req \in {q \in Range(reqs) :
     /\ q.dependsOn = {} /\ Edges(reqs) # {}
     /\ \A e \in Edges(reqs) : q.id \notin {e[1], e[2]}}}
============================================================================
