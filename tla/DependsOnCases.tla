--------------------------- MODULE DependsOnCases ---------------------------
(***************************************************************************)
(* checkDependsOnIsValid and groupDependsOn on every atom group of a set:  *)
(* the group is received and then found invalid, refused or arranged.      *)
(***************************************************************************)
EXTENDS DependsOn

CONSTANT AtomGroups  \* the atom groups to consider

ASSUME AtomGroupsAssumption == AtomGroups \subseteq Seq(Request)

VARIABLES
  requests,  \* the requests of the group
  stage,     \* "received", "invalid", "refused" or "arranged"
  groups     \* the dependency groups, once arranged

dependsVars == <<requests, stage, groups>>

DependsInit == requests \in AtomGroups /\ stage = "received" /\ groups = <<>>

FindInvalid ==
  /\ stage = "received" /\ ~IsValid(requests)
  /\ stage' = "invalid"
  /\ UNCHANGED <<requests, groups>>

FindCycle ==
  /\ stage = "received" /\ IsValid(requests) /\ Refuses(requests)
  /\ stage' = "refused"
  /\ UNCHANGED <<requests, groups>>

Arrange ==
  /\ stage = "received" /\ IsValid(requests) /\ ~Refuses(requests)
  /\ stage' = "arranged"
  /\ groups' = groupDependsOn(requests)
  /\ UNCHANGED requests

DependsNext == FindInvalid \/ FindCycle \/ Arrange

DependsSpec == DependsInit /\ [][DependsNext]_dependsVars

Before(order, a, b) ==
  \E i, j \in DOMAIN order : i < j /\ order[i] = a /\ order[j] = b

----------------------------------------------------------------------------
\* Every request runs, and none twice, also one that is reached over two
\* dependencies; only the bare ones never run.
EachRunsOnce ==
  stage = "arranged" =>
    /\ IsInjective(RunOrder(groups))
    /\ Range(RunOrder(groups)) = Ids(requests) \ Bare(requests)

\* Requests that depend on one another share a dependency group, so groups
\* could run in any order.
GroupsAreIndependent ==
  stage = "arranged" => \A e \in Edges(requests) :
                \E i \in DOMAIN groups : {e[1], e[2]} \subseteq Range(groups[i])

\* What is refused for a cycle is exactly what no order could satisfy.
RefusedIffNoOrder ==
  stage \in {"refused", "arranged"} =>
    (stage = "refused" <=>
       ~\E rank \in [Ids(requests) -> 1..Len(requests)] :
          \A e \in Edges(requests) : rank[e[2]] < rank[e[1]])

\* When every request depends on one request at most, an earlier one, the
\* dependency runs first (the bundles of the test "should support order by
\* dependsOn" are nearly all of this shape).
ForestRunsInOrder ==
  stage = "arranged" /\ (\A e \in Edges(requests) :
                 e[2] < e[1] /\ \A d \in Edges(requests) : d[1] = e[1] => d = e)
    => \A e \in Edges(requests) : Before(RunOrder(groups), e[2], e[1])

\* Every request runs after the requests it depends on.
DependencyRunsFirst ==
  stage = "arranged" =>
    \A e \in Edges(requests) : Before(RunOrder(groups), e[2], e[1])
============================================================================
