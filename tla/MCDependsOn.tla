---------------------------- MODULE MCDependsOn ----------------------------
EXTENDS DependsOnCases

Req(id, deps) == [id |-> id, dependsOn |-> deps]

\* Up to two dependencies, also on oneself or on nobody in the group.
Dependencies(ids) ==
  {Absent} \cup {{a, b} : a, b \in ids} \cup {{}, {9}}

\* Two and three requests in any order, possibly with one id twice.
SmallBundles ==
  UNION {[1..n -> {Req(id, deps) : id \in 0..2, deps \in {Absent, {}, {0}, {1}, {2},
                                                          {0, 1}, {0, 2}, {9}}}] :
           n \in 2..3}

\* Four requests in ascending order of their ids.
FourRequests ==
  {[i \in 1..4 |-> Req(i - 1, deps[i])] : deps \in [1..4 -> Dependencies(0..3)]}

MCBundles == SmallBundles \cup FourRequests

\* Two requests and no faults in the bundle.
PairBundles ==
  [1..2 -> {Req(id, deps) : id \in 0..1, deps \in {Absent, {0}, {1}}}]
============================================================================
