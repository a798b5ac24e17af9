SPECIFICATION DependsSpec
CONSTANTS
  Absent = Absent
  AtomGroups <- PairBundles
INVARIANT DependencyRunsFirst
\* a bundle is arranged once
CHECK_DEADLOCK FALSE
