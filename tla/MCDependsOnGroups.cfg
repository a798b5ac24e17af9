SPECIFICATION DependsSpec
CONSTANTS
  Absent = Absent
  AtomGroups <- MCBundles
INVARIANTS
  EachRunsOnce
  GroupsAreIndependent
  RefusedIffNoOrder
  ForestRunsInOrder
\* a bundle is arranged once
CHECK_DEADLOCK FALSE
