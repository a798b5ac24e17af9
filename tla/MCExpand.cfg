SPECIFICATION ExpandSpec
CONSTANT Requests <- SeparateRequests
INVARIANT OwnExpansion
PROPERTY EveryExpandEnds
\* A response ends.
CHECK_DEADLOCK FALSE
