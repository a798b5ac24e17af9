SPECIFICATION ExpandSpec
CONSTANT Requests <- ClassesWithStudents
INVARIANT OwnExpansion
CHECK_DEADLOCK FALSE
