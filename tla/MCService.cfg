SPECIFICATION ServiceSpec
CONSTANTS
    None = None
    Filters <- MCFilters
    Model <- MCModel
    Hooks <- MCHooks
    Bodies <- MCBodies
    Scenarios <- MCScenarios
INVARIANTS
    FindIsFaithful
    RefusedIffInvalid
    HooksInOrder
    LinkedWhenReturned
PROPERTY EveryCallSettles
\* Every call ends.
CHECK_DEADLOCK FALSE
