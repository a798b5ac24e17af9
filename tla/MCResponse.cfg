SPECIFICATION ResponseSpec
CONSTANTS
    Servers <- MCServers
    Requests <- MCRequests
    Databases <- MCDatabases
    Streams <- MCStreams
    OutHigh = 2
    ResHigh = 2
INVARIANTS
    DispatchIsLocal
    ReadsWhatIsNamed
    WritesOnce
    KeysFit
    WritesTheNamed
    SentInOrder
    NothingLost
    CountIsRight
PROPERTY EveryRequestServed
\* A response ends.
CHECK_DEADLOCK FALSE
