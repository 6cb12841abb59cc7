SPECIFICATION FairSpec
CONSTANTS
    MaxThreads = 2
    MaxConns = 2
INVARIANTS
    TypeOK
    TableExact
    ServerOutlivesUse
PROPERTIES
    EstablishedFirst
    ClosedIsDestroyed
    AcceptedInTheEnd
    CallsReturn
CHECK_DEADLOCK FALSE
