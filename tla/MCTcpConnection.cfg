SPECIFICATION FairSpec
CONSTANTS
    MaxBytes = 3
    MaxMessages = 1
INVARIANTS
    TypeOK
    InterestExact
PROPERTIES
    ImplementsConnection
    GracefulShutdown
    OverIsDestroyed
CHECK_DEADLOCK FALSE
