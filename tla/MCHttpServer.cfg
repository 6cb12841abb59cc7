SPECIFICATION FairSpec
CONSTANTS
    MaxSymbols = 13
INVARIANTS
    TypeOK
    AnsweredInOrder
PROPERTIES
    RequestIsAnswered
CHECK_DEADLOCK FALSE
