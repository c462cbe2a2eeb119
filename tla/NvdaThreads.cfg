SPECIFICATION FairSpec
CONSTANTS
    MaxRequests = 3
    MaxChunks = 2
    MaxPauses = 2
    Room = 2
    Indexes <- MixedIndexes
INVARIANTS
    NothingLeftWaiting
    AtMostOneLate
    InOrder
PROPERTIES
    EveryRequestEnds
    TerminateEnds
CHECK_DEADLOCK FALSE
