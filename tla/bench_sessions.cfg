SPECIFICATION FairSpec
CONSTANTS
    p1 = p1
    p2 = p2
    Pairs <- MCPairs
    Rounds = 2
    MaxFaults = 2
INVARIANTS
    TypeOK
    NoCallbackAfterDestroy
    TeardownAfterEcho
    AcceptorOutlives
PROPERTIES
    PromiseSetOnce
    BenchEnds
CHECK_DEADLOCK FALSE
