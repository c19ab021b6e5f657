SPECIFICATION FairSpec
CONSTANTS
    p1 = p1
    p2 = p2
    Pairs <- MCPairs
    Sweep <- MCSweep
    Backends <- MCBackends
    WallTimes <- MCWallTimes
    Rounds = 1
    MaxFaults = 1
    Warmup = 0
    RunsAsked = {3}
PROPERTY
    RowForEach
CHECK_DEADLOCK FALSE
