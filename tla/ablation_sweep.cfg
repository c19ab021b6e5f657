SPECIFICATION FairSpec
CONSTANTS
    p1 = p1
    p2 = p2
    Pairs <- MCPairs
    Sweep <- MCSweep
    Backends <- MCBackends
    Rounds = 2
    MaxFaults = 1
    Warmup = 1
    RunsAsked = {0, 2, 3}
    WallTimes <- MCWallTimes
INVARIANTS
    TypeOK
    OkMeansEchoed
    OneRowEach
    MedianOfAllRuns
PROPERTIES
    FailuresReachBothSides
    SweepEnds
CHECK_DEADLOCK FALSE
