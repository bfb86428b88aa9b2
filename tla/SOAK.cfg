SPECIFICATION MCSpec
CONSTANTS
    N = 3
    Duration = 11
    Step = 2
    Jitter = 2
    MinFault = 4
    MaxFault = 4
    MinGap = 1
    MaxGap = 3
    Latencies = {1, 2}
    Kinds = {"crash", "latency"}
    MaxFaults = 3
    MaxOffers = 0
    MaxInflight = 2
    Replicas = {"r1", "r2"}
    MaxLog = 2
    MaxForks = 1
    MaxTears = 1
    MaxKills = 1
INVARIANTS
    FaultsAreContained
    AccountIsTrue
    AdjudicationIsSound
CHECK_DEADLOCK FALSE
