SPECIFICATION MCSpec
CONSTANTS
    Replicas = {"r1", "r2", "r3"}
    Every = 2
    Ring = 1
    MaxLog = 2
    Source = "chain"
    Divergent = {"r3"}
    Forgetful = {"r2"}
    MaxTime = 1
    Budget = 0
    MaxCommands = 2
    MaxStops = 1
INVARIANTS
    PublishedIsTrue
    VerdictIsExact
CHECK_DEADLOCK FALSE
