SPECIFICATION MCSpec
CONSTANTS
    Visitors = {"c", "d"}
    MaxConnections = 1
    MaxBatches = 0
    MaxTime = 0
    MaxAcceptFailures = 1
    Absent = Absent
    CatchUp = CatchUp
    SelfId = a
    PeerId = b
    Splits <- OneSplit
    Capacity = 3
    MaxShift = 1
    MaxMsgs = 3
    MaxConns = 1
    MaxFaults = 2
    MaxFailures = 2
    DeadWrites = 1
    Relayed = {"c"}
    MaxCuts = 2
    MaxKills = 1
    MaxCloses = 1
INVARIANTS
    PermitsAccounted
    OneChunkAfterCut
PROPERTIES
    LinkRecovers
    HealthyPeersAnswered
    RunEnds
    ProbesAreServed
    PumpingIsTornDown
    LinkCarriesAgain
CHECK_DEADLOCK FALSE
