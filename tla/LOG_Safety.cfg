SPECIFICATION MCSpec
CONSTANTS
    Replicas = {r1, r2}
    Clients <- MCClients
    Keys = {"k"}
    Values = {1, 2}
    CatchUp = CatchUp
    ProbeKey = "k"
    Absent = Absent
    None = None
    N = 3
    EpochLen = 2
    BaseDelay = 3
    Latencies = {1, 2}
    MaxSlot = 18
    MaxFalls = 1
    NoLeader = NoLeader
    Never = Never
    Script <- WriteTwiceRead
    MaxSubmits <- RetryWrites
    MaxCrashes = 0
    MaxGeneration = 3
INVARIANTS
    KvIsReplay
    Linearizable
    LeadersArePinned
    FastestReplicaLeads
    CheckerExact
SYMMETRY Symmetry
CHECK_DEADLOCK FALSE
