SPECIFICATION FairSpec
CONSTANTS
    Replicas = {r1, r2, r3}
    Clients <- MCClients
    Keys = {"k"}
    Values = {1, 2}
    CatchUp = CatchUp
    ProbeKey = "k"
    Absent = Absent
    None = None
    Script <- WriteRead
    MaxSubmits <- SubmitOnce
    MaxCrashes = 1
    MaxGeneration = 2
INVARIANTS
    TypeOK
    QueuedWorkIsDriven
PROPERTIES
    OperationsComplete
CHECK_DEADLOCK FALSE
