SPECIFICATION MCSpec
CONSTANTS
    Visitors = {"c"}
    MaxConnections = 1
    MaxBatches = 2
    MaxTime = 1
    MaxAcceptFailures = 1
    Clients = {"s", "t"}
    Keys = {"k"}
    ProbeKey = "k"
    Values = {1, 2, 3}
    NumAddrs = 2
    ReliableSets = {{}}
    MaxRounds = 1
    Kinds = {"put"}
    OpenLoop = FALSE
    Admission = 1
    Target = 2
    MaxOps = 3
    MaxDowns = 0
    Absent = Absent
    CatchUp = CatchUp
    Peers = {"p"}
    Healthy = {"p"}
    Self = "self"
    ClientOps = {"o"}
    NoOp = "none"
    BatchLimit = 2
    QueueCapacity = 1
    MaxVersion = 2
    MaxTick = 1
    MaxInbox = 2
    MaxCrashes = 2
    n1 = n1
    n2 = n2
    n3 = n3
    SelfId = n1
    PeerId = n2
    Splits <- ThreeWaySplits
    Capacity = 2
    MaxShift = 1
    MaxMsgs = 3
    MaxConns = 2
    MaxFaults = 2
    MaxFailures = 2
    DeadWrites = 1
INVARIANTS
    AnsweredIsDurable
    RejoinIsReported
    LinkIsAccounted
    SubmissionsHold
PROPERTIES
    DurableTickMonotone
CHECK_DEADLOCK FALSE
