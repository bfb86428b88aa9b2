SPECIFICATION MCSpec
CONSTANTS
    n0 = n0
    n1 = n1
    Nodes = {n0, n1}
    Registered = {n0}
    NoNode = none
    Schedulers = {"oblivious", "aware", "random"}
    MinDelay = 1
    MaxDelay = 1
    DropPercent = 60
    LeaderExtra = 40
    Minority = {}
    Blocked <- OneBlocked
    Tags = {t1}
    BlockedTags = {t1}
    Splits <- Apart
    Multipliers = {2}
    Delays = {0}
    MaxMessages = 2
    MaxTimers = 0
    MaxFaults = 2
INVARIANTS
    EventsInOrder
    MessageLedger
    NeverWedged
CHECK_DEADLOCK FALSE
