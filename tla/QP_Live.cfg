SPECIFICATION FairSpec
CONSTANTS
    H = 3
    Ids = {0, 1, 2}
    Values = {1, 2, 3}
    None = None
    InitVal <- MCInitVal
    Leader = None
    Hedged = {1}
    Correct = {1, 2}
    Kicked = {0, 1}
    Draws <- OwnHigh
    MaxKicks <- MCMaxKicks
    MaxStep = 8
    Delivered <- CrashLinks
INVARIANTS
    DecisionLocks
PROPERTIES
    Termination
