SPECIFICATION Spec
CONSTANTS
    H = 2
    Ids = {0, 1, 2}
    Values = {1, 2, 3}
    None = None
    InitVal <- MCInitVal
    Priorities = {1, 2}
    MaxRounds = 2
INVARIANTS
    CruxInvariant
    AInv
PROPERTIES
    ImplementsConsensus
CHECK_DEADLOCK FALSE
