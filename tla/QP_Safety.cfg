SPECIFICATION Spec
CONSTANTS
    H = 3
    Ids = {0, 1, 2}
    Values = {1, 2, 3}
    None = None
    InitVal <- MCInitVal
    Leader = 0
    Hedged = {1}
    Correct = {}
    Kicked = {0, 1}
    Draws <- OwnHigh
    MaxKicks <- MCMaxKicks
    MaxStep = 7
    Delivered <- BelowMaxStep
INVARIANTS
    TypeOK
    Agreement
    OneProposalPerStep
    IInv
PROPERTIES
    ImplementsConsensus
