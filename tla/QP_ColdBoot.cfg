SPECIFICATION ColdBootSpec
CONSTANTS
    H = 3
    Ids = {0, 1, 2}
    Values = {1, 2, 3}
    None = None
    InitVal <- MCInitVal
    Leader = 0
    Hedged = {}
    Correct = {}
    Draws <- LowDraws
    MaxKicks <- MCMaxKicks
    Delivered <- Links
    NextVal <- MCNextVal
    MayColdBoot = {0}
INVARIANTS
    Agreement
