SPECIFICATION RestartSpec
CONSTANTS
    H = 3
    Ids = {0, 1, 2}
    Values = {1, 2, 3}
    None = None
    InitVal <- MCInitVal
    Leader = None
    Hedged = {}
    Correct = {}
    Draws <- HighAtTwo
    MaxKicks <- MCMaxKicks
    Delivered <- RestartLinks
    Probe = 1
    MaxReissues <- MCMaxReissues
INVARIANTS
    Agreement
