SPECIFICATION FairSpec
CONSTANTS
    M = 7
    W = 4
    Lag = 3
    Gap = 2
    MaxRun = 1
    MaxPdus = 8
    MaxPieces = 2
    MaxSegs = 3
INVARIANTS
    WindowInv
    DeliversWhole
    InOrder

    
CHECK_DEADLOCK FALSE
