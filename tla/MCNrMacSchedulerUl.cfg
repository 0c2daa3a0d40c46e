SPECIFICATION Spec
CONSTANTS
    UEs = {u1}
    LCs = {1, 4, 5}
    LCGs = {0, 2}
    LcgOf <- MCLcgOf
    Levels = {0, 10, 40}
    TbSizes = {12, 30}
    NoBsr = NoBsr
INVARIANTS
    EstimateInv
PROPERTIES
    RecoveryKeepsEstimate
    BootstrapOnlyIfUnknown
    PendingUntilDci
    SrLeavesTrace
    GrantMakesProgress
CHECK_DEADLOCK FALSE
