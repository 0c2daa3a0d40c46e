SPECIFICATION Spec
CONSTANTS
    UEs = {u1}
    LCs = {1, 4}
    LCGs = {0, 2}
    LcgOf <- MCLcgOf
    Levels = {0, 40}
    TbSizes = {12}
    NoBsr = NoBsr
INVARIANTS
    NoAbort
CHECK_DEADLOCK FALSE
