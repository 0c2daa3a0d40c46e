SPECIFICATION TbFairSpec
CONSTANTS
    N = 2
    Am = {2}
    Tbs = {12, 26}
    Sizes = {30}
    RetxSizes = {9}
    StatusLcs = {2}
    Unacked = {0, 9}
    MaxShort = 20
INVARIANTS
    BlockInv
PROPERTIES
    NotWasted
    Drains
