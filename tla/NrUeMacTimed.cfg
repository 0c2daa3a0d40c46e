SPECIFICATION TimedSpec
CONSTANTS
    LCs = {l1, l2}
    MaxBuf = 1
    RetxBsrTimer = 3
    SrPeriod = 2
    SrOffset = 3
    HarqIds = {0, 1}
    Rntis = {1}
INVARIANTS
    NoStall
    MacInv
    NoSrWithoutRnti
    RetxHasPackets
    BoundedWait
PROPERTIES
    NoEarlySr
