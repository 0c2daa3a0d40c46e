SPECIFICATION Spec
CONSTANTS
    MaxBuf = 1
    RetxBsrTimer = 2
    SrPeriod = 0
    SrOffset = 0
    HarqIds = {0, 1}
    NoBsr = NoBsr
PROPERTIES
    
    GrantsStop
