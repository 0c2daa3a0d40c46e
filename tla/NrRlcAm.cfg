SPECIFICATION FairSpec
CONSTANTS
    M = 4
    W = 2
    NackRoom = {1}
    Overtakes = FALSE
    LateRetx = TRUE
    MaxSdus = 4
    MaxAir = 2
INVARIANTS
    EntityInv
    
PROPERTIES
    ServiceSpec
CHECK_DEADLOCK FALSE
