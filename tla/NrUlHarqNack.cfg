SPECIFICATION Spec
CONSTANTS
    UEs = {u1, u2}
    Ids = {0}
    NumHarq = 2
    MaxRv = 1
    MaxDelay = 1
    Pattern <- MCPattern
INVARIANTS
    NackBuffered
