SPECIFICATION TxFairSpec
CONSTANTS
    Sizes = {1, 2, 6}
    Opportunities = {2, 3, 5, 8, 12}
    MaxTxBufferSize = 9
    LiMax = 4
    MaxSdus = 4
INVARIANTS
    QueueInv
PROPERTIES
    FitsOpportunity
    MacLearns
    Framed
