SPECIFICATION Spec
CONSTANTS
    UEs = {u1, u2}
    Ids = {0}
    NumHarq = 2
    MaxRv = 2
    MaxDelay = 2
    Pattern <- MCPattern
INVARIANTS
    FeedbackInv
PROPERTIES
    NotOvertaken
    NackKeepsTb
    TbLeaves
