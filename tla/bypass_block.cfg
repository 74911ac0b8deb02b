SPECIFICATION FairSpec
CONSTANTS
    N = 5
    K = 3
    Bd <- BlockTable
    MaxDataLosses = 2
    MaxAckLosses = 1
    MaxEarly = 2
INVARIANTS NoFatal AckIsForCurrent NothingForgotten
PROPERTIES InSequence AllDelivered
CHECK_DEADLOCK FALSE
