SPECIFICATION FairSpec
CONSTANTS
    N = 4
    K = 2
    Bd <- HopTable
    MaxDataLosses = 0
    MaxAckLosses = 1
    MaxEarly = 0
PROPERTY BlockDestinationAcks
CHECK_DEADLOCK FALSE
