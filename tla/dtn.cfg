SPECIFICATION MCFairSpec
CONSTANTS
    a = a
    b = b
    c = c
    Node <- Nodes
    Link <- Line
    Numbers <- TwoDlsas
    MaxUpdates <- OneUpdate
    MaxLosses = 1
    MaxExpire = 1
    PayloadSize = 1
    AnyAddr = AnyAddr
ACTION_CONSTRAINT OneFault
INVARIANTS Authentic Acceptable RoutesCurrent Repaired
PROPERTY ExchangeEnds
CHECK_DEADLOCK FALSE
