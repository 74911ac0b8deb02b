SPECIFICATION Spec
CONSTANTS
    a = a
    b = b
    c = c
    AnyAddr = AnyAddr
    PayloadSize = 2
    Node <- Nodes
    Link <- Line
    MaxLsa <- TwoOfB
    MaxLosses = 1
    MaxEarly = 1
    MaxExpire = 1
ACTION_CONSTRAINT TwoFaults
INVARIANTS Authentic ReliableFlood RouteCurrent
