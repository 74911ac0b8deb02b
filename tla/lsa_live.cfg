SPECIFICATION FairSpec
CONSTANTS
    a = a
    b = b
    c = c
    AnyAddr = AnyAddr
    PayloadSize = 2
    Node <- Nodes
    Link <- Line
    MaxLsa <- OneOfAC
    MaxLosses = 1
    MaxEarly = 1
    MaxExpire = 1
ACTION_CONSTRAINT OneFault
INVARIANTS WireFormats DataLeavesRetries
PROPERTIES Converges FloodEnds
