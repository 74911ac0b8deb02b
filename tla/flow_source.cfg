SPECIFICATION Spec
CONSTANTS
    Node = {n1, n2, n3}
    NFlows = 2
    MaxTicks = 0
    MaxChunks = 2
INVARIANT OwnSource
CHECK_DEADLOCK FALSE
