SPECIFICATION Spec
CONSTANTS
    Node = {n1, n2, n3}
    NFlows = 3
    MaxTicks = 1
    MaxChunks = 2
INVARIANTS NoFatal SelectionEnds
CHECK_DEADLOCK FALSE
SYMMETRY Symmetry
