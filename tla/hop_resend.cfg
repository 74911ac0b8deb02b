SPECIFICATION Spec
CONSTANTS
    N = 3
    C = 1
    P = 2
    MaxLosses = 2
    MaxEarly = 0
INVARIANT MissingIsResent
CHECK_DEADLOCK FALSE
