SPECIFICATION Spec
CONSTANTS
    N = 3
    C = 2
    P = 2
    MaxLosses = 2
    MaxEarly = 1
ACTION_CONSTRAINT OneKindOfFault
INVARIANTS TypeOK InBounds Custody RetryPending WrittenWasCarried
PROPERTY Implements
CHECK_DEADLOCK FALSE
