SPECIFICATION FairSpec
CONSTANTS
    N = 4
    C = 3
    P = 2
    MaxLosses = 2
    MaxEarly = 0
ACTION_CONSTRAINT SourceLoses
INVARIANTS OneChunkAtATime WrittenWholeInOrder NoneTwice
PROPERTY AllWritten
CHECK_DEADLOCK FALSE
