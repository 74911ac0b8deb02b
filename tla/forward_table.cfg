SPECIFICATION MCFairSpec
CONSTANTS
    Node = {n1, n2, n3, n4}
    Me = n1
    MaxWt = 100
    Slots = 3
    Setts = {1, 3}
INVARIANTS OneEntryEach PathsAreReal NoShortcut AllReached IsShortest
PROPERTY LoopEnds
CHECK_DEADLOCK FALSE
