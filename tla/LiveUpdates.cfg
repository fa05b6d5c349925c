SPECIFICATION FairSpec
CONSTANTS
    c1 = c1
    c2 = c2
    c3 = c3
    c4 = c4
    NULL = NULL
    Client = {c1, c2, c3, c4}
INVARIANTS
    TypeOK
    NobodyTwice
    OneSkipPerRemoval
PROPERTIES
    EveryoneServed
    ClosedAreRemoved
CHECK_DEADLOCK FALSE
