SPECIFICATION FairSpec
CONSTANTS
    a = a
    b = b
    t1 = t1
    t2 = t2
    NULL = NULL
    Job = {a, b}
    Thread = {t1}
    Patience = 1
    MaxLate = 1
    Faults = {}
PROPERTIES
    ShutdownEnds
CHECK_DEADLOCK FALSE
