SPECIFICATION FairSpec
CONSTANTS
    a = a
    b = b
    t1 = t1
    t2 = t2
    NULL = NULL
    Job = {a}
    Thread = {t1, t2}
    Patience = 1
    MaxLate = 1
    Faults = {"lost", "error"}
INVARIANTS
    TypeOK
    CapacityRespected
    KeepsItsJobs
PROPERTIES
    LeftoversComeBack
    FreeShutdownEnds
    HeartbeatsGoOn
CHECK_DEADLOCK FALSE
