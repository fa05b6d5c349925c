SPECIFICATION FairSpec
CONSTANTS
    i1 = i1
    i2 = i2
    r1 = r1
    r2 = r2
    NULL = NULL
    Instance = {i1, i2}
    Schedule = {r1, r2}
    NextAfter <- EverySo
    Lease = 2
    Prompt = TRUE
    MaxTime = 5
    LastFault = 2
    Mortal = {i1}
INVARIANTS
    TypeInv
    LeadersAreAlone
PROPERTIES
    ImplementsCron
    DueHandled
    TakenOver
