SPECIFICATION Spec
CONSTANTS
    a = a
    b = b
    c = c
    w1 = w1
    w2 = w2
    s1 = s1
    s2 = s2
    s3 = s3
    h1 = h1
    h2 = h2
    q1 = q1
    k1 = k1
    NULL = NULL
    Job = {a, b, c}
    Worker = {w1, w2}
    Slot = {s1, s2, s3}
    WorkerOf <- OwnWorker
    Serves <- ServesAll
    Handler = {h1, h2}
    Queue = {q1}
    QueueOf <- OneQueue
    Priority <- SamePriority
    RetryLimit <- OnlyA
    DependsOn <- Independent
    Delayed = {b, c}
    Key <- NoKeys
    Preloaded = {a}
    Limits = {0, 1}
    Ops = {"create"}
    Faults = {"db_error"}
    Mortal = {w1}
    MaxClaims = 3
SYMMETRY FleetSymmetry
INVARIANTS
    RunnerOwnsJob
    ClaimsWithinBudget
    LimitOvershoot
    OneExecutionPerAttempt
    DeadIsExplained
    NoExecutionLeftOpen
PROPERTIES
    ImplementsContract
