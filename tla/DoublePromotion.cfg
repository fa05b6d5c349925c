SPECIFICATION Spec
CONSTANTS
    a = a
    b = b
    c = c
    w1 = w1
    w2 = w2
    s1 = s1
    s2 = s2
    h1 = h1
    h2 = h2
    q1 = q1
    NULL = NULL
    Job = {a, b, c}
    Worker = {w1}
    Slot = {s1, s2}
    WorkerOf <- OneWorker
    Serves <- ServesAll
    Handler = {h1, h2}
    Queue = {q1}
    QueueOf <- OneQueue
    Priority <- SamePriority
    RetryLimit <- OneAttempt
    DependsOn <- Join
    Delayed = {}
    Key <- NoKeys
    Preloaded = {a, b, c}
    Limits = {2}
    Ops = {}
    Faults = {}
    Mortal = {}
    MaxClaims = 2
INVARIANTS
    SoleRunner
