SPECIFICATION FairSpec
CONSTANTS
    a = a
    b = b
    c = c
    w1 = w1
    w2 = w2
    s1 = s1
    s2 = s2
    s3 = s3
    h1 = h1
    h2 = h2
    q1 = q1
    k1 = k1
    NULL = NULL
    Job = {a}
    Worker = {w1, w2}
    Slot = {s1, s2}
    WorkerOf <- OwnWorker
    Serves <- ServesAll
    Handler = {h1, h2}
    Queue = {q1}
    QueueOf <- OneQueue
    Priority <- SamePriority
    RetryLimit <- OneAttempt
    DependsOn <- Independent
    Delayed = {}
    Key <- NoKeys
    Preloaded = {a}
    Limits = {2}
    Ops = {}
    Faults = {"silence"}
    Mortal = {w1}
    MaxClaims = 2
PROPERTIES
    NothingStaysActive
