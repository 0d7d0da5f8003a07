\* Two jobs, one of a kind nobody handles, two workers; due steps are taken before time passes.
CONSTANTS
    w1 = w1
    w2 = w2
    k1 = k1
    k2 = k2
    Keys = {k1, k2}
    Workers = {w1, w2}
    NoWorker = NoWorker
    MaxMaxAttempts = 10
    MaxShutdownGrace = 1
    BaseRetryDelay = 1
    MaxRetryDelay = 60
    Registered = {k1}
    Lease = 3
    Limit <- TwoForW2
    Backoff <- MCBackoff
    Skew <- NoSkew
    MaxSkew = 0
    MaxClaimLatency = 1
    LateWrites = FALSE
    Urgent = TRUE
    AttemptLimits = {0, 2, 11}
    RunTimes = {0}
    LastEnqueue = 0
    MaxDisruptions = 1
    MaxTime = 12
\* The clock stops at MaxTime, and with it the workers that have nothing to do.
CHECK_DEADLOCK FALSE
SPECIFICATION FairSpec
PROPERTIES
    EventuallySettled
    ShutdownEnds
    ImplementsLifecycle
