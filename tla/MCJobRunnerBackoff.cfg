\* The default configuration, in ticks of a minute.
CONSTANTS
    w1 = w1
    w2 = w2
    k1 = k1
    k2 = k2
    Keys = {k1}
    Workers = {w1, w2}
    NoWorker = NoWorker
    MaxMaxAttempts = 10
    MaxShutdownGrace = 1
    BaseRetryDelay = 1
    MaxRetryDelay = 60
    Registered = {k1}
    Lease = 5
    Limit <- OneEach
    Backoff <- MCBackoff
    Skew <- NoSkew
    MaxSkew = 0
    MaxClaimLatency = 1
    LateWrites = FALSE
    Urgent = FALSE
    AttemptLimits = {0, 2, 11}
    RunTimes = {0}
    LastEnqueue = 0
    MaxDisruptions = 1
    MaxTime = 6
SPECIFICATION Spec
PROPERTY RetryBacksOff
