\* One job, two workers whose clocks differ, ticks of 30s, one disruption.
CONSTANTS
    w1 = w1
    w2 = w2
    k1 = k1
    k2 = k2
    Keys = {k1}
    Workers = {w1, w2}
    NoWorker = NoWorker
    MaxMaxAttempts = 10
    MaxShutdownGrace = 1
    BaseRetryDelay = 2
    MaxRetryDelay = 120
    Registered = {k1}
    Lease = 10
    Limit <- OneEach
    Backoff <- MCBackoff
    Skew <- SkewedW2
    MaxSkew = 1
    MaxClaimLatency = 1
    LateWrites = FALSE
    Urgent = FALSE
    AttemptLimits = {0, 2, 11}
    RunTimes = {0}
    LastEnqueue = 0
    MaxDisruptions = 1
    MaxTime = 13
SPECIFICATION Spec
INVARIANTS
    TypeOK
    OneLiveHandler
    TimeoutInsideLease
    RetryDelayIsCappedShift
    NoStrandedPending
