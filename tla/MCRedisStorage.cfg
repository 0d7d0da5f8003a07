SPECIFICATION Spec
CONSTANTS
    Clients = {"c1", "c2"}
    HandleOf <- MCHandleOf
    StringKeys <- MCStringKeys
    Workloads <- MCWorkloads
    Switched <- MCSwitched
    Ttl = 1
    ListExpiries <- MCListExpiries
    MaxTime = 2
    MaxCalls <- MCMaxCalls
    MaxFailures = 1
    MaxOutages = 2
    MaxSwitches = 2
INVARIANTS
    TypeOK
    AnswersMatch
    CounterHasDeadline
    DrainedOnce
    WindowKeepsHits
PROPERTIES
    StatusFollowsRedis
\* The clients may have made all their calls.
CHECK_DEADLOCK FALSE
