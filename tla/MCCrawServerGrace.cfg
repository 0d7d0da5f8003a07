SPECIFICATION Spec
CONSTANTS
    Callbacks = {"redis", "cron", "main"}
    Requests = {r1, r2}
    MaxFaults = 1
INVARIANT
    RequestsGetTheirGrace
\* A process that has exited does nothing more.
CHECK_DEADLOCK FALSE
