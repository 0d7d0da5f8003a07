SPECIFICATION Spec
CONSTANTS
    SpikePercent = 50
    SpikeAbsolute = 2
    DropPercent = 40
    DropAbsolute = 1
    VolatileCV = 50
    MinHistory = 2
    Historians = {"none", "memory", "mock", "store"}
    Writers = {1, 2}
    PriceValues <- MCPriceValues
    KeepDays = 2
    Feeds <- MCFeeds
    Interval = 1
    Window = 2
    Recipients = TRUE
    MaxTime = 4
INVARIANTS
    TypeOK
    FloodControl
    HistoryServesSaves
\* The clock stops at MaxTime and the engine may have been stopped.
CHECK_DEADLOCK FALSE
