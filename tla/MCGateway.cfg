\* Two migrators with two runs each, two open requests, two signals, two failures.
CONSTANTS
    m1 = m1
    m2 = m2
    r1 = r1
    r2 = r2
    Migrators = {m1, m2}
    NoMigrator = NoMigrator
    History <- MCHistory
    BuildLength <- MCBuildLength
    RequiredLength = 2
    Requests = {r1, r2}
    MaxRuns = 2
    MaxFailures = 2
    MaxSignals = 2
    Texts <- MCTexts
    Number <- MCNumber
    Duration <- MCDuration
    Environments <- MCEnvironments
SPECIFICATION FairSpec
INVARIANTS
    TypeOK
    CleanExitIsClean
PROPERTIES
    ImplementsSchemaVersion
    GateFindsItsSchema
    MigratorsEnd
    SignalledExits
\* Migrators and gateway may have done all their runs.
CHECK_DEADLOCK FALSE
