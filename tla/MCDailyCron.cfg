SPECIFICATION Spec
CONSTANTS
    DayLength = 3
    JobTimeout = 2
    Items = {1, 2, 3}
    CityOf <- MCCityOf
    PriceLimit = 1
    CrawlTimes = {0, 2}
    PageSize = 2
    PauseEvery = 3
    PauseAt = 2
    Pause = 1
    Totals = {3}
    SendTimes = {3}
    Subscribers = {"ann", "bob"}
    HomeOf <- MCHomeOf
    MaxAttempts = 2
    MaxTime = 3
INVARIANTS
    TypeOK
    NothingMissedButFailures
    StopsStoringAtDeadline
    SuccessfulSendReachedAll
    
PROPERTIES
    JobsEnd
\* The clock stops at MaxTime and the process may have ended.
CHECK_DEADLOCK FALSE
