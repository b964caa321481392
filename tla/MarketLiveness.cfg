SPECIFICATION FairSpec
CONSTANTS
    p1 = p1
    Processes = {p1}
    Requests = {r1, r2}
    Home <- InFirst
    NoProcess = NoProcess
    CacheTtl = 1
    StaleLimit = 2
    LocalTtl = 1
    RedisTtl = 1
    DayLength = 1
    Retention = 3
    Window = 1
    Patience = 1
    MaxTime = 3
INVARIANTS
    NoRepeatedFetch
PROPERTIES
    RequestAnswered
    RefresherLives
