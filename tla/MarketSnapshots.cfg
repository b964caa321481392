SPECIFICATION Spec
CONSTANTS
    p1 = p1
    Processes = {p1, p2}
    Requests = {r1}
    Home <- InFirst
    NoProcess = NoProcess
    CacheTtl = 1
    StaleLimit = 2
    LocalTtl = 1
    RedisTtl = 1
    DayLength = 1
    Retention = 3
    Window = 2
    Patience = 1
    MaxTime = 5
INVARIANTS
    LedgerExact
    WindowKept
    AnswersWereCounted
    AnswersAreRecent
    RequestsFindSnapshot
PROPERTIES
    StoredAdvances
