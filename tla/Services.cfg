SPECIFICATION PartsSpec
CONSTANTS
    t1 = t1
    t2 = t2
    y1 = y1
    y2 = y2
    sword = sword
    pet = pet
    cheap = cheap
    dear = dear
    other = other
    short = short
    long = long
    hub = hub
    market = market
    endpoint = endpoint
    page = page
    query = query
    pair = pair
    money = money
    name = name
    uuid = uuid
    r1 = r1
    r2 = r2
    u1 = u1
    b1 = b1
    p1 = p1
    p2 = p2
    p3 = p3
    Nobody = Nobody
    Keys = {short, long}
    Workers = {t1, t2}
    Window <- MCWindow
    Limit <- MCLimit
    Stores <- MCStores
    KeepWindows = 3
    Attempts = 3
    RetentionAge = 4
    MaxDelay = 1
    MaxTime = 4
    Processes = {hub, market}
    Flushers = {endpoint}
    Viewers = {page}
    ProcessOf <- MCProcessOf
    MetricRequests = {t1, t2}
    Entries = {query}
    Buckets = {"public_api"}
    BucketOf <- MCBucketOf
    LastDay = 2
    MaxFaults = 1
    Requests = {r1, r2}
    Queries = {pair}
    Finances = {money}
    AsksFor <- MCAsksFor
    PlayersOf <- MCPlayersOf
    Named = {name}
    Concurrency = 1
    Flights = {1, 2}
    PageWorkers = {t1, t2}
    Retries = 2
    ItemKeys = {sword, pet}
    Offers = {cheap, dear, other}
    ItemOf <- MCItemOf
    PriceOf <- MCPriceOf
    HouseAt <- MCHouseAt
    NoOffer = Nobody
    NoVersion = Nobody
    Uploads = {u1}
    Bundles = {b1}
    Admins = {t1, t2}
    Seconds = {1}
    MaxWork = 2
    Patterns = {p1, p2, p3}
    Contents <- MCContents
    Uploaders = {y1, y2}
    MaxRules = 2
    MaxIds = 3
    None = Nobody
INVARIANTS
    CountsAgree
    SharedFlight
    NothingStuck
    SnapshotComplete
    ArchiveComplete
    RowsHaveFiles
    RulesApply
    MatchesCounted
PROPERTIES
    ImplementsCounter
    EndsByAnswer
SYMMETRY Symmetry
CHECK_DEADLOCK FALSE
