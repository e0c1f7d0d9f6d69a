SPECIFICATION PricesSpec
CONSTANTS
    Cards = {c1, c2}
    Urls = {tcg, other}
    Supported = {tcg}
    NoUrl = NoUrl
    NoCard = NoCard
    Clicks = {r1}
    Loop = Loop
    Capacity = 1
    Interval = 2
    MaxTime = 2
    MaxFetchAttempts = 2
    MaxPasses = 1
    Faulty = TRUE
    AllCards = {c1, c2}
    Prices = {1, 2}
    None = None
    Recorders = {r1, Loop}
    Sources = {tcg, other}
    TcgRepublic = tcg
    Day = 2
    WindowDays = 2
    MaxRows = 3
    MaxClock = 5
    OverlapRows = 2
    OverlapClock = 1
INVARIANTS
    RequestsPaid
    OkMeansChecked
    BucketBound
    MarketShowsCurrentCheck
    TrendsUseLastChecks
    MoversAgreeWithTrends
    NamelessMeansDeleted
PROPERTIES
    PassTriesEveryUrl
    EverySyncEnds
\* The system stops when the bounds are reached.
CHECK_DEADLOCK FALSE
