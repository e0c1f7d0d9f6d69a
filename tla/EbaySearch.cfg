\* Three cards for two places in the cache, two requests at a time.
SPECIFICATION FairSpec
CONSTANTS
    Requests = {r1, r2}
    Cards = {c1, c2, c3}
    NoCard = NoCard
    NoOne = NoOne
    Capacity = 2
    TTL = 1
    Timeout = 1
    Patience = 2
    Buffer = 2
    Life = 3
    MaxTime = 4
INVARIANTS
    CacheAgrees
    AnswersFresh
    TokenOutlivesSearch
PROPERTIES
    EvictsLeastRecent
    RequestsEnd
\* The system stops when the bounds are reached.
CHECK_DEADLOCK FALSE
