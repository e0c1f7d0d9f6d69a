\* One click on a page of one card, whose check fails to be recorded.
SPECIFICATION Spec
CONSTANTS
    Cards = {c1}
    Urls = {tcg}
    Supported = {tcg}
    NoUrl = NoUrl
    NoCard = NoCard
    Clicks = {r1}
    Loop = Loop
    Capacity = 1
    Interval = 2
    MaxTime = 2
    MaxFetchAttempts = 2
    MaxPasses = 1
    Faulty = TRUE
INVARIANT RefreshUpdatesEveryCard
CHECK_DEADLOCK FALSE
