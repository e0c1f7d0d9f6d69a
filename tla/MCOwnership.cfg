\* Two tabs of one user; every kind of request on two cards of a set and an empty set.
SPECIFICATION Spec
CONSTANTS
    Users = {u1, u2}
    Active = {u1}
    Sets = {s1, s2}
    s1 = s1
    s2 = s2
    Cards = {c1, c2}
    c1 = c1
    c2 = c2
    SetOf <- AllInOne
    Prices = {NoPrice, p}
    NoPrice = NoPrice
    NoRow = NoRow
    Untouched = Untouched
    NoUser = NoUser
    NoSet = NoSet
    NoCard = NoCard
    Pages = {r1, r2}
    Forged = {1}
    MaxEdited = 1
    MaxNew = 1
    MaxQuantity = 2
    MaxRetries = 1
    MaxExisting = 1
    MaxCopies = 3
SYMMETRY Symmetry
INVARIANTS
    RemovedMeansEmpty
PROPERTIES
    SaveIsExact
    SavesRemoveOnlyWhatTheyRead
    GoneForGood
\* The system stops when both tabs are done.
CHECK_DEADLOCK FALSE
