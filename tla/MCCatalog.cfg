\* Two commands, of any kind, over two sets and two codes; the source of the one model changes once.
CONSTANTS
    n1 = n1
    n2 = n2
    a = a
    b = b
    t1 = t1
    t2 = t2
    m1 = m1
    None = None
    MaxSets = 3
    Names = {n1, n2}
    Codes = {a, b}
    Texts = {t1, t2}
    Models = {m1}
    Jobs = {j1, j2}
    Commands <- MCCommands
    NewestPart = 2
    Clips = 1
    Pictured = {b}
    MaxOwned = 1
    MaxRuns = 2
SPECIFICATION Spec
INVARIANTS
    TypeOK
    FinishedMatchesCommand
    ListedCardsKeepIds
    OneSetPerName
    ModelsWhole
PROPERTIES
    OwnedCardsStay
SYMMETRY JobSymmetry
\* The system stops when the bounds are reached.
CHECK_DEADLOCK FALSE
