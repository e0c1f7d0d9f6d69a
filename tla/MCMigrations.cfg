\* Two processes and one crash over seven files and their reversals.
SPECIFICATION Spec
CONSTANTS
    Runners = {p1, p2}
    Things <- MCThings
    Refers <- MCRefers
    Up <- MCUp
    Down <- MCDown
    Seeds <- MCSeeds
    Clear = Clear
    Forbidden = Forbidden
    Releases = {4, 7}
    MaxKills = 1
INVARIANTS
    AheadByOne
    DuplicatesNeedALoss
    DownEmpties
PROPERTIES
    EventuallyMigrated
