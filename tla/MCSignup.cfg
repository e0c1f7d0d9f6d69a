\* One address asked for twice, two usernames, six requests or CLI runs; and of the
\* limiter two keys, five requests, two failures to a lockout that can outlive the
\* window it began in, and time for a second window.
SPECIFICATION SignupSpec
CONSTANTS
    Emails = {e1}
    Names = {n1, n2}
    InviteIds = {i1, i2}
    Reqs = {r1, r2, r3, r4, r5, r6}
    NoInvite = NoInvite
    Seeded = Seeded
    NoName = NoName
    NoEmail = NoEmail
    Faulty = TRUE
    Keys = {k1, k2}
    Callers = {r1, r2, r3, r4, r5}
    MaxFailed = 2
    Window = 3
    Duration = 2
    MaxTime = 7
SYMMETRY Symmetry
INVARIANTS
    AuditTrailTruthful
    LockoutEarned
    CountExact
PROPERTIES
    ImplementsLifecycle
    SweepBoundsMap
\* The system stops when every request has been served, or the clock runs out.
CHECK_DEADLOCK FALSE
