\* Two accounts, four requests; every statement, email and client may fail.
SPECIFICATION Spec
CONSTANTS
    Users = {u1, u2}
    SessionIds = {s1, s2, s3}
    ResetIds = {t1, t2}
    Reqs = {r1, r2, r3, r4}
    NoUser = NoUser
    NoSession = NoSession
    NoReset = NoReset
    Faulty = TRUE
SYMMETRY Symmetry
INVARIANTS
    LateSessionsOnly
    OnlyLatestLinkWorks
    ResetTokenActsOnce
\* The system stops when every request has been served.
CHECK_DEADLOCK FALSE
