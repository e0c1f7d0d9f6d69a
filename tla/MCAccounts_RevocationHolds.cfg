\* Nothing fails: the disagreement comes from the interleaving alone.
SPECIFICATION Spec
CONSTANTS
    Users = {u1}
    SessionIds = {s1, s2, s3}
    ResetIds = {t1}
    Reqs = {r1, r2, r3, r4}
    NoUser = NoUser
    NoSession = NoSession
    NoReset = NoReset
    Faulty = FALSE
SYMMETRY Symmetry
INVARIANT RevocationHolds
CHECK_DEADLOCK FALSE
