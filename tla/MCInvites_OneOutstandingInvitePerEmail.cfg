\* Two requests for one address; nothing fails.
SPECIFICATION Spec
CONSTANTS
    Emails = {e1}
    Names = {n1}
    InviteIds = {i1, i2}
    Reqs = {r1, r2, r3}
    NoInvite = NoInvite
    Seeded = Seeded
    NoName = NoName
    NoEmail = NoEmail
    Faulty = FALSE
SYMMETRY Symmetry
INVARIANT OneOutstandingInvitePerEmail
CHECK_DEADLOCK FALSE
