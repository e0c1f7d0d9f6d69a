\* One request, its approval and an email that fails.
SPECIFICATION Spec
CONSTANTS
    Emails = {e1}
    Names = {n1}
    InviteIds = {i1}
    Reqs = {r1, r2}
    NoInvite = NoInvite
    Seeded = Seeded
    NoName = NoName
    NoEmail = NoEmail
    Faulty = TRUE
SYMMETRY Symmetry
INVARIANT FailedMailLeavesLink
CHECK_DEADLOCK FALSE
