-------------------------- MODULE InviteLifecycle --------------------------
(***************************************************************************)
(* What the invites table promises (migration 20260902_14, "the full state *)
(* machine"): an invite is requested, then approved or denied, an approved *)
(* one is redeemed, and a redeemed invite lets one account come into being *)
(* at most.  No account appears any other way.                             *)
(***************************************************************************)
CONSTANTS InviteIds, Names, NoInvite

VARIABLES
    status,  \* of each invite; "none" before it is requested
    owner    \* the invite each username's account was created with

lifecycle == <<status, owner>>

\* Status i goes from one state of the machine to the next.
Move(i, from, to) ==
    /\ status[i] = from
    /\ status' = [status EXCEPT ![i] = to]
    /\ UNCHANGED owner

Join(i, n) ==
    /\ status[i] = "redeemed"
    /\ owner[n] = NoInvite
    /\ \A m \in Names : owner[m] # i
    /\ owner' = [owner EXCEPT ![n] = i]
    /\ UNCHANGED status

LifecycleInit ==
    /\ status = [i \in InviteIds |-> "none"]
    /\ \A n \in Names : owner[n] \notin InviteIds

LifecycleNext ==
    \E i \in InviteIds :
        \/ Move(i, "none", "requested")
        \/ Move(i, "requested", "approved")
        \/ Move(i, "requested", "denied")
        \/ Move(i, "approved", "redeemed")
        \/ \E n \in Names : Join(i, n)

LifecycleSpec == LifecycleInit /\ [][LifecycleNext]_lifecycle

=============================================================================
