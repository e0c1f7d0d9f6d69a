------------------------------ MODULE MCInvites ------------------------------
(* Instances of Invites for TLC.  Requests, rows of invites, usernames and   *)
(* addresses are interchangeable.                                            *)
EXTENDS Invites, TLC

Symmetry == Permutations(Reqs) \cup Permutations(InviteIds)
            \cup Permutations(Names) \cup Permutations(Emails)
=============================================================================
