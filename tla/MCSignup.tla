------------------------------- MODULE MCSignup -------------------------------
(* Instances of Invites and AttemptLimiter for TLC: what a signup goes through. *)
(* The limiter is asked before and told after, and what it counts does not      *)
(* depend on what the invite was, so the two share no variable and every        *)
(* behaviour steps only one of them.                                            *)
EXTENDS Invites, AttemptLimiter, TLC

ASSUME CallersAreRequests == Callers \subseteq Reqs

VARIABLE part

\* Requests are interchangeable, those of the one part and those of the other: the
\* callers by symmetry, and which request of Invites is none of them does not matter,
\* so that it is the last to begin.
Symmetry == Permutations(Callers)

OthersBeginLast ==
    \A r \in Reqs \ Callers : pc[r] # "idle" => \A q \in Callers : pc[q] # "idle"

\* The part at rest begins in one state only.
SignupInit ==
    /\ Init /\ AttemptsInit
    /\ \/ part = "invites" /\ \A r, q \in Callers : key[r] = key[q]
       \/ part = "limiter" /\ \A n \in Names : accounts[n] = NoInvite

SignupNext ==
    \/ part = "invites" /\ Next /\ OthersBeginLast' /\ UNCHANGED <<attemptVars, part>>
    \/ part = "limiter" /\ AttemptsNext /\ UNCHANGED <<vars, part>>

SignupSpec == SignupInit /\ [][SignupNext]_<<vars, attemptVars, part>>
=============================================================================
