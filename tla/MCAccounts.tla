----------------------------- MODULE MCAccounts -----------------------------
(* Instances of Accounts for TLC.  Requests, session tokens and reset       *)
(* tokens are interchangeable, so permuting them is a symmetry; no liveness *)
(* property is checked under it.                                            *)
EXTENDS Accounts, TLC

Symmetry == Permutations(Reqs) \cup Permutations(SessionIds)
            \cup Permutations(ResetIds) \cup Permutations(Users)
=============================================================================
