---------------------------- MODULE MCOwnership ----------------------------
(* Instances of Ownership for TLC: the cards are all in the first of the sets. *)
EXTENDS Ownership, TLC

CONSTANTS s1, s2, c1, c2
AllInOne == [c \in {c1, c2} |-> s1]
Symmetry == Permutations(Pages) \cup Permutations(Cards)
=============================================================================
