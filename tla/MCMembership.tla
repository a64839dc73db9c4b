---------------------------- MODULE MCMembership ----------------------------
(* Membership of a house of two users, where two requests may overlap.       *)
EXTENDS Membership, TLC

CONSTANTS u1, u2, w1, w2

MCUsers == {u1, u2}
MCWorkers == {w1, w2}
Symmetry == Permutations(MCUsers) \cup Permutations(MCWorkers)

\* No steps from where two rows have been written over.
FewOverwritten == Cardinality(overwritten) <= 1

=============================================================================
