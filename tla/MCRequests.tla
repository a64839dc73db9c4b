----------------------------- MODULE MCRequests -----------------------------
(* Two attempts at a time under one key.                                    *)
EXTENDS Requests, TLC

CONSTANTS w1, w2, k1, t1, t2, t3

MCWorkers == {w1, w2}
MCTokens == {t1, t2, t3}
Symmetry == Permutations(MCWorkers) \cup Permutations(MCTokens)

=============================================================================
