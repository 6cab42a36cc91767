------------------------- MODULE MCLocalCoordinator -------------------------
(* Two calling threads, two chunks, one local key. *)
EXTENDS LocalCoordinator, TLC

CONSTANTS w1, w2, r1, r2, k1

MCWorkers == {w1, w2}
MCResults == {r1, r2}
MCKeys == {k1}
MCChunks == {1, 2}

Symm == Permutations(MCWorkers) \cup Permutations(MCResults)
=============================================================================
