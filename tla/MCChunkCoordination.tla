------------------------ MODULE MCChunkCoordination ------------------------
(* Two workers, two chunks and two possible results per chunk. *)
EXTENDS ChunkCoordination, TLC

CONSTANTS c1, c2, w1, w2, r1, r2

MCChunks == {c1, c2}
MCWorkers == {w1, w2}
MCResults == {r1, r2}

Symm == Permutations(MCChunks) \cup Permutations(MCWorkers) \cup Permutations(MCResults)
=============================================================================
