------------------------- MODULE MCFinalizationLane -------------------------
(* Small instances of FinalizationLane: two contributors, two executor-backed
   phases and two competing finalizers on a lane opened for parent r0. *)
EXTENDS FinalizationLane, TLC

CONSTANTS w1, w2, p1, p2, f1, f2, r0, r1

MCWorkers == {w1, w2}
MCPhases == {p1, p2}
MCFinalizers == {f1, f2}
MCRoots == {r0, r1}

(* Threads of one kind are interchangeable. *)
Symm == Permutations(MCWorkers) \cup Permutations(MCPhases) \cup Permutations(MCFinalizers)
=============================================================================
