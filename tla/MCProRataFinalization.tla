------------------------ MODULE MCProRataFinalization ------------------------
(* Two processes and the orderings that exercise every check of the store: a
   first publication, a proper second one, one whose state does not
   join its predecessor's, and one whose commit index skips a position. *)
EXTENDS ProRataFinalization, TLC

CONSTANTS p1, p2

MCProcs == {p1, p2}

MCOrderings == {"a", "b", "c", "gap"}

MCBody ==
  "a"   :> [prev |-> NoValue, before |-> "s0", after |-> "s1", index |-> 1] @@
  "b"   :> [prev |-> "a",     before |-> "s1", after |-> "s2", index |-> 2] @@
  "c"   :> [prev |-> "a",     before |-> "s0", after |-> "s3", index |-> 2] @@
  "gap" :> [prev |-> "a",     before |-> "s1", after |-> "s4", index |-> 3]

\* a process that tries again after a failure, and one that races both tries
MCMaxLanes == p1 :> 2 @@ p2 :> 1
OneLane == [p \in MCProcs |-> 1]
=============================================================================
