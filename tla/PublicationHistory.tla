------------------------- MODULE PublicationHistory -------------------------
(***************************************************************************)
(* What an authoritative publication store promises for one conflict key:   *)
(* a linear history of transaction orderings in which each ordering names   *)
(* its predecessor, starts in the state the predecessor ended in, and       *)
(* carries the commit index of its position.  Nothing published is ever      *)
(* changed or removed, and one ordering is published at a time.              *)
(***************************************************************************)
EXTENDS Integers, Sequences

CONSTANTS NoValue,    \* nil
          Orderings,  \* identities (hashes) of the orderings that can be built
          Body        \* Orderings -> [prev, before, after, index]

VARIABLE history      \* published orderings, oldest first

LastOf(h) == IF h = << >> THEN NoValue ELSE h[Len(h)]

(* The semantic successor rule between a head and a candidate ordering. *)
Succeeds(h, o) ==
  /\ Body[o].prev = LastOf(h)
  /\ h # << >> => Body[LastOf(h)].after = Body[o].before
  /\ Body[o].index = Len(h) + 1

Init == history = << >>

Publish(o) == Succeeds(history, o) /\ history' = Append(history, o)

Next == \E o \in Orderings : Publish(o)

Spec == Init /\ [][Next]_history
=============================================================================
