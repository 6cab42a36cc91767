------------------------ MODULE MCBundleVerification ------------------------
(* Instances of BundleVerification for TLC.  The directories are all graphs *)
(* over three nodes with at most two parents each, and one directory for    *)
(* each irregularity a run can leave: a JSON node, a file that does not     *)
(* parse, two files with one hash, a repeated and an unknown parent.        *)
EXTENDS BundleVerification, TLC

Node(h, parents) == [ext |-> "edn", parses |-> TRUE, hash |-> h, parents |-> parents]

ParentLists == {<<>>, <<1>>, <<2>>, <<3>>, <<1, 2>>, <<1, 3>>, <<2, 3>>}

MCPlainDag == (1 :> Node(1, <<>>)) @@ (2 :> Node(2, <<1>>))

Graphs3 == {[f \in 1..3 |-> Node(f, ps[f])] : ps \in [1..3 -> ParentLists]}

Irregular ==
    {<<>>,
     MCPlainDag @@ (3 :> [Node(3, <<>>) EXCEPT !.ext = "json"]),
     MCPlainDag @@ (3 :> [Node(3, <<2>>) EXCEPT !.parses = FALSE]),
     (1 :> [Node(1, <<>>) EXCEPT !.parses = FALSE]),
     MCPlainDag @@ (3 :> Node(2, <<1>>)),
     MCPlainDag @@ (3 :> Node(2, <<>>)),
     MCPlainDag @@ (3 :> Node(3, <<1, 1>>)),
     MCPlainDag @@ (3 :> Node(3, <<9>>))}

MCDags == Graphs3 \cup Irregular \cup {MCPlainDag}
MCRefs == {0, 1, 8}
==============================================================================
