-------------------------- MODULE MCComparisonTools --------------------------
EXTENDS ComparisonTools, TLC

CONSTANTS r1, r2, c1

Nested(e, o, t) == [layout |-> "nested", exit |-> e, fields |-> [overview |-> o, totals |-> t]]
Flat == [layout |-> "flat", exit |-> 1, fields |-> [overview |-> "a"]]

MCBundles == [r \in Runners |-> IF r = r1 THEN {Nested(0, "a", "x"), Nested(1, "a", "y"), Flat}
                                ELSE {Nested(0, "a", "x")}]

MCKeyArguments == [r \in Runners |-> IF r = r1 THEN {"k1", BadKey} ELSE {"k1", "k2"}]

MCRegistries == {Nothing,
                 (r1 :> [key |-> "k1", status |-> "trusted"]),
                 (r1 :> [key |-> "k1", status |-> "revoked"])
                   @@ (r2 :> [key |-> "k2", status |-> "trusted"])}

MCConsensusThresholds == {1, Nothing}

MCThresholds == {2, 3, Nothing}

\* Bundles of version 0, with and without the later fields.
MCOriginals ==
    {[hash |-> h, algorithm |-> a,
      fields |-> [f \in fs |-> IF f = "algorithm" THEN "v1" ELSE 0]]
     : h \in {0, Nothing}, a \in {"v1", "v2", Nothing},
       fs \in {{"overview", "totals", "registry"},
               {"overview", "totals", "registry", "tree", "algorithm"},
               {"registry"}, {"other"}}}
==============================================================================
