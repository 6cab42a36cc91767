----------------------------- MODULE EvidenceDag -----------------------------
(***************************************************************************)
(* The evidence DAG of a forensic run: the inventory that run.py writes    *)
(* after parsing the node files, and what verify.py demands of it.  A      *)
(* directory is a function from file names to files; a hash is an atom.    *)
(* The depth-first search of verify.py is a machine of its own (colour,    *)
(* stack, cyclic), because the order in which it visits the nodes is the   *)
(* iteration order of a Python set, and because it recurses.               *)
(***************************************************************************)
EXTENDS Integers, Sequences, FiniteSets

CONSTANT RecursionLimit  \* frames the interpreter grants to nested dfs calls

ASSUME RecursionLimitAssumption == RecursionLimit \in Nat \ {0}

VARIABLES colour,  \* colour[h] of the hashes being searched
          stack,   \* the nested dfs calls, outermost first
          cyclic   \* has a back edge been found?

searchVars == <<colour, stack, cyclic>>

------------------------------------------------------------------------------
(* What run.py extracts from the files.  Only EDN files are parsed; those   *)
(* that do not parse appear in neither nodes nor edges.                     *)

Members(seq) == {seq[k] : k \in DOMAIN seq}

ParsedFiles(dir) == {f \in DOMAIN dir : dir[f].ext = "edn" /\ dir[f].parses}

NodeHashes(dir) == {dir[f].hash : f \in ParsedFiles(dir)}

BuildEdges(dir) ==
    UNION {{<<p, dir[f].hash>> : p \in Members(dir[f].parents)} : f \in ParsedFiles(dir)}

\* The navigation index: roots have no parent among the nodes, orphans have
\* a parent that is no node.
BuildDagIndex(dir) ==
    LET hashes == NodeHashes(dir)
        \* the last file with a hash decides, as parents_by_child is a dict
        parents(f) == Members(dir[f].parents)
        lastOf(h) == CHOOSE f \in ParsedFiles(dir) :
                        /\ dir[f].hash = h
                        /\ \A g \in ParsedFiles(dir) : dir[g].hash = h => g <= f
    IN [nodeCount |-> Cardinality(ParsedFiles(dir)),
        roots     |-> {h \in hashes : parents(lastOf(h)) \cap hashes = {}},
        orphans   |-> {h \in hashes : ~(parents(lastOf(h)) \subseteq hashes)}]

WriteDagInventory(dir) ==
    [fileCount |-> Cardinality(DOMAIN dir),
     semantic  |-> IF ParsedFiles(dir) = {} THEN "inventory-only" ELSE "parsed",
     nodes     |-> [f \in ParsedFiles(dir) |-> dir[f]],
     edges     |-> BuildEdges(dir),
     index     |-> BuildDagIndex(dir)]

------------------------------------------------------------------------------
(* The depth-first search over the edges of an inventory.                   *)

InventoryHashes(inv) == {inv.nodes[f].hash : f \in DOMAIN inv.nodes}

Successors(inv, u) == {v \in InventoryHashes(inv) : <<u, v>> \in inv.edges}

Frame(inv, u) == [node |-> u, todo |-> Successors(inv, u)]

SearchInit == colour = <<>> /\ stack = <<>> /\ cyclic = FALSE

SearchStart(inv) ==
    /\ colour' = [h \in InventoryHashes(inv) |-> "white"]
    /\ stack' = <<>>
    /\ cyclic' = FALSE

\* for h in node_hashes: the outer loop reaches some white node.
SearchRoot(inv) ==
    /\ stack = <<>>
    /\ \E h \in DOMAIN colour :
          /\ colour[h] = "white"
          /\ colour' = [colour EXCEPT ![h] = "grey"]
          /\ stack' = <<Frame(inv, h)>>
    /\ UNCHANGED cyclic

(* mutant: any visited successor counts as a back edge *)
SearchEdgeBlackIsGrey(inv) ==
    /\ stack # <<>>
    /\ LET top == stack[Len(stack)]
       IN \E v \in top.todo :
            LET rest == [stack EXCEPT ![Len(stack)].todo = @ \ {v}]
            IN /\ colour[v] = "white" => Len(stack) < RecursionLimit
               /\ stack' = IF colour[v] = "white" THEN Append(rest, Frame(inv, v)) ELSE rest
               /\ colour' = IF colour[v] = "white" THEN [colour EXCEPT ![v] = "grey"] ELSE colour
               /\ cyclic' = (cyclic \/ colour[v] # "white")

\* The innermost call looks at its next successor: a grey one closes a cycle,
\* a white one is searched first, a black one is passed over.
SearchEdge(inv) ==
    /\ stack # <<>>
    /\ LET top == stack[Len(stack)]
       IN \E v \in top.todo :
            LET rest == [stack EXCEPT ![Len(stack)].todo = @ \ {v}]
            IN /\ colour[v] = "white" => Len(stack) < RecursionLimit
               /\ stack' = IF colour[v] = "white" THEN Append(rest, Frame(inv, v)) ELSE rest
               /\ colour' = IF colour[v] = "white" THEN [colour EXCEPT ![v] = "grey"] ELSE colour
               /\ cyclic' = (cyclic \/ colour[v] = "grey")

\* The innermost call has seen all successors and returns.
SearchReturn ==
    /\ stack # <<>>
    /\ stack[Len(stack)].todo = {}
    /\ colour' = [colour EXCEPT ![stack[Len(stack)].node] = "black"]
    /\ stack' = SubSeq(stack, 1, Len(stack) - 1)
    /\ UNCHANGED cyclic

\* The innermost call is about to recurse past the interpreter's limit.
SearchOverflows ==
    /\ Len(stack) = RecursionLimit
    /\ \E v \in stack[Len(stack)].todo : colour[v] = "white"

SearchDone == stack = <<>> /\ \A h \in DOMAIN colour : colour[h] = "black"

------------------------------------------------------------------------------
(* verify.py: the errors of an inventory.  refs are the node references of  *)
(* the bundle roots, ednCount the EDN files on disk, cycles the outcome of  *)
(* the search.                                                              *)

\* The lengths of all parent lists, added up.
ParentCount(inv) ==
    Cardinality(UNION {{<<f, k>> : k \in DOMAIN inv.nodes[f].parents} : f \in DOMAIN inv.nodes})

ValidateEvidenceDagInventory(inv, refs, ednCount, cycles) ==
    LET files == DOMAIN inv.nodes
        hashes == InventoryHashes(inv)
    IN {e \in {"unparsed", "file-count", "duplicate-hash", "cycle", "missing-edge",
               "unresolved-parent", "edge-count", "root-ref", "no-root-ref",
               "index-count", "no-roots", "orphans"} :
          CASE e = "unparsed"    -> inv.semantic = "inventory-only" /\ ednCount > 0
            [] e = "file-count"  -> inv.fileCount # ednCount
            [] e = "duplicate-hash" ->
                   \E f, g \in files : f # g /\ inv.nodes[f].hash = inv.nodes[g].hash
            [] e = "cycle"       -> hashes # {} /\ cycles
            [] e = "missing-edge" ->
                   \E f \in files : \E p \in Members(inv.nodes[f].parents) :
                       <<p, inv.nodes[f].hash>> \notin inv.edges
            [] e = "unresolved-parent" ->
                   \E f \in files : ~(Members(inv.nodes[f].parents) \subseteq hashes)
            [] e = "edge-count"  -> Cardinality(inv.edges) # ParentCount(inv)
            [] e = "root-ref"    -> refs # {} /\ refs \cap hashes = {}
            [] e = "no-root-ref" -> refs = {} /\ files # {}
            [] e = "index-count" -> files # {} /\ inv.index.nodeCount # Cardinality(files)
            [] e = "no-roots"    -> files # {} /\ inv.index.roots = {}
            [] e = "orphans"     -> files # {} /\ inv.index.orphans # {}}

------------------------------------------------------------------------------
(* The reference: what a well-formed evidence directory is, in terms of     *)
(* graphs rather than of checks.  A rank that grows along every edge exists *)
(* exactly when there is no cycle.                                          *)

Acyclic(nodes, edges) ==
    \E rank \in [nodes -> 1..Cardinality(nodes)] :
        \A e \in edges : rank[e[1]] < rank[e[2]]

WellFormedDag(dir, refs) ==
    LET parsed == ParsedFiles(dir)
        hashes == NodeHashes(dir)
    IN /\ \A f \in DOMAIN dir : dir[f].ext = "edn"
       /\ parsed = {} => DOMAIN dir = {} /\ refs = {}
       /\ parsed # {} => refs \cap hashes # {}
       /\ \A f, g \in parsed : dir[f].hash = dir[g].hash => f = g
       /\ \A f \in parsed :
             /\ Members(dir[f].parents) \subseteq hashes
             /\ Cardinality(Members(dir[f].parents)) = Len(dir[f].parents)
       /\ Acyclic(hashes, BuildEdges(dir))

\* Some path visits more nodes than the interpreter has frames.
HasLongPath(dir) ==
    \E path \in UNION {[1..n -> NodeHashes(dir)] :
                          n \in (RecursionLimit + 1)..Cardinality(NodeHashes(dir))} :
        /\ \A j, k \in DOMAIN path : path[j] = path[k] => j = k
        /\ \A k \in 1..(Len(path) - 1) : <<path[k], path[k + 1]>> \in BuildEdges(dir)
==============================================================================
