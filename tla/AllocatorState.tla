---------------------------- MODULE AllocatorState ----------------------------
(***************************************************************************)
(* pro30_allocator_state.py: the allocator's state just before and after   *)
(* each claim, read at blocks found by number and anchored to receipts.    *)
(***************************************************************************)
EXTENDS LiveChainCheck

CLAIMS == <<"claim-a", "claim-b", "claim-c">>

Boundary(id, tx, relation) ==
    [id |-> id, tx |-> tx, relation |-> relation,
     number |-> bundle.receipts[tx].number - IF relation = "before" THEN 1 ELSE 0]

ClaimBoundaries ==
    << Boundary("beforeActivation", "activate", "before"),
       Boundary("beforeAlice", "claim-a", "before"), Boundary("afterAlice", "claim-a", "after"),
       Boundary("beforeBob", "claim-b", "before"), Boundary("afterBob", "claim-b", "after"),
       Boundary("beforeCarol", "claim-c", "before"), Boundary("afterCarolAndClose", "claim-c", "after") >>

StartAllocator ==
    /\ CanRun
    /\ \E verify \in BOOLEAN :
         /\ verify => published.allocator # Nothing
         /\ Proceed(Reconstruct(source, bundle),
                    Command("allocator", [NoOptions EXCEPT !.verify = verify], ClaimBoundaries))
    /\ runs' = runs + 1
    /\ UNCHANGED <<chainVars, source, bundle, observation, accepted, pin, published, proofVars>>

ReadSnapshotBlock ==
    /\ tool.pc = "snapblock"
    /\ Proceed(Here.number <= HeadNumber, [tool EXCEPT !.pc = "snaptxs", !.held = BlockByNumber(Here.number)])
    /\ UNCHANGED <<chainVars, checkVars>>

(* mutant: a block with the same transaction will do *)
AnchoredAfterByTransaction(boundary, held, tx) == tx = boundary.tx

\* A snapshot after a claim is taken at the very block of its receipt.
AnchoredAfter(boundary, held, tx) ==
    /\ held = bundle.receipts[boundary.tx].id
    /\ tx = boundary.tx

ReadSnapshotTxs ==
    /\ tool.pc = "snaptxs"
    /\ LET tx == blocks[BlockByNumber(Here.number)].tx
       IN Proceed(/\ Here.number \in 1..HeadNumber
                  /\ Here.relation = "after" => AnchoredAfter(Here, tool.held, tx),
                  [tool EXCEPT !.pc = IF Here.relation = "after" THEN "snapreads" ELSE "snapnext"])
    /\ UNCHANGED <<chainVars, checkVars>>

\* A snapshot before a transition is taken at the parent of its receipt's block.
AnchoredBefore(boundary, held, next) ==
    /\ blocks[next].parent = held
    /\ next = bundle.receipts[boundary.tx].id

ReadNextBlock ==
    /\ tool.pc = "snapnext"
    /\ LET n == bundle.receipts[Here.tx].number
       IN Proceed(n <= HeadNumber /\ AnchoredBefore(Here, tool.held, BlockByNumber(n)),
                  [tool EXCEPT !.pc = "snapreads"])
    /\ UNCHANGED <<chainVars, checkVars>>

Expected == [id \in {"beforeActivation", "beforeAlice", "afterAlice", "beforeBob", "afterBob",
                     "beforeCarol", "afterCarolAndClose"} |->
               CASE id = "beforeActivation" -> <<2, 0, 0, 0, {}>>
                 [] id = "beforeAlice" -> <<3, 0, 0, 70, {}>>
                 [] id \in {"afterAlice", "beforeBob"} -> <<4, 35, 1, 35, {"claim-a"}>>
                 [] id \in {"afterBob", "beforeCarol"} -> <<4, 56, 2, 14, {"claim-a", "claim-b"}>>
                 [] id = "afterCarolAndClose" -> <<5, 70, 3, 0, {"claim-a", "claim-b", "claim-c"}>>]

\* Blocks strictly increase and every state is the one its boundary must show.
ValidateTimeline(snapshots) ==
    /\ \A i \in 1..Len(snapshots) - 1 : snapshots[i].number < snapshots[i + 1].number
    /\ \A i \in 1..Len(snapshots) :
         LET s == snapshots[i].state
             e == Expected[snapshots[i].id]
         IN /\ <<s.operation, s.claimed, s.count, s.liability, s.consumed>> = e
            /\ s.count = Cardinality(s.consumed)
            /\ s.claimed = MapThenSumSet(LAMBDA c : RECIPIENTS[c].amount, s.consumed)
            /\ i # 1 => s.claimed + s.liability = 70 /\ s.balance = s.liability

SnapshotRef(block) == PinnedBlock(block)

ReadSnapshot ==
    /\ tool.pc = "snapreads"
    /\ LET b == SnapshotRef([number |-> Here.number, id |-> tool.held])
           rows == Append(tool.rows, [id |-> Here.id, tx |-> Here.tx, relation |-> Here.relation,
                                      number |-> Here.number, block |-> tool.held, state |-> AllocatorAt(b)])
       IN IF Rest # <<>>
          THEN Proceed(b # 0, [tool EXCEPT !.pc = "snapblock", !.todo = Rest, !.rows = rows])
          ELSE Proceed(b # 0 /\ ValidateTimeline(rows), [tool EXCEPT !.pc = "probe", !.rows = rows])
    /\ UNCHANGED <<chainVars, checkVars>>

\* The first claim called again at its own block must revert as consumed.
ReplayRejected(b) == b # 0 /\ CLAIMS[1] \in AllocatorAt(b).consumed

PublishAllocator(rows) == Publish("allocator", rows)

ReplayProbe ==
    /\ tool.pc = "probe"
    /\ PublishAllocator(IF ReplayRejected(PinnedBlock(bundle.receipts[CLAIMS[1]])) THEN tool.rows ELSE Nothing)
    /\ UNCHANGED <<chainVars, source, bundle, observation, accepted, pin, runs, proofVars>>

AllocatorNext ==
    \/ StartAllocator \/ ReadSnapshotBlock \/ ReadSnapshotTxs \/ ReadNextBlock
    \/ ReadSnapshot \/ ReplayProbe
==============================================================================
