---------------------------- MODULE ChainEvidence -----------------------------
(***************************************************************************)
(* The local-chain evidence commands together: a bundle is captured by the *)
(* replay, checked, observed and sampled by one command after the other,   *)
(* while the chain behind the endpoint grows and is replaced.              *)
(***************************************************************************)
EXTENDS CaptureReplay, TokenAccounting, AllocatorState

vars == <<chainVars, checkVars, tool>>

Init == ChainInit /\ CheckInit

\* Bound: the chain moves only while a command can still see it.
Watched == tool # Idle \/ (runs < MaxRuns /\ (bundle # Nothing \/ HeadNumber = 0))

ChainMoves == Watched /\ (MineForeign \/ Reorg) /\ UNCHANGED <<checkVars, tool>>

Next == ChainMoves \/ CommandDies \/ LiveCheckNext \/ ReceiptsNext \/ ReplayNext \/ TokenNext \/ AllocatorNext

Spec == Init /\ [][Next]_vars

------------------------------------------------------------------------------
RetainedBlocks == {bundle.receipts[t].id : t \in PlanTxs} \cup {bundle.runtime.id}

\* A live check that was written (live-chain-check.json) had, at its last read
\* of anchored code, every retained block on the canonical chain at once,
\* although it compared them request by request (verify_live_chain_context);
\* and a terminal observation accepted on the strength of such a check
\* (_verify_terminal_state_observation) was made after all of them.
AnchoredTogether ==
    /\ bundle # Nothing /\ bundle.check # Nothing => RetainedBlocks \subseteq bundle.check.view
    /\ \A o \in accepted : RetainedBlocks \subseteq blocks[o.id].lineage

\* Published token observations (pro29 capture) follow one chain: each row
\* starts at the parent of its block, with the balances the row before ended
\* with, so the final balances are the sums of the retained transfers.
RowsAdjoin ==
    published.token # Nothing =>
      LET rows == published.token
      IN /\ \A i \in 1..Len(rows) :
              /\ blocks[rows[i].after].parent = rows[i].before
              /\ i < Len(rows) => rows[i].after = rows[i + 1].before /\ rows[i].to = rows[i + 1].from
         /\ Last(rows).to.balances =
              [a \in Accounts |-> Moved(PlanTxs, a)]

\* Published allocator snapshots (pro30 capture) show the state of the block
\* of their receipt, or of its parent, whatever happened between the requests.
SnapshotsAtBoundaries ==
    published.allocator # Nothing =>
      \A i \in 1..Len(published.allocator) :
        LET s == published.allocator[i]
            receipt == bundle.receipts[s.tx].id
        IN /\ s.block = (IF s.relation = "after" THEN receipt ELSE blocks[receipt].parent)
           /\ s.state = AllocatorAt(s.block)

\* The Groth16 report (verify_groth16_reference) says "verified" only of a valid
\* proof that the node accepted, and "not_verified" only after the node answered
\* the verifier call with an error: a node that dies, times out or runs other
\* code gives no verdict.  A node that runs although no proof check does was
\* left behind by a command that was killed; every other end stops it.
ProofVerdictHonest ==
    /\ proof = "verified" => source.proofValid /\ anvil.said = "accepted"
    /\ proof = "not_verified" => anvil.said = "error"
    /\ anvil.state \in {"starting", "ready"} => tool.pc \in ProverSteps \/ anvil.orphan
==============================================================================
