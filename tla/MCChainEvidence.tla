--------------------------- MODULE MCChainEvidence ----------------------------
EXTENDS ChainEvidence

Whole == [files |-> [f \in BoundFiles |-> 1], broken |-> {}, runtimeIntact |-> TRUE,
          logsPassed |-> TRUE, proofValid |-> TRUE]

\* The whole bundle, one with an invalid proof, one with a file of another
\* operation, and one with an edited transaction.
MCSources == {Whole, [Whole EXCEPT !.proofValid = FALSE],
              [Whole EXCEPT !.files["provenance"] = 2],
              [Whole EXCEPT !.broken = {"claim-b"}]}

Options(rpc, terminal, groth16, verify, confirmations) ==
    [rpc |-> rpc, terminal |-> terminal, groth16 |-> groth16, verify |-> verify,
     confirmations |-> confirmations]

MCReceiptOptions == {Options(TRUE, FALSE, FALSE, FALSE, 2),
                     Options(FALSE, TRUE, FALSE, FALSE, 0), Options(FALSE, TRUE, FALSE, TRUE, 0),
                     Options(FALSE, FALSE, TRUE, FALSE, 0)}
==============================================================================
