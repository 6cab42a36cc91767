--------------------------- MODULE TokenAccounting ----------------------------
(***************************************************************************)
(* pro29_token_accounting.py: the balances before and after every retained *)
(* transaction, read at the hashes of blocks found by number.              *)
(***************************************************************************)
EXTENDS LiveChainCheck

Numbers == {bundle.receipts[t].number : t \in PlanTxs}
TxAt(n) == CHOOSE t \in PlanTxs : bundle.receipts[t].number = n

\* One transaction per block, and no block between them.
SeparateBoundaries ==
    /\ Cardinality(Numbers) = Cardinality(PlanTxs)
    /\ Numbers = Min(Numbers)..Max(Numbers)

StartToken ==
    /\ CanRun
    /\ \E verify \in BOOLEAN :
         /\ verify => published.token # Nothing
         /\ Proceed(Reconstruct(source, bundle),
                    Command("token", [NoOptions EXCEPT !.verify = verify],
                            Ascending(Numbers)))
    /\ runs' = runs + 1
    /\ UNCHANGED <<chainVars, source, bundle, observation, accepted, pin, published, proofVars>>

ReadTxBlock ==
    /\ tool.pc = "txblock"
    /\ Proceed(SeparateBoundaries /\ Here <= HeadNumber,
               [tool EXCEPT !.pc = "txblocktxs", !.held = BlockByNumber(Here)])
    /\ UNCHANGED <<chainVars, checkVars>>

\* A second request for the same number; the hash kept is that of the first.
ReadTxBlockTxs ==
    /\ tool.pc = "txblocktxs"
    /\ Proceed(Here <= HeadNumber /\ blocks[BlockByNumber(Here)].tx = TxAt(Here),
               [tool EXCEPT !.seen = Append(@, tool.held),
                            !.todo = IF Rest # <<>> THEN Rest ELSE tool.then,
                            !.pc = IF Rest # <<>> THEN "txblock" ELSE "sweep"])
    /\ UNCHANGED <<chainVars, checkVars>>

TransferRowsFromReceipts == {<<t, bundle.receipts[t]>> : t \in PlanTxs \cap DOMAIN Transfers}

RpcTransferRows(start, end) ==
    {<<blocks[b].tx, [number |-> Height(b), id |-> b]>>
     : b \in {b \in Canonical : Height(b) \in start..end /\ blocks[b].tx \in DOMAIN Transfers}}

MintTx == CHOOSE t \in PlanTxs \cap DOMAIN Transfers : Transfers[t].from = "zero"

SweepTransfers ==
    /\ tool.pc = "sweep"
    /\ Proceed(/\ TransferRowsFromReceipts = RpcTransferRows(Min(Numbers), Max(Numbers))
               /\ Cardinality({t \in PlanTxs \cap DOMAIN Transfers : Transfers[t].from = "zero"}) = 1,
               [tool EXCEPT !.pc = "before"])
    /\ UNCHANGED <<chainVars, checkVars>>

ReadBeforeBlock ==
    /\ tool.pc = "before"
    /\ Proceed(Here - 1 <= HeadNumber, [tool EXCEPT !.pc = "beforereads", !.held = BlockByNumber(Here - 1)])
    /\ UNCHANGED <<chainVars, checkVars>>

\* Every party of a retained transfer but the zero address, and the named ones.
KnownAccounts ==
    {"sponsor", "reserve", "allocator"} \cup {RECIPIENTS[c].beneficiary : c \in DOMAIN RECIPIENTS}
    \cup ((UNION {{Transfers[t].from, Transfers[t].to} : t \in PlanTxs \cap DOMAIN Transfers}) \ {"zero"})

TokenStateAt(b) == [balances |-> [a \in KnownAccounts |-> BalancesAt(b)[a]], supply |-> SupplyAt(b)]

BeforeRef(block) == PinnedBlock(block)

(* mutant: the state after a transaction is read by block number *)
AfterRefByNumber(block) == NumberedBlock(block)

AfterRef(block) == PinnedBlock(block)

\* All reads at one hash answer alike while the block is canonical.
ReadBefore ==
    /\ tool.pc = "beforereads"
    /\ LET b == BeforeRef([number |-> Here - 1, id |-> tool.held])
       IN Proceed(b # 0, [tool EXCEPT !.pc = "afterreads", !.before = TokenStateAt(b)])
    /\ UNCHANGED <<chainVars, checkVars>>

\* Every balance and the supply move by exactly the retained transfers.
ValidateTransactionDeltas(tx, before, after) ==
    /\ \A a \in KnownAccounts : after.balances[a] - before.balances[a] = Delta(tx, a)
    /\ after.supply - before.supply = 0 - Delta(tx, "zero")

DeploymentVisible(tx, b) == TokenDeployed(b) <=> bundle.receipts[tx].number >= bundle.receipts[MintTx].number

ReadAfter ==
    /\ tool.pc = "afterreads"
    /\ LET recorded == tool.seen[Len(tool.rows) + 1]
           b == AfterRef([number |-> Here, id |-> recorded])
           tx == TxAt(Here)
       IN Proceed(/\ b # 0
                  /\ DeploymentVisible(tx, b)
                  /\ ValidateTransactionDeltas(tx, tool.before, TokenStateAt(b)),
                  [tool EXCEPT !.rows = Append(@, [tx |-> tx, before |-> tool.held, after |-> recorded,
                                                   from |-> tool.before, to |-> TokenStateAt(b)]),
                               !.todo = Rest,
                               !.pc = IF Rest # <<>> THEN "before" ELSE "decimals"])
    /\ UNCHANGED <<chainVars, checkVars>>

ReadDecimals ==
    /\ tool.pc = "decimals"
    /\ Publish("token", IF AfterRef([number |-> Max(Numbers), id |-> Last(tool.seen)]) # 0
                        THEN tool.rows ELSE Nothing)
    /\ UNCHANGED <<chainVars, source, bundle, observation, accepted, pin, runs, proofVars>>

TokenNext ==
    \/ StartToken \/ ReadTxBlock \/ ReadTxBlockTxs \/ SweepTransfers \/ ReadBeforeBlock
    \/ ReadBefore \/ ReadAfter \/ ReadDecimals
==============================================================================
