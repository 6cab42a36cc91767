-------------------------- MODULE MCReceiptInclusion --------------------------
(* Six headers of a chain of heights 1 to 5 with a fork at height 3.  Their  *)
(* 1, 3, 130, 2, 129 and 2 transactions make tries with every kind of node:  *)
(* the key of index 0 is 0x80, those up to 127 one byte, the rest two.       *)
EXTENDS ReceiptInclusion

Tx(n) == <<"tx", n>>

\* The fork repeats a transaction of block 3.
TxsOf == <<[i \in 1..1 |-> Tx(i)], [i \in 1..3 |-> Tx(10 + i)], [i \in 1..130 |-> Tx(100 + i)],
           [i \in 1..2 |-> Tx(101 + i)], [i \in 1..129 |-> Tx(300 + i)], [i \in 1..2 |-> Tx(500 + i)]>>

\* Legacy, EIP-1559 and an unsupported type; every eleventh is unprotected.
MCSigned == [t \in {Tx(0)} \cup UNION {ToSet(TxsOf[h]) : h \in 1..6} |->
               [type |-> IF t[2] % 7 = 3 THEN 1 ELSE IF t[2] % 2 = 0 THEN 0 ELSE 2,
                chainId |-> IF t[2] = 0 THEN 9 ELSE IF t[2] % 22 = 0 THEN 0 ELSE 1,
                sender |-> IF t[2] % 2 = 0 THEN "alice" ELSE "bob"]]

ReceiptOf(t, gas) == <<"receipt", MCSigned[t].type, IF gas = 2 THEN <<"root", 5>> ELSE <<"status", gas % 2>>,
                       gas, IF gas % 3 = 0 THEN {"claim"} ELSE {}>>

Header(h, parent, number) ==
    [parent |-> parent, number |-> number, txs |-> TxsOf[h],
     receipts |-> [i \in DOMAIN TxsOf[h] |-> ReceiptOf(TxsOf[h][i], i)]]

MCChain == <<Header(1, 0, 1), Header(2, 1, 2), Header(3, 2, 3), Header(4, 2, 3), Header(5, 3, 4), Header(6, 5, 5)>>

MCIndices == {0, 1, 2, 15, 16, 128, 129}

Places == {<<h, i>> \in (1..6) \X MCIndices : i < Len(TxsOf[h])}
MCTransactions == {Tx(0)} \cup {TxsOf[p[1]][p[2] + 1] : p \in Places}
MCReceipts == {MCChain[p[1]].receipts[p[2] + 1] : p \in Places}

Context(family, chainId, anchor, number, observed, until, finality) ==
    [wellFormed |-> TRUE, chainFamily |-> family, chainId |-> chainId, anchorHeader |-> anchor,
     anchorNumber |-> number, observedAt |-> observed, validUntil |-> until, finalityStatus |-> finality]

MCContexts == {Context("ethereum-l1", 1, 5, 4, 1, 2, "unverified"),
               Context("op-stack-l2", 9, 5, 4, 1, 2, "unverified"),
               Context("ethereum-l1", 1, 4, 4, 1, 2, "unverified"),
               Context("ethereum-l1", 1, 5, 4, 2, 1, "unverified"),
               Context("ethereum-l1", 1, 5, 4, 1, 2, "finalized"),
               Context("other", 1, 5, 4, 1, 2, "unverified"),
               [Context("ethereum-l1", 1, 5, 4, 1, 2, "unverified") EXCEPT !.wellFormed = FALSE]}
==============================================================================
