-------------------------- MODULE ChainEvidence_proofs ------------------------
(***************************************************************************)
(* Proofs about the local-chain evidence commands (ChainEvidence), for any *)
(* source bundles and options, any number of commands and any movement of  *)
(* the chain between their requests.                                       *)
(*                                                                         *)
(* The commands read block by block, by number and by hash, and nothing    *)
(* holds the chain still.  What they conclude is sound because a mined     *)
(* block never changes and a replaced one never becomes canonical again    *)
(* (ChainGrows): whatever is canonical at the end of a command and was     *)
(* seen at its beginning was canonical all along.  So the receipts of a    *)
(* replay that are still canonical lie below its captured head             *)
(* (ReceiptsBelow); a live check that reads the head by hash at its end    *)
(* has found all retained blocks on the head's chain (OneChain); and a row *)
(* of the token table whose block answers by hash starts where the row     *)
(* before it ended (RowPhase).                                             *)
(***************************************************************************)
EXTENDS ChainEvidence, FiniteSetTheorems, SequenceTheorems, WellFoundedInduction, TLAPS

(* A function on 1..n is a sequence. *)
LEMMA FunctionIsSeq ==
    ASSUME NEW S, NEW n \in Nat, NEW f \in [1..n -> S]
    PROVE  f \in Seq(S) /\ Len(f) = n
OBVIOUS

(* A place beyond the first n. *)
LEMMA Beyond ==
    ASSUME NEW n \in Nat, NEW l \in Nat, NEW b \in 1..n + l, b > n
    PROVE  \E k \in 1..l : b = n + k
<1>1. b - n \in 1..l /\ b = n + (b - n)
    OBVIOUS
<1> QED BY <1>1

(* Two sequences after each other. *)
LEMMA Joined ==
    ASSUME NEW S, NEW s \in Seq(S), NEW t \in Seq(S)
    PROVE  /\ s \o t \in Seq(S) /\ Len(s \o t) = Len(s) + Len(t)
           /\ \A i \in 1..Len(s) : (s \o t)[i] = s[i]
           /\ \A k \in 1..Len(t) : (s \o t)[Len(s) + k] = t[k]
OBVIOUS

------------------------------------------------------------------------------
(* The transactions a block can hold, and those of the canonical chain. *)
Txs == PlanTxs \cup Foreign \cup {"genesis"}
ChainTxs == {blocks[chain[k]].tx : k \in DOMAIN chain}

BlockType == [number : Nat, parent : Nat, tx : Txs, lineage : SUBSET Nat]

(* The blocks ever mined and the canonical ones among them. *)
BlocksOK ==
    /\ blocks \in Seq(BlockType)
    /\ \A b \in 1..Len(blocks) : blocks[b].lineage \subseteq 1..Len(blocks)
    /\ chain \in Seq(1..Len(blocks)) /\ Len(chain) >= 1
    /\ chain[1] = 1 /\ blocks[1].tx = "genesis"

(* The place of every canonical block on the chain. *)
LinkedAt(k) ==
    /\ blocks[chain[k]].number = k - 1
    /\ blocks[chain[k]].lineage = {chain[j] : j \in 1..k}
    /\ k > 1 => blocks[chain[k]].parent = chain[k - 1]

Linked == \A k \in 1..Len(chain) : LinkedAt(k)

(* A transaction is on the chain once, those of others after the mint. *)
Ordered ==
    /\ \A j, k \in 1..Len(chain) : blocks[chain[j]].tx = blocks[chain[k]].tx => j = k
    /\ \A k \in 1..Len(chain) : blocks[chain[k]].tx \in Foreign =>
          \E j \in 1..k - 1 : blocks[chain[j]].tx = "mint"

ChainOK == BlocksOK /\ Linked /\ Ordered

(* Mined blocks stay as they are, and one that was replaced never returns. *)
ChainGrows ==
    /\ Len(blocks') >= Len(blocks)
    /\ \A b \in 1..Len(blocks) : blocks'[b] = blocks[b]
    /\ \A b \in 1..Len(blocks) : b \in Canonical' => b \in Canonical

(* The plan: ten transactions, the mint first, none of them of others. *)
LEMMA PlanFacts ==
    /\ Len(Plan) = 10 /\ Plan \in Seq(PlanTxs)
    /\ PlanTxs = {Plan[k] : k \in 1..10}
    /\ \A j, k \in 1..10 : Plan[j] = Plan[k] => j = k
    /\ Plan[1] = "mint" /\ "mint" \in PlanTxs
    /\ "genesis" \notin PlanTxs /\ PlanTxs \cap Foreign = {} /\ "genesis" \notin Foreign
<1>1. /\ Len(Plan) = 10 /\ DOMAIN Plan = 1..10 /\ Plan[1] = "mint"
      /\ \A j, k \in 1..10 : Plan[j] = Plan[k] => j = k
      /\ \A k \in 1..10 : Plan[k] \notin {"genesis", "transfer", "upgrade"}
    BY DEF Plan
<1>2. Plan \in Seq({Plan[k] : k \in 1..10})
    <2>1. Plan \in [1..10 -> {Plan[k] : k \in 1..10}]
        BY DEF Plan
    <2> QED BY <2>1, FunctionIsSeq
<1>3. PlanTxs = {Plan[k] : k \in 1..10}
    BY <1>1 DEF PlanTxs, ToSet
<1> QED BY <1>1, <1>2, <1>3 DEF Foreign

(* The canonical blocks in the order of their heights. *)
LEMMA CanonicalDef == ASSUME ChainOK PROVE Canonical = {chain[k] : k \in 1..Len(chain)}
BY DEF Canonical, ToSet, ChainOK, BlocksOK

(* The canonical chain, as eth_getBlockByNumber shows it: the block of a     *)
(* number is at that place, follows the one before it, and its ancestors are *)
(* the places up to it.                                                      *)
LEMMA CanonicalFacts ==
    ASSUME ChainOK
    PROVE  /\ Canonical \subseteq 1..Len(blocks)
           /\ Canonical = blocks[ChainHead].lineage
           /\ ChainHead \in Canonical
           /\ \A b \in Canonical : /\ blocks[b].number \in 0..Len(chain) - 1
                                   /\ chain[blocks[b].number + 1] = b
                                   /\ blocks[b].lineage = {chain[j] : j \in 1..blocks[b].number + 1}
                                   /\ b \in blocks[b].lineage
                                   /\ blocks[b].lineage \subseteq Canonical
                                   /\ blocks[b].number > 0 => blocks[b].parent = chain[blocks[b].number]
<1>1. Canonical = {chain[k] : k \in 1..Len(chain)} /\ Len(chain) \in Nat /\ Len(chain) >= 1
    BY CanonicalDef DEF ChainOK, BlocksOK
<1>2. \A k \in 1..Len(chain) : chain[k] \in 1..Len(blocks)
    BY ElementOfSeq DEF ChainOK, BlocksOK
<1>3. \A k \in 1..Len(chain) : LinkedAt(k)
    BY DEF ChainOK, Linked
<1>4. Canonical = blocks[ChainHead].lineage /\ ChainHead \in Canonical
    <2>1. PICK k \in 1..Len(chain) : k = Len(chain)
        BY <1>1
    <2>2. blocks[chain[k]].lineage = {chain[j] : j \in 1..k}
        BY <1>3 DEF LinkedAt
    <2> QED BY <1>1, <2>1, <2>2 DEF ChainHead
<1>5. ASSUME NEW b \in Canonical
      PROVE  /\ blocks[b].number \in 0..Len(chain) - 1
             /\ chain[blocks[b].number + 1] = b
             /\ blocks[b].lineage = {chain[j] : j \in 1..blocks[b].number + 1}
             /\ b \in blocks[b].lineage
             /\ blocks[b].lineage \subseteq Canonical
             /\ blocks[b].number > 0 => blocks[b].parent = chain[blocks[b].number]
    <2>1. PICK k \in 1..Len(chain) : b = chain[k]
        BY <1>1
    <2>2. blocks[b].number = k - 1 /\ blocks[b].lineage = {chain[j] : j \in 1..k} /\ (k > 1 => blocks[b].parent = chain[k - 1])
        BY <2>1, <1>3 DEF LinkedAt
    <2> QED BY <2>1, <2>2, <1>1
<1> QED BY <1>1, <1>2, <1>4, <1>5

(* What MineOn may be asked to mine. *)
Minable(base, txs) ==
    /\ base \in Seq(1..Len(blocks)) /\ Len(base) \in 1..Len(chain)
    /\ \A i \in 1..Len(base) : base[i] = chain[i]
    /\ txs \in Seq(Txs) /\ Len(txs) >= 1
    /\ \A i \in 1..Len(base), k \in 1..Len(txs) : blocks[chain[i]].tx # txs[k]
    /\ \A j, k \in 1..Len(txs) : txs[j] = txs[k] => j = k
    /\ \A k \in 1..Len(txs) : txs[k] \in Foreign =>
          \/ \E j \in 1..k - 1 : txs[j] = "mint"
          \/ \E i \in 1..Len(base) : blocks[chain[i]].tx = "mint"

(* The k-th new block, above the first m of the chain. *)
MinedAt(txs, n, m, k) ==
    /\ chain'[m + k] = n + k
    /\ blocks'[n + k].number = m + k - 1
    /\ blocks'[n + k].parent = (IF k = 1 THEN chain[m] ELSE n + k - 1)
    /\ blocks'[n + k].tx = txs[k]
    /\ blocks'[n + k].lineage = blocks[chain[m]].lineage \cup (n + 1..n + k)

MinedAbove(txs, n, m, l) ==
    /\ Len(blocks') = n + l /\ Len(chain') = m + l
    /\ blocks' \in Seq(BlockType) /\ chain' \in Seq(1..Len(blocks'))
    /\ \A b \in 1..n : blocks'[b] = blocks[b]
    /\ \A i \in 1..m : chain'[i] = chain[i]
    /\ \A k \in 1..l : MinedAt(txs, n, m, k)

(* What MineOn adds, by place. *)
LEMMA MineOnPlaces ==
    ASSUME ChainOK, NEW base, NEW txs, Minable(base, txs), MineOn(base, txs),
           NEW n \in Nat, n = Len(blocks), NEW m \in Nat, m = Len(base), NEW l \in Nat, l = Len(txs)
    PROVE  MinedAbove(txs, n, m, l)
<1> DEFINE Mined(k) == [number |-> m + k - 1,
                        parent |-> IF k = 1 THEN chain[m] ELSE n + k - 1,
                        tx |-> txs[k],
                        lineage |-> blocks[chain[m]].lineage \cup (n + 1..n + k)]
           new == [k \in 1..l |-> Mined(k)]
           ids == [k \in 1..l |-> n + k]
<1>1. /\ m >= 1 /\ l >= 1 /\ base[m] = chain[m] /\ chain[m] \in 1..n /\ base \in Seq(1..n)
      /\ blocks \in Seq(BlockType) /\ m <= Len(chain)
    <2>1. m \in 1..Len(chain) /\ chain \in Seq(1..n)
        BY DEF Minable, ChainOK, BlocksOK
    <2>2. chain[m] \in 1..n
        BY <2>1, ElementOfSeq
    <2> QED BY <2>1, <2>2 DEF Minable, ChainOK, BlocksOK
<1>2. blocks' = blocks \o new /\ chain' = base \o ids
    <2>1. Last(base) = chain[m]
        BY <1>1 DEF Last
    <2> QED BY <2>1 DEF MineOn
<1>3. \A k \in 1..l : Mined(k) \in BlockType
    <2> SUFFICES ASSUME NEW k \in 1..l PROVE Mined(k) \in BlockType
        OBVIOUS
    <2>1. txs[k] \in Txs
        BY ElementOfSeq DEF Minable
    <2>2. blocks[chain[m]] \in BlockType
        BY <1>1, ElementOfSeq
    <2>3. blocks[chain[m]].lineage \in SUBSET Nat
        BY <2>2 DEF BlockType
    <2>4. blocks[chain[m]].lineage \cup (n + 1..n + k) \in SUBSET Nat
        BY <2>3
    <2>5. (IF k = 1 THEN chain[m] ELSE n + k - 1) \in Nat /\ m + k - 1 \in Nat
        BY <1>1
    <2> QED BY <2>1, <2>4, <2>5 DEF BlockType
<1>4. new \in Seq(BlockType) /\ Len(new) = l
    <2>1. new \in [1..l -> BlockType]
        BY <1>3
    <2> HIDE DEF new
    <2> QED BY <2>1, FunctionIsSeq
<1>5. ids \in Seq(1..n + l) /\ Len(ids) = l
    <2>1. ids \in [1..l -> 1..n + l]
        OBVIOUS
    <2> HIDE DEF ids
    <2> QED BY <2>1, FunctionIsSeq
<1>6. /\ blocks' \in Seq(BlockType) /\ Len(blocks') = n + l
      /\ \A b \in 1..n : blocks'[b] = blocks[b]
      /\ \A k \in 1..l : blocks'[n + k] = new[k]
    <2>1. PICK s \in Seq(BlockType), t \in Seq(BlockType) : s = blocks /\ t = new
        BY <1>1, <1>4
    <2> HIDE DEF new
    <2>2. /\ blocks \o new \in Seq(BlockType) /\ Len(blocks \o new) = Len(blocks) + Len(new)
          /\ \A i \in 1..Len(blocks) : (blocks \o new)[i] = blocks[i]
          /\ \A k \in 1..Len(new) : (blocks \o new)[Len(blocks) + k] = new[k]
        BY <2>1, Joined
    <2> QED BY <2>2, <1>2, <1>4
<1>7. /\ Len(chain') = m + l /\ chain' \in Seq(1..n + l)
      /\ \A i \in 1..m : chain'[i] = base[i]
      /\ \A k \in 1..l : chain'[m + k] = ids[k]
    <2> HIDE DEF ids
    <2>1. base \in Seq(1..n + l)
        BY <1>1
    <2>2. PICK s \in Seq(1..n + l), t \in Seq(1..n + l) : s = base /\ t = ids
        BY <2>1, <1>5
    <2>3. /\ base \o ids \in Seq(1..n + l) /\ Len(base \o ids) = Len(base) + Len(ids)
          /\ \A i \in 1..Len(base) : (base \o ids)[i] = base[i]
          /\ \A k \in 1..Len(ids) : (base \o ids)[Len(base) + k] = ids[k]
        BY <2>2, Joined
    <2> QED BY <2>3, <1>2, <1>5
<1>8. \A i \in 1..m : base[i] = chain[i]
    BY DEF Minable
<1>9. ASSUME NEW k \in 1..l PROVE MinedAt(txs, n, m, k)
    <2>1. blocks'[n + k] = Mined(k) /\ chain'[m + k] = n + k
        BY <1>6, <1>7
    <2> QED BY <2>1 DEF MinedAt
<1> QED BY <1>6, <1>7, <1>8, <1>9 DEF MinedAbove

(* Mining keeps the chain in order and leaves what was mined as it was. *)
LEMMA MineOnKeepsBy ==
    ASSUME ChainOK, NEW base, NEW txs, Minable(base, txs), MineOn(base, txs),
           NEW n \in Nat, n = Len(blocks), NEW m \in Nat, m = Len(base), NEW l \in Nat, l = Len(txs)
    PROVE  /\ ChainOK' /\ ChainGrows /\ Len(chain') > 1
           /\ \A t \in ChainTxs' : t \in ChainTxs \/ t \in ToSet(txs)
<1>1. /\ Len(blocks') = n + l /\ Len(chain') = m + l
      /\ blocks' \in Seq(BlockType) /\ chain' \in Seq(1..Len(blocks'))
      /\ \A b \in 1..n : blocks'[b] = blocks[b]
      /\ \A i \in 1..m : chain'[i] = chain[i]
      /\ \A k \in 1..l : MinedAt(txs, n, m, k)
    <2>1. MinedAbove(txs, n, m, l)
        BY MineOnPlaces
    <2> QED BY <2>1 DEF MinedAbove
<1>2. \A b \in 1..n : blocks'[b] = blocks[b]
    BY <1>1
<1>3. \A i \in 1..m : chain'[i] = chain[i]
    BY <1>1
<1>4. \A k \in 1..l : chain'[m + k] = n + k
    BY <1>1 DEF MinedAt
<1>5. /\ m >= 1 /\ m <= Len(chain) /\ l >= 1 /\ Len(chain) \in Nat
      /\ \A i \in 1..Len(chain) : chain[i] \in 1..n
      /\ chain[1] = 1 /\ blocks[1].tx = "genesis"
    BY ElementOfSeq DEF Minable, ChainOK, BlocksOK
<1>6. \A i \in 1..m : chain[i] \in 1..n /\ i \in 1..Len(chain)
    BY <1>5
<1>7. \A k \in 1..m : LinkedAt(k)
    BY <1>5 DEF ChainOK, Linked
<1>8. blocks[chain[m]].lineage = {chain[j] : j \in 1..m}
    <2>1. LinkedAt(m)
        BY <1>5, <1>7
    <2> QED BY <2>1 DEF LinkedAt
<1>9. \A k \in 1..l : blocks'[n + k].lineage = {chain[j] : j \in 1..m} \cup (n + 1..n + k)
    BY <1>1, <1>8 DEF MinedAt
<1>10. BlocksOK'
    <2>1. ASSUME NEW b \in 1..n + l PROVE blocks'[b].lineage \subseteq 1..n + l
        <3>1. CASE b <= n
            <4>1. b \in 1..n
                BY <2>1, <3>1
            <4>2. blocks[b].lineage \subseteq 1..n
                BY <4>1 DEF ChainOK, BlocksOK
            <4> QED BY <4>1, <4>2, <1>2
        <3>2. CASE b > n
            <4>1. PICK k \in 1..l : b = n + k
                BY <2>1, <3>2, Beyond
            <4>2. blocks'[b].lineage = {chain[j] : j \in 1..m} \cup (n + 1..n + k)
                BY <4>1, <1>9
            <4>3. n + 1..n + k \subseteq 1..n + l
                BY <4>1
            <4>4. {chain[j] : j \in 1..m} \subseteq 1..n + l
                BY <1>6
            <4> QED BY <4>2, <4>3, <4>4
        <3> QED BY <2>1, <3>1, <3>2
    <2>2. 1 \in 1..m /\ 1 \in 1..n
        BY <1>5, <1>6
    <2>3. chain'[1] = 1 /\ blocks'[1].tx = "genesis"
        BY <2>2, <1>2, <1>3, <1>5
    <2>4. \A b \in 1..Len(blocks') : blocks'[b].lineage \subseteq 1..Len(blocks')
        BY <2>1, <1>1
    <2>5. Len(chain') >= 1
        BY <1>1, <1>5
    <2>6. blocks' \in Seq(BlockType) /\ chain' \in Seq(1..Len(blocks'))
        BY <1>1
    <2> QED BY <2>3, <2>4, <2>5, <2>6 DEF BlocksOK
<1>11. ASSUME NEW k \in 1..m + l PROVE LinkedAt(k)'
    <2>1. CASE k <= m
        <3>1. k \in 1..m
            BY <1>11, <2>1
        <3>2. LinkedAt(k)
            BY <3>1, <1>7
        <3>3. chain'[k] = chain[k] /\ chain[k] \in 1..n
            BY <3>1, <1>3, <1>6
        <3>4. blocks'[chain'[k]] = blocks[chain[k]]
            BY <3>3, <1>2
        <3>5. \A j \in 1..k : chain'[j] = chain[j]
            BY <3>1, <1>3
        <3>6. {chain'[j] : j \in 1..k} = {chain[j] : j \in 1..k}
            BY <3>5
        <3>7. k > 1 => chain'[k - 1] = chain[k - 1]
            BY <3>1, <1>3
        <3> QED BY <3>2, <3>4, <3>6, <3>7 DEF LinkedAt
    <2>2. CASE k > m
        <3>1. PICK i \in 1..l : k = m + i
            BY <1>11, <2>2, Beyond
        <3>2. chain'[k] = n + i
            BY <3>1, <1>4
        <3>3. MinedAt(txs, n, m, i)
            BY <3>1, <1>1
        <3>4. /\ blocks'[chain'[k]].number = m + i - 1
              /\ blocks'[chain'[k]].parent = (IF i = 1 THEN chain[m] ELSE n + i - 1)
            BY <3>2, <3>3 DEF MinedAt
        <3>5. blocks'[chain'[k]].lineage = {chain[j] : j \in 1..m} \cup (n + 1..n + i)
            BY <3>1, <3>2, <1>9
        <3>6. {chain'[j] : j \in 1..k} = {chain[j] : j \in 1..m} \cup (n + 1..n + i)
            <4>1. ASSUME NEW j \in 1..k PROVE chain'[j] \in {chain[x] : x \in 1..m} \cup (n + 1..n + i)
                <5>1. CASE j <= m
                    <6>1. j \in 1..m
                        BY <4>1, <5>1, <1>11
                    <6> QED BY <6>1, <1>3
                <5>2. CASE j > m
                    <6>1. PICK x \in 1..i : j = m + x
                        BY <4>1, <5>2, <3>1, Beyond
                    <6>2. x \in 1..l /\ n + x \in n + 1..n + i
                        BY <6>1, <3>1
                    <6> QED BY <6>1, <6>2, <1>4
                <5> QED BY <5>1, <5>2, <4>1, <1>11
            <4>2. ASSUME NEW j \in 1..m PROVE chain[j] \in {chain'[x] : x \in 1..k}
                <5>1. j \in 1..k
                    BY <4>2, <3>1
                <5> QED BY <5>1, <4>2, <1>3
            <4>3. ASSUME NEW b \in n + 1..n + i PROVE b \in {chain'[x] : x \in 1..k}
                <5>1. b - n \in 1..i /\ b = n + (b - n)
                    BY <4>3, <3>1
                <5>2. PICK x \in 1..i : b = n + x
                    BY <5>1
                <5>3. m + x \in 1..k /\ x \in 1..l
                    BY <5>2, <3>1
                <5>4. chain'[m + x] = b
                    BY <5>2, <5>3, <1>4
                <5> QED BY <5>3, <5>4
            <4> QED BY <4>1, <4>2, <4>3
        <3>7. blocks'[chain'[k]].parent = chain'[k - 1]
            <4>1. CASE i = 1
                <5>1. k - 1 = m /\ m \in 1..m
                    BY <4>1, <3>1, <1>5
                <5> QED BY <4>1, <5>1, <3>4, <1>3
            <4>2. CASE i > 1
                <5>1. i - 1 \in 1..l
                    BY <4>2, <3>1
                <5>2. PICK x \in 1..l : x = i - 1
                    BY <5>1
                <5>3. k - 1 = m + x /\ n + i - 1 = n + x /\ i # 1
                    BY <5>2, <3>1, <4>2
                <5>4. chain'[m + x] = n + x
                    BY <5>2, <1>4
                <5> QED BY <5>3, <5>4, <3>4
            <4> QED BY <4>1, <4>2, <3>1
        <3>8. m + i - 1 = k - 1
            BY <3>1
        <3> QED BY <3>4, <3>5, <3>6, <3>7, <3>8 DEF LinkedAt
    <2> QED BY <2>1, <2>2, <1>11
<1>12. Linked'
    <2>1. \A k \in 1..m + l : LinkedAt(k)'
        BY <1>11
    <2>2. Len(chain') = m + l
        BY <1>1
    <2> QED BY <2>1, <2>2 DEF Linked
<1>13. \A i \in 1..m : blocks'[chain'[i]].tx = blocks[chain[i]].tx
    BY <1>2, <1>3, <1>6
<1>14. \A k \in 1..l : blocks'[chain'[m + k]].tx = txs[k]
    BY <1>1, SMTT(30) DEF MinedAt
<1>15. ASSUME NEW j \in 1..m + l, NEW k \in 1..m + l, blocks'[chain'[j]].tx = blocks'[chain'[k]].tx
      PROVE  j = k
    <2>1. /\ \A i \in 1..m, y \in 1..l : blocks[chain[i]].tx # txs[y]
          /\ \A x, y \in 1..l : txs[x] = txs[y] => x = y
        BY DEF Minable
    <2>2. CASE j <= m /\ k <= m
        <3>1. j \in 1..m /\ k \in 1..m
            BY <2>2, <1>15
        <3>2. j \in 1..Len(chain) /\ k \in 1..Len(chain) /\ blocks[chain[j]].tx = blocks[chain[k]].tx
            BY <3>1, <1>15, <1>6, <1>13
        <3> QED BY <3>2 DEF ChainOK, Ordered
    <2>3. CASE j > m /\ k > m
        <3>1. PICK x \in 1..l : j = m + x
            BY <1>15, <2>3, Beyond
        <3>2. PICK y \in 1..l : k = m + y
            BY <1>15, <2>3, Beyond
        <3>3. txs[x] = txs[y]
            BY <3>1, <3>2, <1>15, <1>14
        <3> QED BY <3>1, <3>2, <3>3, <2>1
    <2>4. CASE j <= m /\ k > m
        <3>1. PICK y \in 1..l : k = m + y
            BY <1>15, <2>4, Beyond
        <3>2. j \in 1..m
            BY <2>4, <1>15
        <3>3. blocks[chain[j]].tx = txs[y]
            BY <3>1, <3>2, <1>13, <1>14, <1>15
        <3> QED BY <3>1, <3>2, <3>3, <2>1
    <2>5. CASE j > m /\ k <= m
        <3>1. PICK y \in 1..l : j = m + y
            BY <1>15, <2>5, Beyond
        <3>2. k \in 1..m
            BY <2>5, <1>15
        <3>3. blocks[chain[k]].tx = txs[y]
            BY <3>1, <3>2, <1>13, <1>14, <1>15
        <3> QED BY <3>1, <3>2, <3>3, <2>1
    <2> QED BY <2>2, <2>3, <2>4, <2>5, <1>15
<1>16. ASSUME NEW k \in 1..m + l, blocks'[chain'[k]].tx \in Foreign
       PROVE  \E j \in 1..k - 1 : blocks'[chain'[j]].tx = "mint"
    <2>1. CASE k <= m
        <3>1. k \in 1..m
            BY <2>1, <1>16
        <3>2. blocks[chain[k]].tx \in Foreign /\ k \in 1..Len(chain)
            BY <3>1, <1>16, <1>6, <1>13
        <3>3. PICK j \in 1..k - 1 : blocks[chain[j]].tx = "mint"
            BY <3>2 DEF ChainOK, Ordered
        <3>4. j \in 1..m
            BY <3>1, <3>3
        <3> QED BY <3>3, <3>4, <1>13
    <2>2. CASE k > m
        <3>1. PICK y \in 1..l : k = m + y
            BY <1>16, <2>2, Beyond
        <3>2. txs[y] \in Foreign
            BY <3>1, <1>16, <1>14
        <3>3. CASE \E j \in 1..y - 1 : txs[j] = "mint"
            <4>1. PICK j \in 1..y - 1 : txs[j] = "mint"
                BY <3>3
            <4>2. m + j \in 1..k - 1 /\ j \in 1..l
                BY <4>1, <3>1
            <4>3. blocks'[chain'[m + j]].tx = "mint"
                BY <4>1, <4>2, <1>14
            <4> QED BY <4>2, <4>3
        <3>4. CASE \E i \in 1..m : blocks[chain[i]].tx = "mint"
            <4>1. PICK i \in 1..m : blocks[chain[i]].tx = "mint"
                BY <3>4
            <4>2. i \in 1..k - 1
                BY <4>1, <3>1
            <4> QED BY <4>1, <4>2, <1>13
        <3> QED BY <3>1, <3>2, <3>3, <3>4 DEF Minable
    <2> QED BY <2>1, <2>2, <1>16
<1>17. Ordered'
    <2>1. Len(chain') = m + l
        BY <1>1
    <2> QED BY <2>1, <1>15, <1>16 DEF Ordered
<1>18. ChainGrows
    <2>1. ASSUME NEW b \in 1..n, b \in Canonical' PROVE b \in Canonical
        <3>1. DOMAIN chain' = 1..m + l
            BY <1>1
        <3>2. PICK i \in 1..m + l : b = chain'[i]
            BY <2>1, <3>1 DEF Canonical, ToSet
        <3>3. i <= m
            <4> SUFFICES ASSUME i > m PROVE FALSE
                BY <3>2
            <4>1. PICK k \in 1..l : i = m + k
                BY <3>2, Beyond
            <4>2. b = n + k
                BY <4>1, <3>2, <1>4
            <4> QED BY <4>1, <4>2, <2>1
        <3>4. i \in 1..m
            BY <3>2, <3>3
        <3>5. b = chain[i] /\ i \in 1..Len(chain)
            BY <3>2, <3>4, <1>3, <1>6
        <3> QED BY <3>5, CanonicalDef
    <2>2. Len(blocks') >= Len(blocks)
        BY <1>1
    <2> QED BY <2>1, <2>2, <1>2 DEF ChainGrows
<1>19. ASSUME NEW t \in ChainTxs' PROVE t \in ChainTxs \/ t \in ToSet(txs)
    <2>1. DOMAIN chain' = 1..m + l /\ DOMAIN chain = 1..Len(chain)
        BY <1>1 DEF ChainOK, BlocksOK
    <2>2. PICK i \in 1..m + l : t = blocks'[chain'[i]].tx
        BY <1>19, <2>1 DEF ChainTxs
    <2>3. CASE i <= m
        <3>1. i \in 1..m
            BY <2>2, <2>3
        <3>2. t = blocks[chain[i]].tx /\ i \in DOMAIN chain
            BY <3>1, <2>1, <2>2, <1>6, <1>13
        <3> QED BY <3>2 DEF ChainTxs
    <2>4. CASE i > m
        <3>1. PICK k \in 1..l : i = m + k
            BY <2>2, <2>4, Beyond
        <3>2. k \in DOMAIN txs
            BY <3>1 DEF Minable
        <3>3. t = txs[k]
            BY <2>2, <3>1, <1>14
        <3> QED BY <3>2, <3>3 DEF ToSet
    <2> QED BY <2>2, <2>3, <2>4
<1>20. Len(chain') > 1
    BY <1>1, <1>5
<1> QED BY <1>10, <1>12, <1>17, <1>18, <1>19, <1>20 DEF ChainOK

(* The node may replace any upper part of its chain: the chain stays in      *)
(* order, only new blocks become canonical, and only the given transactions  *)
(* are new.                                                                  *)
LEMMA MineOnKeeps ==
    ASSUME ChainOK, NEW base, NEW txs, Minable(base, txs), MineOn(base, txs)
    PROVE  /\ ChainOK' /\ ChainGrows /\ Len(chain') > 1
           /\ \A t \in ChainTxs' : t \in ChainTxs \/ t \in ToSet(txs)
<1>1. PICK n \in Nat, m \in Nat, l \in Nat : n = Len(blocks) /\ m = Len(base) /\ l = Len(txs)
    BY DEF Minable, ChainOK, BlocksOK
<1> QED BY <1>1, MineOnKeepsBy

------------------------------------------------------------------------------
(* The transactions a block executed, and those of the chain (eth_getTransactionReceipt). *)
LEMMA OnChainDef ==
    ASSUME ChainOK, NEW tx
    PROVE  /\ OnChain(tx) <=> tx \in ChainTxs
           /\ OnChain(tx) => Location(tx) \in Canonical /\ blocks[Location(tx)].tx = tx
<1>1. Canonical = blocks[ChainHead].lineage
    BY CanonicalFacts
<1>2. Canonical = {chain[k] : k \in 1..Len(chain)} /\ DOMAIN chain = 1..Len(chain)
    BY CanonicalDef DEF ChainOK, BlocksOK
<1>3. OnChain(tx) <=> \E b \in Canonical : blocks[b].tx = tx
    BY <1>1 DEF OnChain, Executed
<1>4. OnChain(tx) <=> tx \in ChainTxs
    BY <1>2, <1>3 DEF ChainTxs
<1> QED BY <1>3, <1>4 DEF Location

(* A single transaction on top of a part of the chain. *)
LEMMA MinableOne ==
    ASSUME ChainOK, NEW base, NEW tx \in Txs, tx \notin ChainTxs,
           base \in Seq(1..Len(blocks)), Len(base) \in 1..Len(chain),
           \A i \in 1..Len(base) : base[i] = chain[i],
           tx \in Foreign => \E i \in 1..Len(base) : blocks[chain[i]].tx = "mint"
    PROVE  Minable(base, <<tx>>) /\ ToSet(<<tx>>) = {tx}
<1>1. DOMAIN chain = 1..Len(chain) /\ Len(chain) \in Nat
    BY DEF ChainOK, BlocksOK
<1>2. PICK s \in Seq(Txs) : s = <<tx>>
    <2>1. <<tx>> \in Seq(Txs)
        OBVIOUS
    <2> QED BY <2>1
<1>3. Len(s) = 1 /\ s[1] = tx /\ DOMAIN s = 1..1
    BY <1>2
<1>4. \A i \in 1..Len(base), k \in 1..Len(s) : blocks[chain[i]].tx # s[k]
    BY <1>1, <1>3, SMTT(30) DEF ChainTxs
<1>5. \A j, k \in 1..Len(s) : s[j] = s[k] => j = k
    BY <1>3
<1>6. \A k \in 1..Len(s) : s[k] \in Foreign => \E i \in 1..Len(base) : blocks[chain[i]].tx = "mint"
    BY <1>3
<1>7. Minable(base, s)
    BY <1>2, <1>3, <1>4, <1>5, <1>6 DEF Minable
<1>8. ToSet(s) = {tx}
    BY <1>3 DEF ToSet
<1> QED BY <1>2, <1>7, <1>8

(* A sent transaction is mined once, or waits for its nonce. *)
LEMMA SentKeeps ==
    ASSUME ChainOK, NEW tx \in PlanTxs, tx \notin ChainTxs, MineSent(tx)
    PROVE  /\ ChainOK' /\ ChainGrows
           /\ Len(chain) > 1 => Len(chain') > 1
           /\ \A t \in ChainTxs' : t \in ChainTxs \/ t = tx
<1>1. CASE MineOn(chain, <<tx>>)
    <2>1. chain \in Seq(1..Len(blocks)) /\ Len(chain) \in 1..Len(chain)
        BY DEF ChainOK, BlocksOK
    <2>2. tx \in Txs /\ tx \notin Foreign
        BY PlanFacts DEF Txs
    <2>3. PICK base : base = chain
        OBVIOUS
    <2>4. Minable(base, <<tx>>) /\ ToSet(<<tx>>) = {tx}
        BY <2>1, <2>2, <2>3, MinableOne
    <2>5. PICK s : s = <<tx>>
        OBVIOUS
    <2>6. Minable(base, s) /\ MineOn(base, s) /\ ToSet(s) = {tx}
        BY <1>1, <2>3, <2>4, <2>5
    <2> QED BY <2>6, MineOnKeeps
<1>2. CASE UNCHANGED <<blocks, chain>>
    <2>1. blocks' = blocks /\ chain' = chain
        BY <1>2
    <2>2. ChainOK'
        BY <2>1, SMTT(30) DEF ChainOK, BlocksOK, Linked, LinkedAt, Ordered
    <2>3. ChainGrows
        BY <2>1 DEF ChainGrows, ChainOK, BlocksOK, Canonical
    <2>4. ChainTxs' = ChainTxs
        BY <2>1 DEF ChainTxs
    <2> QED BY <2>1, <2>2, <2>3, <2>4
<1> QED BY <1>1, <1>2 DEF MineSent

(* The mint below a block. *)
LEMMA MintBelow ==
    ASSUME ChainOK, NEW m \in 1..Len(chain), "mint" \in Executed(chain[m])
    PROVE  \E i \in 1..m : blocks[chain[i]].tx = "mint"
<1>1. blocks[chain[m]].lineage = {chain[j] : j \in 1..m}
    <2>1. LinkedAt(m)
        BY DEF ChainOK, Linked
    <2> QED BY <2>1 DEF LinkedAt
<1> QED BY <1>1 DEF Executed

(* The transactions above height n may be mined again, after one of others or not. *)
LEMMA MinableDropped ==
    ASSUME ChainOK, NEW m \in Nat, m >= 1, m < Len(chain),
           NEW kept \in Seq(1..Len(blocks)), Len(kept) = m, \A i \in 1..m : kept[i] = chain[i],
           NEW dropped \in Seq(Txs), Len(dropped) = Len(chain) - m,
           \A i \in 1..Len(chain) - m : dropped[i] = blocks[chain[m + i]].tx
    PROVE  /\ Minable(kept, dropped) /\ ToSet(dropped) \subseteq ChainTxs
           /\ \A f \in Foreign : f \notin ChainTxs /\ (\E i \in 1..m : blocks[chain[i]].tx = "mint") =>
                 Minable(kept, <<f>> \o dropped) /\ ToSet(<<f>> \o dropped) \subseteq ChainTxs \cup Foreign
<1>1. /\ Len(chain) \in Nat /\ DOMAIN chain = 1..Len(chain)
    BY DEF ChainOK, BlocksOK
<1>2. PICK l \in Nat : l = Len(chain) - m /\ l >= 1
    <2>1. Len(chain) - m \in Nat /\ Len(chain) - m >= 1
        BY <1>1
    <2> QED BY <2>1
<1>3. \A k \in 1..l : dropped[k] = blocks[chain[m + k]].tx /\ m + k \in 1..Len(chain)
    BY <1>1, <1>2
<1>4. \A i \in 1..m : i \in 1..Len(chain)
    BY <1>1
<1>5. \A j, k \in 1..Len(chain) : blocks[chain[j]].tx = blocks[chain[k]].tx => j = k
    BY DEF ChainOK, Ordered
<1>6. \A i \in 1..m, k \in 1..l : blocks[chain[i]].tx # dropped[k]
    <2> SUFFICES ASSUME NEW i \in 1..m, NEW k \in 1..l, blocks[chain[i]].tx = dropped[k] PROVE FALSE
        OBVIOUS
    <2>1. PICK y \in 1..Len(chain) : y = m + k
        BY <1>3
    <2>2. blocks[chain[y]].tx = blocks[chain[i]].tx /\ i \in 1..Len(chain)
        BY <2>1, <1>3, <1>4
    <2>3. i = y
        BY <2>1, <2>2, <1>5
    <2> QED BY <2>1, <2>3, <1>2
<1>7. \A j, k \in 1..l : dropped[j] = dropped[k] => j = k
    <2> SUFFICES ASSUME NEW j \in 1..l, NEW k \in 1..l, dropped[j] = dropped[k] PROVE j = k
        OBVIOUS
    <2>1. PICK x \in 1..Len(chain), y \in 1..Len(chain) : x = m + j /\ y = m + k
        BY <1>3
    <2>2. x = y
        BY <2>1, <1>3, <1>5, ZenonT(30)
    <2> QED BY <2>1, <2>2, <1>2, SMTT(30)
<1>8. ASSUME NEW k \in 1..l, dropped[k] \in Foreign
      PROVE  \/ \E j \in 1..k - 1 : dropped[j] = "mint"
             \/ \E i \in 1..m : blocks[chain[i]].tx = "mint"
    <2>1. PICK y \in 1..Len(chain) : y = m + k
        BY <1>3, <1>8
    <2>2. PICK j \in 1..y - 1 : blocks[chain[j]].tx = "mint"
        <3>1. blocks[chain[y]].tx \in Foreign
            BY <2>1, <1>3, <1>8
        <3> QED BY <2>1, <3>1 DEF ChainOK, Ordered
    <2>3. CASE j <= m
        <3>1. j \in 1..m
            BY <2>2, <2>3
        <3> QED BY <3>1, <2>2
    <2>4. CASE j > m
        <3>1. j - m \in 1..k - 1 /\ j - m \in 1..l /\ m + (j - m) = j
            BY <2>1, <2>2, <2>4, <1>2, <1>8
        <3>2. PICK x \in 1..k - 1 : x = j - m
            BY <3>1
        <3>3. dropped[x] = "mint"
            BY <3>1, <3>2, <2>2, <1>3
        <3> QED BY <3>2, <3>3
    <2> QED BY <2>2, <2>3, <2>4
<1>9. Minable(kept, dropped)
    <2>1. Len(dropped) = l
        BY <1>2
    <2>2. Len(kept) \in 1..Len(chain)
        BY <1>1
    <2>3. \A k \in 1..l : dropped[k] \in Foreign =>
             \/ \E j \in 1..k - 1 : dropped[j] = "mint"
             \/ \E i \in 1..m : blocks[chain[i]].tx = "mint"
        BY <1>8
    <2> QED BY <2>1, <2>2, <2>3, <1>2, <1>6, <1>7 DEF Minable
<1>10. \A k \in 1..l : dropped[k] \in ChainTxs
    <2> SUFFICES ASSUME NEW k \in 1..l PROVE dropped[k] \in ChainTxs
        OBVIOUS
    <2>1. PICK y \in 1..Len(chain) : y = m + k
        BY <1>3
    <2>2. dropped[k] = blocks[chain[y]].tx /\ y \in DOMAIN chain
        BY <2>1, <1>1, <1>3
    <2> QED BY <2>2 DEF ChainTxs
<1>11. ToSet(dropped) \subseteq ChainTxs
    <2>1. DOMAIN dropped = 1..l
        BY <1>2
    <2> QED BY <2>1, <1>10 DEF ToSet
<1>12. ASSUME NEW f \in Foreign, f \notin ChainTxs, \E i \in 1..m : blocks[chain[i]].tx = "mint"
       PROVE  Minable(kept, <<f>> \o dropped) /\ ToSet(<<f>> \o dropped) \subseteq ChainTxs \cup Foreign
    <2>1. PICK h \in Seq(Txs) : h = <<f>>
        <3>1. f \in Txs
            BY <1>12 DEF Txs
        <3>2. <<f>> \in Seq(Txs)
            BY <3>1
        <3> QED BY <3>2
    <2>2. Len(h) = 1 /\ h[1] = f
        BY <2>1
    <2>3. PICK s : s = h \o dropped
        OBVIOUS
    <2>4. /\ s \in Seq(Txs) /\ Len(s) = l + 1 /\ s[1] = f
          /\ \A k \in 1..l : s[1 + k] = dropped[k]
        <3>1. h \in Seq(Txs)
            BY <2>1
        <3>2. h \o dropped \in Seq(Txs)
            BY <3>1, Joined
        <3>3. Len(h \o dropped) = Len(h) + Len(dropped)
            BY <3>1, Joined
        <3>4. \A i \in 1..Len(h) : (h \o dropped)[i] = h[i]
            BY <3>1, Joined
        <3>5. \A k \in 1..Len(dropped) : (h \o dropped)[Len(h) + k] = dropped[k]
            BY <3>1, Joined
        <3> QED BY <3>2, <3>3, <3>4, <3>5, <2>2, <2>3, <1>2, SMTT(30)
    <2>5. \A k \in 1..l + 1 : k = 1 \/ \E j \in 1..l : k = 1 + j
        <3> SUFFICES ASSUME NEW k \in 1..l + 1, k # 1 PROVE \E j \in 1..l : k = 1 + j
            OBVIOUS
        <3>1. k - 1 \in 1..l /\ k = 1 + (k - 1)
            OBVIOUS
        <3> QED BY <3>1
    <2>6. \A k \in 1..l : dropped[k] # f
        BY <1>10, <1>12
    <2>7. \A i \in 1..m : blocks[chain[i]].tx # f
        BY <1>4, <1>1, <1>12 DEF ChainTxs
    <2>8. \A i \in 1..m, k \in 1..l + 1 : blocks[chain[i]].tx # s[k]
        <3> SUFFICES ASSUME NEW i \in 1..m, NEW k \in 1..l + 1 PROVE blocks[chain[i]].tx # s[k]
            OBVIOUS
        <3>1. CASE k = 1
            BY <3>1, <2>4, <2>7
        <3>2. ASSUME NEW j \in 1..l, k = 1 + j PROVE blocks[chain[i]].tx # s[k]
            <4>1. s[k] = dropped[j]
                BY <3>2, <2>4
            <4> QED BY <4>1, <3>2, <1>6
        <3> QED BY <3>1, <3>2, <2>5
    <2>9. \A j, k \in 1..l + 1 : s[j] = s[k] => j = k
        <3> SUFFICES ASSUME NEW j \in 1..l + 1, NEW k \in 1..l + 1, s[j] = s[k] PROVE j = k
            OBVIOUS
        <3>1. \A x \in 1..l : s[1 + x] = dropped[x] /\ dropped[x] # f
            BY <2>4, <2>6
        <3>2. ASSUME NEW x \in 1..l, NEW y \in 1..l, j = 1 + x, k = 1 + y PROVE j = k
            <4>1. dropped[x] = dropped[y]
                BY <3>1, <3>2
            <4> QED BY <4>1, <3>2, <1>7
        <3>3. j = 1 \/ \E x \in 1..l : j = 1 + x
            BY <2>5
        <3>4. k = 1 \/ \E y \in 1..l : k = 1 + y
            BY <2>5
        <3>5. ASSUME NEW x \in 1..l, j = 1 + x, k = 1 PROVE FALSE
            BY <3>1, <3>5, <2>4
        <3>6. ASSUME NEW x \in 1..l, k = 1 + x, j = 1 PROVE FALSE
            BY <3>1, <3>6, <2>4
        <3> QED BY <3>2, <3>3, <3>4, <3>5, <3>6
    <2>10. Len(kept) \in 1..Len(chain)
        BY <1>1
    <2>11. Minable(kept, s)
        BY <2>4, <2>8, <2>9, <2>10, <1>2, <1>12 DEF Minable
    <2>12. ToSet(s) \subseteq ChainTxs \cup Foreign
        <3>1. \A k \in 1..l : s[1 + k] \in ChainTxs
            BY <2>4, <1>10
        <3>2. DOMAIN s = 1..l + 1
            BY <2>4
        <3>3. \A k \in 1..l + 1 : s[k] \in ChainTxs \cup Foreign
            BY <3>1, <2>4, <2>5, <1>12
        <3> QED BY <3>2, <3>3 DEF ToSet
    <2> QED BY <2>1, <2>3, <2>11, <2>12
<1> QED BY <1>9, <1>11, <1>12

(* Blocks of others and replacements of the chain keep it in order. *)
LEMMA MovesKeep ==
    ASSUME ChainOK, MineForeign \/ Reorg
    PROVE  /\ ChainOK' /\ ChainGrows /\ Len(chain') > 1
           /\ \A t \in ChainTxs' : t \in ChainTxs \/ t \in Foreign
<1>1. /\ chain \in Seq(1..Len(blocks)) /\ blocks \in Seq(BlockType) /\ Len(chain) \in Nat /\ Len(chain) >= 1
      /\ DOMAIN chain = 1..Len(chain)
    BY DEF ChainOK, BlocksOK
<1>2. CASE MineForeign
    <2>1. PICK f \in Foreign : OnChain("mint") /\ ~OnChain(f) /\ MineOn(chain, <<f>>)
        BY <1>2 DEF MineForeign
    <2>2. f \in Txs /\ f \notin ChainTxs
        BY <2>1, OnChainDef DEF Txs
    <2>3. \E i \in 1..Len(chain) : blocks[chain[i]].tx = "mint"
        BY <1>1, <2>1, OnChainDef DEF ChainTxs
    <2>4. PICK base : base = chain
        OBVIOUS
    <2>5. /\ base \in Seq(1..Len(blocks)) /\ Len(base) \in 1..Len(chain)
          /\ \A i \in 1..Len(base) : base[i] = chain[i]
          /\ \E i \in 1..Len(base) : blocks[chain[i]].tx = "mint"
        BY <1>1, <2>3, <2>4
    <2>6. Minable(base, <<f>>) /\ ToSet(<<f>>) = {f}
        BY <2>2, <2>5, MinableOne
    <2>7. PICK s : s = <<f>>
        OBVIOUS
    <2>8. Minable(base, s) /\ MineOn(base, s) /\ ToSet(s) = {f}
        BY <2>1, <2>4, <2>6, <2>7
    <2> QED BY <2>1, <2>8, MineOnKeeps
<1>3. CASE Reorg
    <2>1. PICK n \in 0..HeadNumber - 1 :
             LET kept == SubSeq(chain, 1, n + 1)
                 dropped == [i \in 1..HeadNumber - n |-> blocks[chain[n + 1 + i]].tx]
             IN \/ MineOn(kept, dropped)
                \/ \E f \in Foreign :
                     /\ "mint" \in Executed(Last(kept)) /\ ~OnChain(f)
                     /\ \/ MineOn(kept, <<f>>)
                        \/ MineOn(kept, <<f>> \o dropped)
        BY <1>3 DEF Reorg
    <2>2. PICK m \in Nat : m = n + 1 /\ m >= 1 /\ m < Len(chain)
        <3>1. n + 1 \in Nat /\ n + 1 >= 1 /\ n + 1 < Len(chain)
            BY <1>1, <2>1 DEF HeadNumber
        <3> QED BY <3>1
    <2>3. PICK kept : kept = SubSeq(chain, 1, m)
        OBVIOUS
    <2>4. PICK dropped : dropped = [i \in 1..Len(chain) - m |-> blocks[chain[m + i]].tx]
        OBVIOUS
    <2>5. \/ MineOn(kept, dropped)
          \/ \E f \in Foreign :
               /\ "mint" \in Executed(Last(kept)) /\ ~OnChain(f)
               /\ \/ MineOn(kept, <<f>>)
                  \/ MineOn(kept, <<f>> \o dropped)
        <3>1. HeadNumber - n = Len(chain) - m
            BY <1>1, <2>1, <2>2 DEF HeadNumber
        <3> QED BY <2>1, <2>2, <2>3, <2>4, <3>1
    <2>6. /\ kept \in Seq(1..Len(blocks)) /\ Len(kept) = m /\ \A i \in 1..m : kept[i] = chain[i]
          /\ Last(kept) = chain[m] /\ Len(kept) \in 1..Len(chain) /\ m \in 1..Len(chain)
        <3>1. /\ kept \in Seq(1..Len(blocks)) /\ Len(kept) = m /\ \A i \in 1..m : kept[i] = chain[i]
            BY <1>1, <2>2, <2>3
        <3>2. m \in 1..m /\ m \in 1..Len(chain)
            BY <1>1, <2>2
        <3>3. kept[m] = chain[m]
            BY <3>1, <3>2
        <3> QED BY <3>1, <3>2, <3>3 DEF Last
    <2>7. PICK l \in Nat : l = Len(chain) - m
        <3>1. Len(chain) - m \in Nat
            BY <1>1, <2>2
        <3> QED BY <3>1
    <2>8. /\ dropped \in Seq(Txs) /\ Len(dropped) = Len(chain) - m
          /\ \A i \in 1..Len(chain) - m : dropped[i] = blocks[chain[m + i]].tx
        <3>1. ASSUME NEW i \in 1..l PROVE blocks[chain[m + i]].tx \in Txs
            <4>1. PICK k \in 1..Len(chain) : k = m + i
                <5>1. m + i \in 1..Len(chain)
                    BY <3>1, <2>2, <2>7, <1>1
                <5> QED BY <5>1
            <4>2. chain[k] \in 1..Len(blocks)
                BY <4>1, <1>1, ElementOfSeq
            <4>3. blocks[chain[k]] \in BlockType
                BY <4>2, <1>1, ElementOfSeq
            <4> QED BY <4>1, <4>3 DEF BlockType
        <3>2. dropped \in [1..l -> Txs]
            BY <3>1, <2>4, <2>7
        <3>3. dropped \in Seq(Txs) /\ Len(dropped) = l
            BY <3>2, <2>7, FunctionIsSeq
        <3> QED BY <3>3, <2>4, <2>7
    <2>9. /\ Minable(kept, dropped) /\ ToSet(dropped) \subseteq ChainTxs
          /\ \A f \in Foreign : f \notin ChainTxs /\ (\E i \in 1..m : blocks[chain[i]].tx = "mint") =>
                Minable(kept, <<f>> \o dropped) /\ ToSet(<<f>> \o dropped) \subseteq ChainTxs \cup Foreign
        BY <2>2, <2>6, <2>8, MinableDropped
    <2>10. CASE MineOn(kept, dropped)
        BY <2>9, <2>10, MineOnKeeps
    <2>11. ASSUME NEW f \in Foreign, "mint" \in Executed(Last(kept)), ~OnChain(f),
                  MineOn(kept, <<f>>) \/ MineOn(kept, <<f>> \o dropped)
           PROVE  /\ ChainOK' /\ ChainGrows /\ Len(chain') > 1
                  /\ \A t \in ChainTxs' : t \in ChainTxs \/ t \in Foreign
        <3>1. f \in Txs /\ f \notin ChainTxs
            BY <2>11, OnChainDef DEF Txs
        <3>2. \E i \in 1..m : blocks[chain[i]].tx = "mint"
            BY <2>6, <2>11, MintBelow
        <3>3. Minable(kept, <<f>>) /\ ToSet(<<f>>) = {f}
            BY <2>6, <3>1, <3>2, MinableOne
        <3>4. PICK s : Minable(kept, s) /\ MineOn(kept, s) /\ ToSet(s) \subseteq ChainTxs \cup Foreign
            <4>1. CASE MineOn(kept, <<f>>)
                BY <4>1, <3>3, <2>11
            <4>2. CASE MineOn(kept, <<f>> \o dropped)
                BY <4>2, <3>1, <3>2, <2>9, <2>11
            <4> QED BY <4>1, <4>2, <2>11
        <3> QED BY <3>4, MineOnKeeps
    <2> QED BY <2>5, <2>10, <2>11
<1> QED BY <1>2, <1>3

------------------------------------------------------------------------------
(* A sequence, of whatever. *)
IsSeq(s) == \E S : s \in Seq(S)

Identifier == {i \in Int : i <= Len(blocks)}
Anchor == [number : Nat \ {0}, id : Identifier]

ToolFields == {"job", "pc", "options", "todo", "then", "latest", "view", "report", "held", "polls",
               "seen", "before", "rows"}
BundleFields == {"receipts", "runtime", "capture", "check"}

IsBundle(b) ==
    /\ DOMAIN b = BundleFields
    /\ b.receipts \in [PlanTxs -> Anchor]
    /\ b.runtime \in [number : Nat, id : Identifier]

Mined(b) == b \in 1..Len(blocks)

(* A receipt's block that is still canonical lies below the captured head. *)
Below(b, head) == b \in Canonical => b \in blocks[head].lineage
ReceiptsBelow(b) == Mined(b.runtime.id) => \A x \in PlanTxs : Below(b.receipts[x].id, b.runtime.id)

(* The retained blocks are on one chain, that of the captured head. *)
Settled(x) == Mined(bundle.runtime.id) => bundle.receipts[x].id \in blocks[bundle.runtime.id].lineage
OneChain == Mined(bundle.runtime.id) /\ RetainedBlocks \subseteq blocks[bundle.runtime.id].lineage

ReportOK(r) ==
    /\ IsBundle(bundle) /\ OneChain
    /\ r.anchor = bundle.runtime
    /\ RetainedBlocks \subseteq r.view

BundleOK ==
    bundle # Nothing =>
      /\ Len(chain) > 1 /\ IsBundle(bundle) /\ ReceiptsBelow(bundle)
      /\ bundle.check # Nothing => ReportOK(bundle.check)

AcceptedOK ==
    accepted # {} =>
      /\ Len(chain) > 1 /\ IsBundle(bundle) /\ OneChain
      /\ \A o \in accepted : o.id = bundle.runtime.id

RowsPublished(rows) ==
    /\ IsSeq(rows)
    /\ \A i \in 1..Len(rows) :
         /\ Mined(rows[i].after)
         /\ blocks[rows[i].after].parent = rows[i].before
         /\ i < Len(rows) => rows[i].after = rows[i + 1].before /\ rows[i].to = rows[i + 1].from
    /\ Last(rows).to.balances = [a \in Accounts |-> Moved(PlanTxs, a)]

(* Where a snapshot must have been taken. *)
AtBoundary(x, relation, b) ==
    IF relation = "after" THEN b = bundle.receipts[x].id
    ELSE Mined(bundle.receipts[x].id) /\ b = blocks[bundle.receipts[x].id].parent

SnapshotOK(s) ==
    /\ AtBoundary(s.tx, s.relation, s.block)
    /\ Mined(s.block)
    /\ s.state = AllocatorAt(s.block)

SnapshotsOK(rows) == IsSeq(rows) /\ \A i \in 1..Len(rows) : SnapshotOK(rows[i])

PublishedOK ==
    /\ DOMAIN published = {"token", "allocator"}
    /\ published.token # Nothing => Len(chain) > 1 /\ RowsPublished(published.token)
    /\ published.allocator # Nothing => Len(chain) > 1 /\ SnapshotsOK(published.allocator)

World == ChainOK /\ BundleOK /\ AcceptedOK /\ PublishedOK

(* The node and its answer: only a valid proof is accepted by the pinned code. *)
AnvilType == [state : {"none", "starting", "ready", "dead"}, pinned : BOOLEAN,
              said : {"silent", "accepted", "error", "data"}, orphan : BOOLEAN]

ProofOK ==
    /\ anvil \in AnvilType
    /\ anvil.pinned /\ anvil.said = "accepted" => source.proofValid
    /\ proof = "verified" => source.proofValid /\ anvil.said = "accepted"
    /\ proof = "not_verified" => anvil.said = "error"

(* Where the proof check has got to; a report exists only at its end. *)
NodeReleased == anvil.state \in {"starting", "ready"} => anvil.orphan

ProverPcs == ProverSteps \cup {"finish"}

AnvilOK(t) ==
    /\ t.pc \notin ProverSteps => NodeReleased
    /\ t.pc \notin {"terminate", "finish"} => proof = "none"
    /\ t.pc \in {"poll", "install"} => anvil.said = "silent"
    /\ t.pc \in {"call", "answered"} => anvil.pinned
    /\ t.pc = "answered" => anvil.said = "error"

------------------------------------------------------------------------------
(* What holds of a command at each of its steps. *)

SendPcs == {"send", "await", "fetch"}
CapturePcs == {"capturehead", "runtime", "create"}
WritePcs == {"broadcast", "writeruntime", "writecapture"}
ReplayPcs == SendPcs \cup CapturePcs \cup WritePcs
LivePcs == {"head", "header", "parent", "receipt", "blocktxs", "livetx", "reference", "anchored", "latest"}
BlockPcs == {"txblock", "txblocktxs"}
RowPcs == {"before", "beforereads", "afterreads", "decimals"}
TokenPcs == BlockPcs \cup {"sweep"} \cup RowPcs
SnapPcs == {"snapblock", "snaptxs", "snapnext", "snapreads"}

Distinct(s) == \A i, j \in 1..Len(s) : s[i] = s[j] => i = j

(* The transactions still to be sent are not on the chain. *)
Unsent(t) == IF t.pc = "send" THEN 1..Len(t.todo) ELSE 2..Len(t.todo)

Sending(t) ==
    /\ t.todo \in Seq(PlanTxs) /\ Len(t.todo) >= 1 /\ Distinct(t.todo)
    /\ t.seen \in Seq(Anchor)
    /\ Len(t.seen) + Len(t.todo) = (IF t.pc = "fetch" THEN 11 ELSE 10)
    /\ \A i \in Unsent(t) : t.todo[i] \notin ChainTxs
    /\ Len(t.seen) > 0 => Len(chain) > 1

SeenBelow(t) == Mined(t.held) /\ \A k \in 1..10 : Below(t.seen[k].id, t.held)

Writing(t) ==
    /\ IsBundle(bundle) /\ bundle.check = Nothing
    /\ t.pc \in {"broadcast", "writeruntime"} =>
         /\ ~Mined(bundle.runtime.id)
         /\ \A x \in PlanTxs : Below(bundle.receipts[x].id, t.held)
    /\ t.pc = "writecapture" => ReceiptsBelow(bundle)

ReplayPhase(t) ==
    /\ t.job = "replay" /\ t.report = Nothing
    /\ accepted = {} /\ published.token = Nothing /\ published.allocator = Nothing
    /\ t.pc \in SendPcs => Sending(t)
    /\ t.pc \notin SendPcs =>
         /\ Len(chain) > 1
         /\ t.seen \in Seq(Anchor) /\ Len(t.seen) = 10
         /\ t.pc # "capturehead" => SeenBelow(t)
    /\ t.pc \in WritePcs => Writing(t)

LivePhase(t) ==
    /\ t.job # "replay" => t.seen = <<>> /\ t.rows = <<>>
    /\ t.pc \in {"receipt", "blocktxs", "livetx"} =>
         /\ t.todo \in Seq(PlanTxs) /\ Len(t.todo) >= 1
         /\ \A x \in PlanTxs : x \in ToSet(t.todo) \/ Settled(x)
    /\ t.pc \in {"reference", "anchored", "latest"} => \A x \in PlanTxs : Settled(x)
    /\ t.pc = "latest" => OneChain /\ RetainedBlocks \subseteq t.view

(* The remaining numbers, after the first n. *)
Remaining(t, n) ==
    /\ IsSeq(t.todo) /\ n + Len(t.todo) = Len(t.then)
    /\ \A i \in 1..Len(t.todo) : t.todo[i] = t.then[n + i]

Heights(t) ==
    /\ t.seen \in Seq(1..Len(blocks))
    /\ \A k \in 1..Len(t.seen) : Height(t.seen[k]) = t.then[k]

BlockPhase(t) ==
    /\ t.rows = <<>>
    /\ Heights(t) /\ Remaining(t, Len(t.seen)) /\ Len(t.todo) >= 1
    /\ Len(t.seen) > 0 => SeparateBoundaries
    /\ t.pc = "txblocktxs" => SeparateBoundaries /\ Mined(t.held) /\ Height(t.held) = t.todo[1]

AllMoved(b) == Executed(b) \cap DOMAIN Transfers = PlanTxs \cap DOMAIN Transfers

RowOK(t, k) ==
    LET r == t.rows[k]
    IN /\ r.after = t.seen[k] /\ r.before = blocks[t.seen[k]].parent
       /\ Mined(r.before)
       /\ r.to = TokenStateAt(r.after) /\ r.from = TokenStateAt(r.before)
       /\ k > 1 => r.before = t.seen[k - 1]

ParentOf(b, p) == b \in Canonical => blocks[b].parent = p

RowPhase(t) ==
    LET n == Len(t.rows)
    IN /\ Heights(t) /\ Len(t.seen) = Len(t.then) /\ SeparateBoundaries
       /\ IsSeq(t.rows) /\ Remaining(t, n)
       /\ \A k \in 1..n : RowOK(t, k)
       /\ t.pc # "decimals" =>
            /\ Len(t.todo) >= 1
            /\ n > 0 => ParentOf(t.seen[n + 1], t.seen[n])
            /\ Last(t.seen) \in Canonical => AllMoved(Last(t.seen))
       /\ t.pc \in {"beforereads", "afterreads"} => ParentOf(t.seen[n + 1], t.held)
       /\ t.pc = "afterreads" => Mined(t.held) /\ t.before = TokenStateAt(t.held)
       /\ t.pc = "decimals" => Len(t.todo) = 0 /\ Mined(Last(t.seen)) /\ AllMoved(Last(t.seen))

TokenPhase(t) ==
    /\ t.job = "token"
    /\ t.pc \in BlockPcs => BlockPhase(t)
    /\ t.pc = "sweep" => /\ Heights(t) /\ Len(t.seen) = Len(t.then) /\ SeparateBoundaries
                         /\ t.todo = t.then /\ Len(t.then) >= 1 /\ t.rows = <<>>
    /\ t.pc \in RowPcs => RowPhase(t)

SnapPhase(t) ==
    /\ SnapshotsOK(t.rows)
    /\ t.pc \in SnapPcs => /\ IsSeq(t.todo) /\ Len(t.todo) >= 1
                           /\ \A i \in 1..Len(t.todo) : t.todo[i].tx \in PlanTxs
    /\ t.pc = "snapnext" => t.todo[1].relation # "after"
    /\ t.pc = "snapreads" => AtBoundary(t.todo[1].tx, t.todo[1].relation, t.held)

CommandOK(t) ==
    /\ DOMAIN t = ToolFields
    /\ t.job \in {"receipts", "replay", "token", "allocator"}
    /\ t.pc \in ReplayPcs => ReplayPhase(t)
    /\ t.pc \notin ReplayPcs => Len(chain) > 1 /\ IsBundle(bundle) /\ ReceiptsBelow(bundle)
    /\ t.report # Nothing => ReportOK(t.report)
    /\ t.job = "token" => t.then = Ascending(Numbers)
    /\ t.job = "allocator" => t.then = ClaimBoundaries
    /\ t.pc \in LivePcs => LivePhase(t)
    /\ t.pc \in TokenPcs => TokenPhase(t)
    /\ t.pc \in SnapPcs \cup {"probe"} => SnapPhase(t)

ToolOK(t) == t = Idle \/ CommandOK(t)

EvidenceInv == World /\ ProofOK /\ AnvilOK(tool) /\ ToolOK(tool)

------------------------------------------------------------------------------
(* Facts about sequences that the steps of the commands use. *)
LEMMA TailFacts ==
    ASSUME NEW S, NEW s \in Seq(S), Len(s) >= 1
    PROVE  /\ Tail(s) \in Seq(S) /\ Len(Tail(s)) = Len(s) - 1 /\ s[1] \in S
           /\ \A i \in 1..Len(s) - 1 : Tail(s)[i] = s[i + 1]
           /\ Tail(s) # <<>> <=> Len(s) > 1
OBVIOUS

(* A row or block that a command adds at the end of what it collected. *)
LEMMA AppendFacts ==
    ASSUME NEW S, NEW s \in Seq(S), NEW x \in S
    PROVE  /\ Append(s, x) \in Seq(S) /\ Len(Append(s, x)) = Len(s) + 1
           /\ \A i \in 1..Len(s) : Append(s, x)[i] = s[i]
           /\ Append(s, x)[Len(s) + 1] = x
OBVIOUS

(* The same for a sequence whose elements are of no particular set. *)
LEMMA IsSeqFacts ==
    ASSUME NEW s, IsSeq(s)
    PROVE  /\ Len(s) \in Nat /\ DOMAIN s = 1..Len(s)
           /\ s = <<>> <=> Len(s) = 0
           /\ Len(s) >= 1 => /\ IsSeq(Tail(s)) /\ Len(Tail(s)) = Len(s) - 1
                             /\ \A i \in 1..Len(s) - 1 : Tail(s)[i] = s[i + 1]
                             /\ Tail(s) # <<>> <=> Len(s) > 1
           /\ \A x : /\ IsSeq(Append(s, x)) /\ Len(Append(s, x)) = Len(s) + 1
                     /\ \A i \in 1..Len(s) : Append(s, x)[i] = s[i]
                     /\ Append(s, x)[Len(s) + 1] = x
<1>1. PICK S : s \in Seq(S)
    BY DEF IsSeq
<1>2. Len(s) \in Nat /\ DOMAIN s = 1..Len(s) /\ (s = <<>> <=> Len(s) = 0)
    BY <1>1
<1>3. ASSUME Len(s) >= 1
      PROVE  /\ IsSeq(Tail(s)) /\ Len(Tail(s)) = Len(s) - 1
             /\ \A i \in 1..Len(s) - 1 : Tail(s)[i] = s[i + 1]
             /\ Tail(s) # <<>> <=> Len(s) > 1
    BY <1>1, <1>3, TailFacts DEF IsSeq
<1>4. ASSUME NEW x
      PROVE  /\ IsSeq(Append(s, x)) /\ Len(Append(s, x)) = Len(s) + 1
             /\ \A i \in 1..Len(s) : Append(s, x)[i] = s[i]
             /\ Append(s, x)[Len(s) + 1] = x
    <2>1. PICK T : T = S \cup {x}
        OBVIOUS
    <2>2. s \in Seq(T) /\ x \in T
        BY <1>1, <2>1
    <2> QED BY <2>2, AppendFacts DEF IsSeq
<1> QED BY <1>2, <1>3, <1>4

(* A sequence over a set is one over every larger set. *)
LEMMA SeqWider == ASSUME NEW S, NEW T, S \subseteq T, NEW s \in Seq(S) PROVE s \in Seq(T)
OBVIOUS

(* The list a command starts with. *)
LEMMA EmptyIsSeq == IsSeq(<<>>) /\ Len(<<>>) = 0
<1>1. <<>> \in Seq({})
    OBVIOUS
<1> QED BY <1>1 DEF IsSeq

------------------------------------------------------------------------------
(* What every step leaves of the chain: it grows, and stays in order. *)
Grown == /\ ChainOK /\ ChainOK' /\ ChainGrows
         /\ Len(chain) > 1 => Len(chain') > 1

(* A step of a command moves nothing on the node. *)
LEMMA GrownSame == ASSUME ChainOK, blocks' = blocks, chain' = chain PROVE Grown /\ ChainTxs' = ChainTxs
<1>1. ChainOK'
    BY DEF ChainOK, BlocksOK, Linked, LinkedAt, Ordered
<1>2. ChainGrows
    BY DEF ChainGrows, ChainOK, BlocksOK, Canonical
<1> QED BY <1>1, <1>2 DEF Grown, ChainTxs

(* A hash names its block for ever, an identifier that names no block never  *)
(* will, and a replaced block does not become canonical again.               *)
LEMMA GrownBlocks ==
    ASSUME Grown
    PROVE  /\ Len(blocks) \in Nat /\ Len(blocks') \in Nat /\ Len(blocks') >= Len(blocks)
           /\ \A b : Mined(b) => Mined(b)' /\ blocks'[b] = blocks[b]
           /\ \A i \in Identifier : i \in Identifier' /\ (Mined(i)' <=> Mined(i))
           /\ \A i \in Identifier : i \in Canonical' => i \in Canonical
<1>1. Len(blocks) \in Nat /\ Len(blocks') \in Nat /\ Len(blocks') >= Len(blocks)
    BY DEF Grown, ChainOK, BlocksOK, ChainGrows
<1>2. \A b : Mined(b) => Mined(b)' /\ blocks'[b] = blocks[b]
    BY <1>1 DEF Mined, Grown, ChainGrows
<1>3. \A i \in Identifier : i \in Identifier' /\ (Mined(i)' <=> Mined(i))
    BY <1>1 DEF Identifier, Mined
<1>4. Canonical' \subseteq 1..Len(blocks')
    <2>1. chain' \in Seq(1..Len(blocks'))
        BY DEF Grown, ChainOK, BlocksOK
    <2>2. \A k \in 1..Len(chain') : chain'[k] \in 1..Len(blocks')
        BY <2>1, ElementOfSeq
    <2> QED BY <2>1, <2>2 DEF Canonical, ToSet
<1>5. ASSUME NEW i \in Identifier, i \in Canonical' PROVE i \in Canonical
    <2>1. Mined(i)
        BY <1>1, <1>4, <1>5 DEF Mined, Identifier
    <2> QED BY <1>5, <2>1 DEF Mined, Grown, ChainGrows
<1> QED BY <1>1, <1>2, <1>3, <1>5

(* A mined block answers for ever as it did (eth_call at a block hash). *)
LEMMA GrownStates ==
    ASSUME Grown, NEW b, Mined(b)
    PROVE  /\ Executed(b)' = Executed(b)
           /\ TokenStateAt(b)' = TokenStateAt(b)
           /\ AllocatorAt(b)' = AllocatorAt(b)
           /\ AllMoved(b) => AllMoved(b)'
<1>1. blocks'[b] = blocks[b]
    BY GrownBlocks
<1>2. \A c \in blocks[b].lineage : Mined(c)
    BY DEF Grown, ChainOK, BlocksOK, Mined
<1>3. \A c \in blocks[b].lineage : blocks'[c].tx = blocks[c].tx
    BY <1>2, GrownBlocks
<1>4. Executed(b)' = Executed(b)
    BY <1>1, <1>3 DEF Executed
<1>5. \A a : BalanceAt(b, a)' = BalanceAt(b, a)
    BY <1>4 DEF BalanceAt
<1>6. BalancesAt(b)' = BalancesAt(b)
    BY <1>5 DEF BalancesAt
<1>7. SupplyAt(b)' = SupplyAt(b)
    BY <1>5 DEF SupplyAt
<1>8. TokenStateAt(b)' = TokenStateAt(b)
    BY <1>6, <1>7 DEF TokenStateAt
<1>9. AllocatorAt(b)' = AllocatorAt(b)
    BY <1>4 DEF AllocatorAt
<1>10. AllMoved(b) => AllMoved(b)'
    BY <1>4 DEF AllMoved
<1> QED BY <1>4, <1>8, <1>9, <1>10

(* A recorded number and hash stays one. *)
LEMMA GrownAnchors == ASSUME Grown PROVE Anchor \subseteq Anchor' /\ \A s \in Seq(Anchor) : s \in Seq(Anchor)'
<1>1. \A a \in Anchor : a \in Anchor'
    <2> SUFFICES ASSUME NEW a \in Anchor PROVE a \in Anchor'
        OBVIOUS
    <2>1. a.number \in Nat \ {0} /\ a.id \in Identifier /\ a = [number |-> a.number, id |-> a.id]
        BY DEF Anchor
    <2>2. a.id \in Identifier'
        BY <2>1, GrownBlocks
    <2> QED BY <2>1, <2>2 DEF Anchor
<1> QED BY <1>1

(* A receipt's block stays below the captured head while it is canonical. *)
LEMMA GrownBelow ==
    ASSUME Grown, NEW b \in Identifier, NEW h, Mined(h), Below(b, h)
    PROVE  Below(b, h)'
<1>1. blocks'[h] = blocks[h]
    BY GrownBlocks
<1>2. b \in Canonical' => b \in Canonical
    BY GrownBlocks
<1> QED BY <1>1, <1>2 DEF Below

(* The hashes a bundle keeps name mined blocks or nothing. *)
LEMMA BundleIds ==
    ASSUME IsBundle(bundle)
    PROVE  bundle.runtime.id \in Identifier /\ \A x \in PlanTxs : bundle.receipts[x] \in Anchor /\ bundle.receipts[x].id \in Identifier
BY DEF IsBundle, Anchor

(* What is known of the bundle outlives the growth of the chain. *)
LEMMA GrownBundle ==
    ASSUME Grown, bundle' = bundle, IsBundle(bundle)
    PROVE  /\ IsBundle(bundle)'
           /\ RetainedBlocks' = RetainedBlocks
           /\ ReceiptsBelow(bundle) => ReceiptsBelow(bundle)'
           /\ \A x \in PlanTxs : Settled(x) => Settled(x)'
           /\ OneChain => OneChain'
           /\ \A r : ReportOK(r) => ReportOK(r)'
<1>1. bundle.runtime.id \in Identifier /\ \A x \in PlanTxs : bundle.receipts[x] \in Anchor /\ bundle.receipts[x].id \in Identifier
    BY BundleIds
<1>2. IsBundle(bundle)'
    <2>1. bundle.receipts \in [PlanTxs -> Anchor']
        BY GrownAnchors DEF IsBundle
    <2>2. bundle.runtime.number \in Nat /\ bundle.runtime = [number |-> bundle.runtime.number, id |-> bundle.runtime.id]
        BY DEF IsBundle
    <2>3. bundle.runtime.id \in Identifier'
        BY <1>1, GrownBlocks
    <2>4. bundle.runtime \in [number : Nat, id : Identifier']
        BY <2>2, <2>3
    <2> QED BY <2>1, <2>4 DEF IsBundle
<1>3. RetainedBlocks' = RetainedBlocks
    BY DEF RetainedBlocks
<1>4. Mined(bundle.runtime.id)' => Mined(bundle.runtime.id) /\ blocks'[bundle.runtime.id] = blocks[bundle.runtime.id]
    BY <1>1, GrownBlocks
<1>5. ASSUME ReceiptsBelow(bundle) PROVE ReceiptsBelow(bundle)'
    <2> SUFFICES ASSUME Mined(bundle.runtime.id)', NEW x \in PlanTxs PROVE Below(bundle.receipts[x].id, bundle.runtime.id)'
        BY DEF ReceiptsBelow
    <2>1. PICK b, h : b \in Identifier /\ b = bundle.receipts[x].id /\ h = bundle.runtime.id
        BY <1>1
    <2>2. Mined(h) /\ Below(b, h)
        BY <1>4, <1>5, <2>1 DEF ReceiptsBelow
    <2>3. Below(b, h)'
        BY <2>1, <2>2, GrownBelow
    <2> QED BY <2>1, <2>3 DEF Below
<1>6. ASSUME NEW x \in PlanTxs, Settled(x) PROVE Settled(x)'
    BY <1>4, <1>6 DEF Settled, Mined
<1>7. OneChain => OneChain'
    <2>1. Mined(bundle.runtime.id) => Mined(bundle.runtime.id)' /\ blocks'[bundle.runtime.id] = blocks[bundle.runtime.id]
        BY GrownBlocks DEF Mined
    <2> QED BY <2>1, <1>3 DEF OneChain, Mined
<1>8. ASSUME NEW r, ReportOK(r) PROVE ReportOK(r)'
    BY <1>2, <1>3, <1>7, <1>8 DEF ReportOK
<1> QED BY <1>2, <1>3, <1>5, <1>6, <1>7, <1>8

(* The block of a receipt and its parent stay what they are. *)
LEMMA GrownBoundary ==
    ASSUME Grown, bundle' = bundle, NEW x, NEW relation, NEW b, AtBoundary(x, relation, b)
    PROVE  AtBoundary(x, relation, b)'
<1>1. CASE relation = "after"
    BY <1>1 DEF AtBoundary
<1>2. CASE relation # "after"
    <2>1. PICK c : c = bundle.receipts[x].id
        OBVIOUS
    <2>2. Mined(c) /\ b = blocks[c].parent
        BY <1>2, <2>1 DEF AtBoundary
    <2>3. Mined(c)' /\ blocks'[c] = blocks[c]
        BY <2>2, GrownBlocks
    <2>4. Mined(bundle.receipts[x].id)' /\ b = blocks'[bundle.receipts[x].id].parent
        BY <2>1, <2>2, <2>3 DEF Mined
    <2> QED BY <1>2, <2>4 DEF AtBoundary
<1> QED BY <1>1, <1>2

(* Snapshots read at a hash (pro30) stay true when the chain moves. *)
LEMMA GrownSnapshots ==
    ASSUME Grown, bundle' = bundle, NEW rows, SnapshotsOK(rows)
    PROVE  SnapshotsOK(rows)'
<1>1. ASSUME NEW i \in 1..Len(rows) PROVE SnapshotOK(rows[i])'
    <2>1. PICK s : s = rows[i]
        OBVIOUS
    <2>2. SnapshotOK(s)
        BY <1>1, <2>1 DEF SnapshotsOK
    <2>3. PICK x, relation, b : x = s.tx /\ relation = s.relation /\ b = s.block
        OBVIOUS
    <2>4. AtBoundary(x, relation, b) /\ Mined(b) /\ s.state = AllocatorAt(b)
        BY <2>2, <2>3 DEF SnapshotOK
    <2>5. AtBoundary(x, relation, b)'
        BY <2>4, GrownBoundary
    <2>6. Mined(b)' /\ AllocatorAt(b)' = AllocatorAt(b)
        BY <2>4, GrownBlocks, GrownStates
    <2>7. SnapshotOK(s)'
        BY <2>3, <2>4, <2>5, <2>6 DEF SnapshotOK
    <2> QED BY <2>1, <2>7
<1> QED BY <1>1 DEF SnapshotsOK, IsSeq

(* Rows read at hashes (pro29) stay true when the chain moves. *)
LEMMA GrownRows == ASSUME Grown, NEW rows, RowsPublished(rows) PROVE RowsPublished(rows)'
<1>1. ASSUME NEW i \in 1..Len(rows)
      PROVE  Mined(rows[i].after)' /\ blocks'[rows[i].after] = blocks[rows[i].after]
    <2>1. PICK b : b = rows[i].after
        OBVIOUS
    <2>2. Mined(b)
        BY <1>1, <2>1 DEF RowsPublished
    <2> QED BY <2>1, <2>2, GrownBlocks
<1> QED BY <1>1 DEF RowsPublished, IsSeq

(* Nothing the files say is undone when the chain grows or is replaced. *)
LEMMA GrownBundleOK == ASSUME Grown, BundleOK, bundle' = bundle PROVE BundleOK'
<1> SUFFICES ASSUME bundle # Nothing
             PROVE  /\ Len(chain') > 1 /\ IsBundle(bundle)' /\ ReceiptsBelow(bundle)'
                    /\ bundle.check # Nothing => ReportOK(bundle.check)'
    BY DEF BundleOK
<1>1. /\ Len(chain) > 1 /\ IsBundle(bundle) /\ ReceiptsBelow(bundle)
      /\ bundle.check # Nothing => ReportOK(bundle.check)
    BY DEF BundleOK
<1>2. PICK r : r = bundle.check
    OBVIOUS
<1>3. r # Nothing => ReportOK(r)'
    BY <1>1, <1>2, GrownBundle
<1>4. bundle.check # Nothing => ReportOK(bundle.check)'
    BY <1>2, <1>3 DEF ReportOK
<1> QED BY <1>1, <1>4, GrownBundle DEF Grown

(* What was concluded of an accepted terminal observation stays true when    *)
(* the chain moves.                                                          *)
LEMMA GrownAcceptedOK == ASSUME Grown, AcceptedOK, bundle' = bundle, accepted' = accepted PROVE AcceptedOK'
<1> SUFFICES ASSUME accepted # {}
             PROVE  Len(chain') > 1 /\ IsBundle(bundle)' /\ OneChain' /\ \A o \in accepted : o.id = bundle.runtime.id
    BY DEF AcceptedOK
<1>1. Len(chain) > 1 /\ IsBundle(bundle) /\ OneChain /\ \A o \in accepted : o.id = bundle.runtime.id
    BY DEF AcceptedOK
<1> QED BY <1>1, GrownBundle DEF Grown

(* What was concluded of the published observations stays true when the      *)
(* chain moves.                                                              *)
LEMMA GrownPublishedOK == ASSUME Grown, PublishedOK, bundle' = bundle, published' = published PROVE PublishedOK'
<1>1. PICK token, allocator : token = published.token /\ allocator = published.allocator
    OBVIOUS
<1>2. /\ token # Nothing => Len(chain) > 1 /\ RowsPublished(token)
      /\ allocator # Nothing => Len(chain) > 1 /\ SnapshotsOK(allocator)
    BY <1>1 DEF PublishedOK
<1>3. /\ token # Nothing => Len(chain') > 1 /\ RowsPublished(token)'
      /\ allocator # Nothing => Len(chain') > 1 /\ SnapshotsOK(allocator)'
    BY <1>2, GrownRows, GrownSnapshots DEF Grown
<1>4. DOMAIN published = {"token", "allocator"}
    BY DEF PublishedOK
<1>5. /\ published.token # Nothing => Len(chain') > 1 /\ RowsPublished(published.token)'
      /\ published.allocator # Nothing => Len(chain') > 1 /\ SnapshotsOK(published.allocator)'
    BY <1>1, <1>3
<1> QED BY <1>4, <1>5 DEF PublishedOK

(* What the files hold stays true when the chain moves. *)
LEMMA GrownWorld ==
    ASSUME Grown, World, bundle' = bundle, accepted' = accepted, published' = published
    PROVE  World'
BY GrownBundleOK, GrownAcceptedOK, GrownPublishedOK DEF World, Grown

------------------------------------------------------------------------------
(* What is known of a command outlives the growth of the chain as well. *)
LEMMA GrownReplay ==
    ASSUME Grown, bundle' = bundle, accepted' = accepted, published' = published,
           NEW t, t.pc \in ReplayPcs, ReplayPhase(t),
           t.pc \in SendPcs => \A i \in Unsent(t) : t.todo[i] \notin ChainTxs'
    PROVE  ReplayPhase(t)'
<1>1. t.pc \in SendPcs => Sending(t)'
    <2> SUFFICES ASSUME t.pc \in SendPcs PROVE Sending(t)'
        OBVIOUS
    <2>1. Sending(t)
        BY DEF ReplayPhase
    <2>2. t.seen \in Seq(Anchor)'
        BY <2>1, GrownAnchors DEF Sending
    <2>3. Len(t.seen) > 0 => Len(chain') > 1
        BY <2>1 DEF Sending, Grown
    <2>4. \A i \in Unsent(t) : t.todo[i] \notin ChainTxs'
        OBVIOUS
    <2> QED BY <2>1, <2>2, <2>3, <2>4 DEF Sending, Unsent, Distinct
<1>2. ASSUME SeenBelow(t), t.seen \in Seq(Anchor), Len(t.seen) = 10 PROVE SeenBelow(t)'
    <2>1. Mined(t.held)
        BY <1>2 DEF SeenBelow
    <2>2. Mined(t.held)'
        BY <2>1, GrownBlocks
    <2>3. ASSUME NEW k \in 1..10 PROVE Below(t.seen[k].id, t.held)'
        <3>1. t.seen[k] \in Anchor
            BY <1>2, <2>3, ElementOfSeq
        <3>2. PICK b, h : b \in Identifier /\ b = t.seen[k].id /\ h = t.held
            BY <3>1 DEF Anchor
        <3>3. Mined(h) /\ Below(b, h)
            BY <1>2, <2>1, <2>3, <3>2 DEF SeenBelow
        <3>4. Below(b, h)'
            BY <3>2, <3>3, GrownBelow
        <3> QED BY <3>2, <3>4
    <2> QED BY <2>2, <2>3 DEF SeenBelow
<1>3. t.pc \notin SendPcs =>
         /\ Len(chain') > 1
         /\ t.seen \in Seq(Anchor)' /\ Len(t.seen) = 10
         /\ t.pc # "capturehead" => SeenBelow(t)'
    <2> SUFFICES ASSUME t.pc \notin SendPcs
                 PROVE  /\ Len(chain') > 1
                        /\ t.seen \in Seq(Anchor)' /\ Len(t.seen) = 10
                        /\ t.pc # "capturehead" => SeenBelow(t)'
        OBVIOUS
    <2>1. /\ Len(chain) > 1 /\ t.seen \in Seq(Anchor) /\ Len(t.seen) = 10
          /\ t.pc # "capturehead" => SeenBelow(t)
        BY DEF ReplayPhase
    <2>2. t.seen \in Seq(Anchor)'
        BY <2>1, GrownAnchors
    <2> QED BY <2>1, <2>2, <1>2 DEF Grown
<1>4. t.pc \in WritePcs => Writing(t)'
    <2> SUFFICES ASSUME t.pc \in WritePcs PROVE Writing(t)'
        OBVIOUS
    <2>1. Writing(t)
        BY DEF ReplayPhase
    <2>2. IsBundle(bundle) /\ bundle.check = Nothing
        BY <2>1 DEF Writing
    <2>3. IsBundle(bundle)' /\ (ReceiptsBelow(bundle) => ReceiptsBelow(bundle)')
        BY <2>2, GrownBundle
    <2>4. /\ bundle.runtime.id \in Identifier
          /\ \A x \in PlanTxs : bundle.receipts[x] \in Anchor /\ bundle.receipts[x].id \in Identifier
        BY <2>2, BundleIds
    <2>5. ASSUME t.pc \in {"broadcast", "writeruntime"}
          PROVE  ~Mined(bundle.runtime.id)' /\ \A x \in PlanTxs : Below(bundle.receipts[x].id, t.held)'
        <3>1. ~Mined(bundle.runtime.id) /\ \A x \in PlanTxs : Below(bundle.receipts[x].id, t.held)
            BY <2>1, <2>5 DEF Writing
        <3>2. PICK h : h = t.held
            OBVIOUS
        <3>3. Mined(h)
            BY <2>5, <3>2 DEF ReplayPhase, SendPcs, SeenBelow
        <3>4. PICK r \in Identifier : r = bundle.runtime.id
            BY <2>4
        <3>5. ~Mined(r)'
            BY <3>1, <3>4, GrownBlocks
        <3>6. ASSUME NEW x \in PlanTxs PROVE Below(bundle.receipts[x].id, t.held)'
            <4>1. PICK b \in Identifier : b = bundle.receipts[x].id
                BY <2>4, <3>6
            <4>2. Below(b, h)
                BY <3>1, <3>2, <3>6, <4>1
            <4>3. Below(b, h)'
                BY <3>3, <4>1, <4>2, GrownBelow
            <4> QED BY <3>2, <4>1, <4>3 DEF Below
        <3> QED BY <3>4, <3>5, <3>6 DEF Mined
    <2>6. t.pc = "writecapture" => ReceiptsBelow(bundle)'
        BY <2>1, <2>3 DEF Writing
    <2> QED BY <2>2, <2>3, <2>5, <2>6 DEF Writing
<1> QED BY <1>1, <1>3, <1>4 DEF ReplayPhase

(* What verify_live_chain_context has compared so far stays true when the    *)
(* chain moves.                                                              *)
LEMMA GrownLive ==
    ASSUME Grown, bundle' = bundle, IsBundle(bundle), NEW t, LivePhase(t)
    PROVE  LivePhase(t)'
<1>1. /\ RetainedBlocks' = RetainedBlocks
      /\ \A x \in PlanTxs : Settled(x) => Settled(x)'
      /\ OneChain => OneChain'
    BY GrownBundle
<1> QED BY <1>1 DEF LivePhase

(* The blocks found by number keep their heights when the chain moves. *)
LEMMA GrownHeights == ASSUME Grown, NEW t, Heights(t) PROVE Heights(t)'
<1>1. t.seen \in Seq(1..Len(blocks))
    BY DEF Heights
<1>2. \A k \in 1..Len(t.seen) : t.seen[k] \in 1..Len(blocks)
    BY <1>1, ElementOfSeq
<1>3. \A k \in 1..Len(t.seen) : blocks'[t.seen[k]] = blocks[t.seen[k]]
    BY <1>2, GrownBlocks DEF Mined
<1>4. t.seen \in Seq(1..Len(blocks'))
    <2>1. 1..Len(blocks) \subseteq 1..Len(blocks')
        BY GrownBlocks
    <2> QED BY <1>1, <2>1, SeqWider
<1> QED BY <1>3, <1>4 DEF Heights, Height

(* The recorded numbers are read from the bundle alone. *)
LEMMA GrownSeparate == ASSUME bundle' = bundle PROVE SeparateBoundaries' = SeparateBoundaries /\ Numbers' = Numbers
                                                    /\ Ascending(Numbers)' = Ascending(Numbers)
                                                    /\ ClaimBoundaries' = ClaimBoundaries
<1>1. Numbers' = Numbers
    BY DEF Numbers
<1>2. SeparateBoundaries' = SeparateBoundaries
    BY <1>1 DEF SeparateBoundaries
<1>3. ClaimBoundaries' = ClaimBoundaries
    BY DEF ClaimBoundaries, Boundary
<1> QED BY <1>1, <1>2, <1>3

(* A recorded block keeps its parent when the chain moves. *)
LEMMA GrownParent == ASSUME Grown, NEW b, Mined(b), NEW p, ParentOf(b, p) PROVE ParentOf(b, p)'
<1>1. blocks'[b] = blocks[b] /\ b \in Identifier
    BY GrownBlocks DEF Mined, Identifier
<1>2. b \in Canonical' => b \in Canonical
    BY <1>1, GrownBlocks
<1> QED BY <1>1, <1>2 DEF ParentOf

(* What pro29 has read so far for its rows stays true when the chain moves. *)
LEMMA GrownRowPhase ==
    ASSUME Grown, bundle' = bundle, NEW t, t.pc \in RowPcs, RowPhase(t)
    PROVE  RowPhase(t)'
<1>1. PICK n : n = Len(t.rows)
    OBVIOUS
<1>2. /\ Heights(t) /\ Len(t.seen) = Len(t.then) /\ SeparateBoundaries
      /\ IsSeq(t.rows) /\ Remaining(t, n)
      /\ \A k \in 1..n : RowOK(t, k)
    BY <1>1 DEF RowPhase
<1>3. n \in Nat /\ Len(t.then) \in Nat /\ Len(t.seen) \in Nat /\ Len(t.todo) \in Nat
      /\ n + Len(t.todo) = Len(t.seen)
    <2>1. n \in Nat
        BY <1>1, <1>2, IsSeqFacts
    <2>2. Len(t.todo) \in Nat
        BY <1>2, IsSeqFacts DEF Remaining
    <2>3. Len(t.seen) \in Nat
        BY <1>2 DEF Heights
    <2> QED BY <1>2, <2>1, <2>2, <2>3 DEF Remaining
<1>4. \A k \in 1..Len(t.seen) : Mined(t.seen[k])
    <2>1. t.seen \in Seq(1..Len(blocks))
        BY <1>2 DEF Heights
    <2> QED BY <2>1, ElementOfSeq DEF Mined
<1>5. Heights(t)' /\ SeparateBoundaries'
    BY <1>2, GrownHeights, GrownSeparate
<1>6. ASSUME NEW k \in 1..n PROVE RowOK(t, k)'
    <2>1. PICK r : r = t.rows[k]
        OBVIOUS
    <2>2. PICK a, p : a = t.seen[k] /\ p = r.before
        OBVIOUS
    <2>3. /\ r.after = a /\ p = blocks[a].parent /\ Mined(p)
          /\ r.to = TokenStateAt(a) /\ r.from = TokenStateAt(p)
          /\ k > 1 => p = t.seen[k - 1]
        BY <1>2, <1>6, <2>1, <2>2 DEF RowOK
    <2>4. Mined(a)
        BY <1>3, <1>4, <1>6, <2>2
    <2>5. blocks'[a] = blocks[a] /\ Mined(p)'
        BY <2>3, <2>4, GrownBlocks
    <2>6. TokenStateAt(a)' = TokenStateAt(a) /\ TokenStateAt(p)' = TokenStateAt(p)
        BY <2>3, <2>4, GrownStates
    <2>7. /\ r.after = a /\ p = blocks'[a].parent /\ Mined(p)'
          /\ r.to = TokenStateAt(a)' /\ r.from = TokenStateAt(p)'
        BY <2>3, <2>5, <2>6
    <2>8. /\ r.to = TokenStateAt(r.after)' /\ r.from = TokenStateAt(r.before)' /\ Mined(r.before)'
        BY <2>2, <2>7
    <2> QED BY <2>1, <2>2, <2>3, <2>7, <2>8 DEF RowOK
<1>7. ASSUME t.pc # "decimals"
      PROVE  /\ Len(t.todo) >= 1
             /\ n > 0 => ParentOf(t.seen[n + 1], t.seen[n])'
             /\ Last(t.seen) \in Canonical' => AllMoved(Last(t.seen))'
    <2>1. /\ Len(t.todo) >= 1
          /\ n > 0 => ParentOf(t.seen[n + 1], t.seen[n])
          /\ Last(t.seen) \in Canonical => AllMoved(Last(t.seen))
        BY <1>1, <1>7 DEF RowPhase
    <2>2. PICK b, p, e : b = t.seen[n + 1] /\ p = t.seen[n] /\ e = Last(t.seen)
        OBVIOUS
    <2>3. Mined(b) /\ Mined(e)
        <3>1. n + 1 \in 1..Len(t.seen) /\ Len(t.seen) \in 1..Len(t.seen)
            BY <1>3, <2>1
        <3> QED BY <3>1, <1>4, <2>2 DEF Last
    <2>4. n > 0 => ParentOf(b, p)'
        BY <2>1, <2>2, <2>3, GrownParent
    <2>5. e \in Canonical' => AllMoved(e)'
        <3>1. e \in Identifier
            BY <2>3, GrownBlocks DEF Mined, Identifier
        <3>2. e \in Canonical' => e \in Canonical
            BY <3>1, GrownBlocks
        <3> QED BY <3>2, <2>1, <2>2, <2>3, GrownStates
    <2> QED BY <2>1, <2>2, <2>4, <2>5
<1>8. ASSUME t.pc \in {"beforereads", "afterreads"} PROVE ParentOf(t.seen[n + 1], t.held)'
    <2>1. ParentOf(t.seen[n + 1], t.held) /\ Len(t.todo) >= 1
        BY <1>1, <1>8 DEF RowPhase
    <2>2. PICK b, p : b = t.seen[n + 1] /\ p = t.held
        OBVIOUS
    <2>3. Mined(b)
        <3>1. n + 1 \in 1..Len(t.seen)
            BY <1>3, <2>1
        <3> QED BY <3>1, <1>4, <2>2
    <2>4. ParentOf(b, p)'
        BY <2>1, <2>2, <2>3, GrownParent
    <2> QED BY <2>2, <2>4
<1>9. ASSUME t.pc = "afterreads" PROVE Mined(t.held)' /\ t.before = TokenStateAt(t.held)'
    <2>1. Mined(t.held) /\ t.before = TokenStateAt(t.held)
        BY <1>9 DEF RowPhase
    <2>2. PICK h : h = t.held
        OBVIOUS
    <2>3. Mined(h)' /\ TokenStateAt(h)' = TokenStateAt(h)
        BY <2>1, <2>2, GrownBlocks, GrownStates
    <2> QED BY <2>1, <2>2, <2>3
<1>10. ASSUME t.pc = "decimals" PROVE Len(t.todo) = 0 /\ Mined(Last(t.seen))' /\ AllMoved(Last(t.seen))'
    <2>1. Len(t.todo) = 0 /\ Mined(Last(t.seen)) /\ AllMoved(Last(t.seen))
        BY <1>10 DEF RowPhase
    <2>2. PICK e : e = Last(t.seen)
        OBVIOUS
    <2>3. Mined(e)' /\ AllMoved(e)'
        BY <2>1, <2>2, GrownBlocks, GrownStates
    <2> QED BY <2>1, <2>2, <2>3
<1> QED BY <1>1, <1>2, <1>5, <1>6, <1>7, <1>8, <1>9, <1>10 DEF RowPhase, Remaining, IsSeq

(* What pro29 has read so far stays true when the chain moves. *)
LEMMA GrownToken ==
    ASSUME Grown, bundle' = bundle, NEW t, t.pc \in TokenPcs, TokenPhase(t)
    PROVE  TokenPhase(t)'
<1>1. t.pc \in BlockPcs => BlockPhase(t)'
    <2> SUFFICES ASSUME t.pc \in BlockPcs PROVE BlockPhase(t)'
        OBVIOUS
    <2>1. BlockPhase(t)
        BY DEF TokenPhase
    <2>2. Heights(t)' /\ SeparateBoundaries' = SeparateBoundaries
        BY <2>1, GrownHeights, GrownSeparate DEF BlockPhase
    <2>3. t.pc = "txblocktxs" => Mined(t.held)' /\ blocks'[t.held] = blocks[t.held]
        BY <2>1, GrownBlocks DEF BlockPhase
    <2> QED BY <2>1, <2>2, <2>3 DEF BlockPhase, Height, Remaining, IsSeq
<1>2. t.pc = "sweep" => /\ Heights(t)' /\ Len(t.seen) = Len(t.then) /\ SeparateBoundaries'
                        /\ t.todo = t.then /\ Len(t.then) >= 1 /\ t.rows = <<>>
    BY GrownHeights, GrownSeparate DEF TokenPhase
<1>3. t.pc \in RowPcs => RowPhase(t)'
    BY GrownRowPhase DEF TokenPhase
<1> QED BY <1>1, <1>2, <1>3 DEF TokenPhase

(* What pro30 has read so far stays true when the chain moves. *)
LEMMA GrownSnap ==
    ASSUME Grown, bundle' = bundle, NEW t, SnapPhase(t)
    PROVE  SnapPhase(t)'
<1>1. SnapshotsOK(t.rows)'
    <2>1. PICK rows : rows = t.rows
        OBVIOUS
    <2>2. SnapshotsOK(rows)'
        BY <2>1, GrownSnapshots DEF SnapPhase
    <2> QED BY <2>1, <2>2
<1>2. t.pc = "snapreads" => AtBoundary(t.todo[1].tx, t.todo[1].relation, t.held)'
    <2>1. PICK x, relation, b : x = t.todo[1].tx /\ relation = t.todo[1].relation /\ b = t.held
        OBVIOUS
    <2>2. t.pc = "snapreads" => AtBoundary(x, relation, b)'
        BY <2>1, GrownBoundary DEF SnapPhase
    <2> QED BY <2>1, <2>2
<1> QED BY <1>1, <1>2 DEF SnapPhase, IsSeq

(* What any command has read so far stays true when the chain moves, as long *)
(* as its unsent transactions are not mined by others.                       *)
LEMMA GrownCommand ==
    ASSUME Grown, bundle' = bundle, NEW t, CommandOK(t),
           t.pc \in ReplayPcs => accepted' = accepted /\ published' = published,
           t.pc \in SendPcs => \A i \in Unsent(t) : t.todo[i] \notin ChainTxs'
    PROVE  CommandOK(t)'
<1>1. DOMAIN t = ToolFields /\ t.job \in {"receipts", "replay", "token", "allocator"}
    BY DEF CommandOK
<1>2. t.pc \in ReplayPcs => ReplayPhase(t)'
    BY GrownReplay DEF CommandOK
<1>3. t.pc \notin ReplayPcs => IsBundle(bundle) /\ Len(chain') > 1 /\ IsBundle(bundle)' /\ ReceiptsBelow(bundle)'
    BY GrownBundle DEF CommandOK, Grown
<1>4. t.report # Nothing => ReportOK(t.report)'
    <2>1. PICK r : r = t.report
        OBVIOUS
    <2>2. r # Nothing => ReportOK(r)'
        BY <2>1, GrownBundle DEF CommandOK, ReportOK
    <2> QED BY <2>1, <2>2
<1>5. (t.job = "token" => t.then = Ascending(Numbers)') /\ (t.job = "allocator" => t.then = ClaimBoundaries')
    BY GrownSeparate DEF CommandOK
<1>6. t.pc \in LivePcs => LivePhase(t)'
    <2>1. t.pc \in LivePcs => t.pc \notin ReplayPcs
        BY DEF LivePcs, ReplayPcs, SendPcs, CapturePcs, WritePcs
    <2> QED BY <2>1, <1>3, GrownLive DEF CommandOK
<1>7. t.pc \in TokenPcs => TokenPhase(t)'
    BY GrownToken DEF CommandOK
<1>8. t.pc \in SnapPcs \cup {"probe"} => SnapPhase(t)'
    BY GrownSnap DEF CommandOK
<1> QED BY <1>1, <1>2, <1>3, <1>4, <1>5, <1>6, <1>7, <1>8 DEF CommandOK

(* The command goes on or ends: the chain and the files stay. *)
LEMMA OnlyToolBy ==
    ASSUME EvidenceInv, blocks' = blocks, chain' = chain, bundle' = bundle, accepted' = accepted,
           published' = published, ProofOK', ToolOK(tool'), AnvilOK(tool)'
    PROVE  EvidenceInv'
<1>1. Grown /\ ChainTxs' = ChainTxs
    BY GrownSame DEF EvidenceInv, World
<1>2. World'
    BY <1>1, GrownWorld DEF EvidenceInv
<1>3. PICK t : t = tool'
    OBVIOUS
<1>4. t = Idle \/ CommandOK(t)'
    <2> SUFFICES ASSUME CommandOK(t) PROVE CommandOK(t)'
        BY <1>3 DEF ToolOK
    <2>1. t.pc \in SendPcs => \A i \in Unsent(t) : t.todo[i] \notin ChainTxs'
        BY <1>1 DEF CommandOK, ReplayPhase, Sending, ReplayPcs
    <2> QED BY <1>1, <2>1, GrownCommand
<1>5. ToolOK(tool)'
    BY <1>3, <1>4 DEF ToolOK, Idle
<1> QED BY <1>2, <1>5 DEF EvidenceInv

(* A step that changes nothing but the position of the command. *)
LEMMA OnlyTool ==
    ASSUME EvidenceInv, UNCHANGED <<chainVars, checkVars>>, ToolOK(tool'), AnvilOK(tool')
    PROVE  EvidenceInv'
<1>1. /\ blocks' = blocks /\ chain' = chain /\ bundle' = bundle /\ accepted' = accepted /\ published' = published
      /\ anvil' = anvil /\ proof' = proof /\ source' = source
    BY DEF chainVars, checkVars
<1>2. AnvilOK(tool)' /\ ProofOK'
    BY <1>1 DEF EvidenceInv, ProofOK, AnvilOK, NodeReleased
<1> QED BY <1>1, <1>2, OnlyToolBy

------------------------------------------------------------------------------
(* The steps of the commands. *)

(* A command that is not idle is in one of its phases. *)
LEMMA Running ==
    ASSUME EvidenceInv, tool.pc # "idle"
    PROVE  CommandOK(tool) /\ DOMAIN tool = ToolFields
<1>1. tool # Idle
    BY DEF Idle
<1> QED BY <1>1 DEF EvidenceInv, ToolOK, CommandOK

(* A step that compares and goes on, or fails and ends the command. *)
LEMMA ProceedKeeps ==
    ASSUME EvidenceInv, UNCHANGED <<chainVars, checkVars>>, tool.pc \notin ProverPcs,
           NEW ok, NEW t, Proceed(ok, t), ok => CommandOK(t), t.pc \notin ProverSteps
    PROVE  EvidenceInv'
<1>1. NodeReleased /\ proof = "none"
    BY DEF EvidenceInv, AnvilOK, ProverPcs, ProverSteps
<1>2. tool' = t \/ tool' = Idle
    BY DEF Proceed
<1>3. ToolOK(tool')
    BY DEF Proceed, ToolOK
<1>4. AnvilOK(tool')
    BY <1>1, <1>2 DEF AnvilOK, Idle, ProverSteps
<1> QED BY <1>3, <1>4, OnlyTool

(* The steps of the different commands are different. *)
LEMMA Phases ==
    /\ LivePcs \cap (ReplayPcs \cup ProverPcs \cup TokenPcs \cup SnapPcs \cup {"idle", "finish", "probe", "writeCheck", "prover"}) = {}
    /\ TokenPcs \cap (ReplayPcs \cup ProverPcs \cup SnapPcs \cup {"idle", "finish", "probe", "writeCheck", "prover"}) = {}
    /\ (SnapPcs \cup {"probe"}) \cap (ReplayPcs \cup ProverPcs \cup {"idle", "finish", "writeCheck", "prover"}) = {}
    /\ ReplayPcs \cap (ProverPcs \cup {"idle", "finish", "probe", "writeCheck", "prover"}) = {}
    /\ ProverPcs \cap {"idle", "probe", "writeCheck", "prover"} = {}
    /\ SendPcs \subseteq ReplayPcs /\ CapturePcs \subseteq ReplayPcs /\ WritePcs \subseteq ReplayPcs
    /\ BlockPcs \subseteq TokenPcs /\ RowPcs \subseteq TokenPcs /\ "sweep" \in TokenPcs
    /\ BlockPcs \cap (RowPcs \cup {"sweep"}) = {} /\ "sweep" \notin RowPcs
    /\ SendPcs \cap (CapturePcs \cup WritePcs) = {} /\ CapturePcs \cap WritePcs = {}
BY DEF LivePcs, ReplayPcs, ProverPcs, ProverSteps, TokenPcs, SnapPcs, SendPcs, CapturePcs, WritePcs, BlockPcs, RowPcs

(* One step of the live check to another. *)
LEMMA LiveMove ==
    ASSUME CommandOK(tool), tool.pc \in LivePcs, NEW t, DOMAIN t = ToolFields, t.pc \in LivePcs,
           t.job = tool.job, t.then = tool.then, t.report = tool.report, t.seen = tool.seen, t.rows = tool.rows,
           LivePhase(t)
    PROVE  CommandOK(t)
<1>1. /\ tool.pc \notin ReplayPcs
      /\ t.pc \notin ReplayPcs /\ t.pc \notin TokenPcs /\ t.pc \notin SnapPcs \cup {"probe"}
    BY Phases
<1>2. Len(chain) > 1 /\ IsBundle(bundle) /\ ReceiptsBelow(bundle)
    BY <1>1 DEF CommandOK
<1> QED BY <1>1, <1>2 DEF CommandOK

(* Chain id, genesis and head are compared. *)
LEMMA HeadStep == EvidenceInv /\ ReadHead => EvidenceInv'
<1> SUFFICES ASSUME EvidenceInv, ReadHead PROVE EvidenceInv'
    OBVIOUS
<1>1. tool.pc = "head" /\ tool.pc \in LivePcs /\ tool.pc \notin ProverPcs /\ tool.pc # "idle"
    BY DEF ReadHead, LivePcs, ProverPcs, ProverSteps
<1>2. CommandOK(tool) /\ DOMAIN tool = ToolFields
    BY <1>1, Running
<1> DEFINE t == [tool EXCEPT !.pc = "header", !.latest = HeadNumber, !.todo = Ascending(ObservedNumbers(bundle))]
<1>3. /\ DOMAIN t = ToolFields /\ t.pc = "header" /\ t.job = tool.job /\ t.then = tool.then
      /\ t.report = tool.report /\ t.seen = tool.seen /\ t.rows = tool.rows
    BY <1>2 DEF ToolFields
<1>4. \E ok : Proceed(ok, t) /\ UNCHANGED <<chainVars, checkVars>>
    BY DEF ReadHead
<1> HIDE DEF t
<1>5. LivePhase(t) /\ t.pc \in LivePcs
    BY <1>1, <1>2, <1>3 DEF LivePhase, LivePcs, CommandOK
<1>6. CommandOK(t)
    BY <1>1, <1>2, <1>3, <1>5, LiveMove
<1>7. t.pc \notin ProverSteps
    BY <1>3 DEF ProverSteps
<1> QED BY <1>1, <1>4, <1>6, <1>7, ProceedKeeps

(* The header of one observed number is compared. *)
LEMMA HeaderStep == EvidenceInv /\ ReadHeader => EvidenceInv'
<1> SUFFICES ASSUME EvidenceInv, ReadHeader PROVE EvidenceInv'
    OBVIOUS
<1>1. tool.pc = "header" /\ tool.pc \in LivePcs /\ tool.pc \notin ProverPcs /\ tool.pc # "idle"
    BY DEF ReadHeader, LivePcs, ProverPcs, ProverSteps
<1>2. CommandOK(tool) /\ DOMAIN tool = ToolFields
    BY <1>1, Running
<1> DEFINE t == [tool EXCEPT !.pc = "parent"]
<1>3. /\ DOMAIN t = ToolFields /\ t.pc = "parent" /\ t.job = tool.job /\ t.then = tool.then
      /\ t.report = tool.report /\ t.seen = tool.seen /\ t.rows = tool.rows
    BY <1>2 DEF ToolFields
<1>4. \E ok : Proceed(ok, t) /\ UNCHANGED <<chainVars, checkVars>>
    BY DEF ReadHeader
<1> HIDE DEF t
<1>5. LivePhase(t) /\ t.pc \in LivePcs
    BY <1>1, <1>2, <1>3 DEF LivePhase, LivePcs, CommandOK
<1>6. CommandOK(t)
    BY <1>1, <1>2, <1>3, <1>5, LiveMove
<1>7. t.pc \notin ProverSteps
    BY <1>3 DEF ProverSteps
<1> QED BY <1>1, <1>4, <1>6, <1>7, ProceedKeeps

(* The Plan is what remains to be compared when the receipts begin. *)
LEMMA ParentStep == EvidenceInv /\ ReadParent => EvidenceInv'
<1> SUFFICES ASSUME EvidenceInv, ReadParent PROVE EvidenceInv'
    OBVIOUS
<1>1. tool.pc = "parent" /\ tool.pc \in LivePcs /\ tool.pc \notin ProverPcs /\ tool.pc # "idle"
    BY DEF ReadParent, LivePcs, ProverPcs, ProverSteps
<1>2. CommandOK(tool) /\ DOMAIN tool = ToolFields
    BY <1>1, Running
<1> DEFINE h == [tool EXCEPT !.pc = "header", !.todo = Rest]
           t == [tool EXCEPT !.pc = "receipt", !.todo = Plan]
<1>3. /\ DOMAIN h = ToolFields /\ h.pc = "header" /\ h.job = tool.job /\ h.then = tool.then
      /\ h.report = tool.report /\ h.seen = tool.seen /\ h.rows = tool.rows
    BY <1>2 DEF ToolFields
<1>4. /\ DOMAIN t = ToolFields /\ t.pc = "receipt" /\ t.job = tool.job /\ t.then = tool.then
      /\ t.report = tool.report /\ t.seen = tool.seen /\ t.rows = tool.rows /\ t.todo = Plan
    BY <1>2 DEF ToolFields
<1>5. /\ (\E ok : Proceed(ok, h)) \/ (\E ok : Proceed(ok, t))
      /\ UNCHANGED <<chainVars, checkVars>>
    BY DEF ReadParent
<1> HIDE DEF h, t
<1>6. LivePhase(h) /\ h.pc \in LivePcs
    BY <1>1, <1>2, <1>3 DEF LivePhase, LivePcs, CommandOK
<1>7. LivePhase(t) /\ t.pc \in LivePcs
    <2>1. Plan \in Seq(PlanTxs) /\ Len(Plan) >= 1 /\ \A x \in PlanTxs : x \in ToSet(Plan)
        BY PlanFacts DEF PlanTxs
    <2> QED BY <2>1, <1>1, <1>2, <1>4 DEF LivePhase, LivePcs, CommandOK
<1>8. CommandOK(h) /\ CommandOK(t)
    BY <1>1, <1>2, <1>3, <1>4, <1>6, <1>7, LiveMove
<1>9. h.pc \notin ProverSteps /\ t.pc \notin ProverSteps
    BY <1>3, <1>4 DEF ProverSteps
<1> QED BY <1>1, <1>5, <1>8, <1>9, ProceedKeeps

(* One receipt, and the list of its block, are fetched again. *)
LEMMA ReceiptStep == EvidenceInv /\ (LiveReceipt \/ LiveBlockTxs) => EvidenceInv'
<1> SUFFICES ASSUME EvidenceInv, LiveReceipt \/ LiveBlockTxs PROVE EvidenceInv'
    OBVIOUS
<1>1. tool.pc \in {"receipt", "blocktxs"} /\ tool.pc \in LivePcs /\ tool.pc \notin ProverPcs /\ tool.pc # "idle"
    BY DEF LiveReceipt, LiveBlockTxs, LivePcs, ProverPcs, ProverSteps
<1>2. CommandOK(tool) /\ DOMAIN tool = ToolFields
    BY <1>1, Running
<1> DEFINE At(pc) == [tool EXCEPT !.pc = pc]
<1>3. PICK pc \in {"blocktxs", "livetx"} : (\E ok : Proceed(ok, At(pc))) /\ UNCHANGED <<chainVars, checkVars>>
    <2>1. LiveReceipt => (\E ok : Proceed(ok, At("blocktxs"))) /\ UNCHANGED <<chainVars, checkVars>>
        BY DEF LiveReceipt
    <2>2. LiveBlockTxs => (\E ok : Proceed(ok, At("livetx"))) /\ UNCHANGED <<chainVars, checkVars>>
        BY DEF LiveBlockTxs
    <2> QED BY <2>1, <2>2
<1>4. PICK t : t = At(pc)
    OBVIOUS
<1>5. /\ DOMAIN t = ToolFields /\ t.pc = pc /\ t.job = tool.job /\ t.then = tool.then /\ t.todo = tool.todo
      /\ t.report = tool.report /\ t.seen = tool.seen /\ t.rows = tool.rows
    BY <1>2, <1>4 DEF ToolFields
<1>6. LivePhase(t) /\ t.pc \in LivePcs
    BY <1>1, <1>2, <1>3, <1>5 DEF LivePhase, LivePcs, CommandOK
<1>7. CommandOK(t)
    BY <1>1, <1>2, <1>5, <1>6, LiveMove
<1>8. \E ok : Proceed(ok, t)
    BY <1>3, <1>4
<1> HIDE DEF At
<1>9. t.pc \notin ProverSteps
    BY <1>3, <1>5 DEF ProverSteps
<1> QED BY <1>1, <1>3, <1>7, <1>8, <1>9, ProceedKeeps

(* A transaction found on the chain at its retained block lies below the
   captured head, whatever was replaced between the requests. *)
LEMMA TransactionStep == EvidenceInv /\ LiveTransaction => EvidenceInv'
<1> SUFFICES ASSUME EvidenceInv, LiveTransaction PROVE EvidenceInv'
    OBVIOUS
<1>1. tool.pc = "livetx" /\ tool.pc \in LivePcs /\ tool.pc \notin ProverPcs /\ tool.pc # "idle"
    BY DEF LiveTransaction, LivePcs, ProverPcs, ProverSteps
<1>2. CommandOK(tool) /\ DOMAIN tool = ToolFields
    BY <1>1, Running
<1> DEFINE more == [tool EXCEPT !.pc = "receipt", !.todo = Rest]
           last == [tool EXCEPT !.pc = "reference"]
           ok == OnChain(Here) /\ Location(Here) = bundle.receipts[Here].id
<1>3. /\ DOMAIN more = ToolFields /\ more.pc = "receipt" /\ more.job = tool.job /\ more.then = tool.then
      /\ more.report = tool.report /\ more.seen = tool.seen /\ more.rows = tool.rows /\ more.todo = Rest
    BY <1>2 DEF ToolFields
<1>4. /\ DOMAIN last = ToolFields /\ last.pc = "reference" /\ last.job = tool.job /\ last.then = tool.then
      /\ last.report = tool.report /\ last.seen = tool.seen /\ last.rows = tool.rows
    BY <1>2 DEF ToolFields
<1>5. /\ Proceed(ok, IF Rest # <<>> THEN more ELSE last)
      /\ UNCHANGED <<chainVars, checkVars>>
    BY DEF LiveTransaction
<1>6. /\ tool.todo \in Seq(PlanTxs) /\ Len(tool.todo) >= 1
      /\ \A x \in PlanTxs : x \in ToSet(tool.todo) \/ Settled(x)
      /\ ReceiptsBelow(bundle)
    <2>1. LivePhase(tool)
        BY <1>1, <1>2 DEF CommandOK
    <2>2. ReceiptsBelow(bundle)
        BY <1>1, <1>2, Phases DEF CommandOK
    <2> QED BY <1>1, <2>1, <2>2 DEF LivePhase
<1>7. /\ Rest \in Seq(PlanTxs) /\ Len(Rest) = Len(tool.todo) - 1 /\ Here \in PlanTxs
      /\ \A i \in 1..Len(tool.todo) - 1 : Rest[i] = tool.todo[i + 1]
      /\ Rest # <<>> <=> Len(tool.todo) > 1
    BY <1>6, TailFacts DEF Rest, Here
<1>8. ASSUME ok PROVE Settled(Here)
    <2>1. bundle.receipts[Here].id \in Canonical
        BY <1>8, OnChainDef DEF EvidenceInv, World
    <2> QED BY <2>1, <1>6, <1>7 DEF ReceiptsBelow, Below, Settled
<1>9. ASSUME NEW x \in PlanTxs, ok PROVE x \in ToSet(Rest) \/ Settled(x)
    <2>1. CASE x \in ToSet(tool.todo)
        <3>1. PICK i \in 1..Len(tool.todo) : x = tool.todo[i]
            BY <2>1, <1>6 DEF ToSet
        <3>2. CASE i = 1
            BY <3>1, <3>2, <1>8, <1>9 DEF Here
        <3>3. CASE i # 1
            <4>1. PICK j \in 1..Len(tool.todo) - 1 : i = j + 1
                <5>1. i - 1 \in 1..Len(tool.todo) - 1 /\ i = (i - 1) + 1
                    BY <3>1, <3>3, <1>6
                <5> QED BY <5>1
            <4>2. x = Rest[j] /\ j \in DOMAIN Rest
                BY <3>1, <4>1, <1>7
            <4> QED BY <4>2 DEF ToSet
        <3> QED BY <3>2, <3>3
    <2> QED BY <2>1, <1>6, <1>9
<1> HIDE DEF ok, more, last
<1>10. CASE Rest # <<>>
    <2>1. ASSUME ok PROVE CommandOK(more)
        <3>1. Len(Rest) >= 1
            BY <1>6, <1>7, <1>10
        <3>2. \A x \in PlanTxs : x \in ToSet(Rest) \/ Settled(x)
            BY <1>9, <2>1
        <3>3. LivePhase(more) /\ more.pc \in LivePcs
            BY <3>1, <3>2, <1>1, <1>2, <1>3, <1>7 DEF LivePhase, LivePcs, CommandOK
        <3> QED BY <3>3, <1>1, <1>2, <1>3, LiveMove
    <2>2. Proceed(ok, more)
        BY <1>5, <1>10
    <2>3. more.pc \notin ProverSteps
        BY <1>3 DEF ProverSteps
    <2> QED BY <2>1, <2>2, <1>1, <1>5, <2>3, ProceedKeeps
<1>11. CASE Rest = <<>>
    <2>1. ASSUME ok PROVE CommandOK(last)
        <3>1. ToSet(Rest) = {}
            BY <1>11 DEF ToSet
        <3>2. \A x \in PlanTxs : Settled(x)
            BY <1>9, <2>1, <3>1
        <3>3. LivePhase(last) /\ last.pc \in LivePcs
            BY <3>2, <1>1, <1>2, <1>4 DEF LivePhase, LivePcs, CommandOK
        <3> QED BY <3>3, <1>1, <1>2, <1>4, LiveMove
    <2>2. Proceed(ok, last)
        BY <1>5, <1>11
    <2>3. last.pc \notin ProverSteps
        BY <1>4 DEF ProverSteps
    <2> QED BY <2>1, <2>2, <1>1, <1>5, <2>3, ProceedKeeps
<1> QED BY <1>10, <1>11

(* The runtime block is fetched by its hash. *)
LEMMA ReferenceStep == EvidenceInv /\ BlockReference => EvidenceInv'
<1> SUFFICES ASSUME EvidenceInv, BlockReference PROVE EvidenceInv'
    OBVIOUS
<1>1. tool.pc = "reference" /\ tool.pc \in LivePcs /\ tool.pc \notin ProverPcs /\ tool.pc # "idle"
    BY DEF BlockReference, LivePcs, ProverPcs, ProverSteps
<1>2. CommandOK(tool) /\ DOMAIN tool = ToolFields
    BY <1>1, Running
<1> DEFINE t == [tool EXCEPT !.pc = "anchored", !.todo = RuntimeItems]
<1>3. /\ DOMAIN t = ToolFields /\ t.pc = "anchored" /\ t.job = tool.job /\ t.then = tool.then
      /\ t.report = tool.report /\ t.seen = tool.seen /\ t.rows = tool.rows
    BY <1>2 DEF ToolFields
<1>4. \E ok : Proceed(ok, t) /\ UNCHANGED <<chainVars, checkVars>>
    BY DEF BlockReference
<1> HIDE DEF t
<1>5. LivePhase(t) /\ t.pc \in LivePcs
    BY <1>1, <1>2, <1>3 DEF LivePhase, LivePcs, CommandOK
<1>6. CommandOK(t)
    BY <1>1, <1>2, <1>3, <1>5, LiveMove
<1>7. t.pc \notin ProverSteps
    BY <1>3 DEF ProverSteps
<1> QED BY <1>1, <1>4, <1>6, <1>7, ProceedKeeps

(* A read pinned to the captured head answers only while the head is canonical,
   and then every retained block is canonical with it. *)
LEMMA AnchoredStep == EvidenceInv /\ AnchoredRead => EvidenceInv'
<1> SUFFICES ASSUME EvidenceInv, AnchoredRead PROVE EvidenceInv'
    OBVIOUS
<1>1. tool.pc = "anchored" /\ tool.pc \in LivePcs /\ tool.pc \notin ProverPcs /\ tool.pc # "idle"
    BY DEF AnchoredRead, LivePcs, ProverPcs, ProverSteps
<1>2. CommandOK(tool) /\ DOMAIN tool = ToolFields
    BY <1>1, Running
<1> DEFINE t == [tool EXCEPT !.pc = "latest", !.view = Canonical]
           b == AnchorRef(bundle.runtime)
           ok == b # 0 /\ IdentityAt(b, Here) = "v1"
<1>3. /\ DOMAIN t = ToolFields /\ t.pc = "latest" /\ t.job = tool.job /\ t.then = tool.then /\ t.view = Canonical
      /\ t.report = tool.report /\ t.seen = tool.seen /\ t.rows = tool.rows
    BY <1>2 DEF ToolFields
<1>4. Proceed(ok, t) /\ UNCHANGED <<chainVars, checkVars>>
    BY DEF AnchoredRead
<1> HIDE DEF t
<1>5. \A x \in PlanTxs : Settled(x)
    BY <1>1, <1>2 DEF CommandOK, LivePhase
<1>6. ASSUME ok PROVE OneChain /\ RetainedBlocks \subseteq Canonical
    <2>1. bundle.runtime.id \in Canonical
        BY <1>6 DEF AnchorRef, PinnedBlock
    <2>2. /\ Mined(bundle.runtime.id)
          /\ bundle.runtime.id \in blocks[bundle.runtime.id].lineage
          /\ blocks[bundle.runtime.id].lineage \subseteq Canonical
        BY <2>1, CanonicalFacts DEF EvidenceInv, World, Mined
    <2>3. RetainedBlocks \subseteq blocks[bundle.runtime.id].lineage
        BY <2>2, <1>5 DEF Settled, RetainedBlocks
    <2> QED BY <2>2, <2>3 DEF OneChain
<1>7. ASSUME ok PROVE CommandOK(t)
    <2>1. LivePhase(t) /\ t.pc \in LivePcs
        BY <1>1, <1>2, <1>3, <1>5, <1>6, <1>7 DEF LivePhase, LivePcs, CommandOK
    <2> QED BY <1>1, <1>2, <1>3, <2>1, LiveMove
<1> HIDE DEF ok
<1>8. t.pc \notin ProverSteps
    BY <1>3 DEF ProverSteps
<1> QED BY <1>1, <1>4, <1>7, <1>8, ProceedKeeps

(* Where each command goes on after verify_live_chain_context. *)
LEMMA AfterLive ==
    ASSUME tool.job \in {"receipts", "replay", "token", "allocator"}
    PROVE  /\ tool.job = "receipts" => AfterLiveCheck \in {"prover", "finish"}
           /\ tool.job = "replay" => AfterLiveCheck = "writeCheck"
           /\ tool.job = "token" => AfterLiveCheck = "txblock"
           /\ tool.job = "allocator" => AfterLiveCheck = "snapblock"
BY DEF AfterLiveCheck

(* A bundle has receipts, and finitely many numbers. *)
LEMMA NumbersFinite == Numbers # {} /\ IsFiniteSet(Numbers)
<1> DEFINE f == [k \in 1..10 |-> bundle.receipts[Plan[k]].number]
<1>1. f \in Surjection(1..10, Numbers)
    <2>1. f \in [1..10 -> Numbers]
        BY PlanFacts DEF Numbers
    <2>2. \A n \in Numbers : \E k \in 1..10 : f[k] = n
        BY PlanFacts DEF Numbers
    <2> QED BY <2>1, <2>2 DEF Surjection
<1>2. IsFiniteSet(1..10)
    <2>1. PICK a \in Int, b \in Int : a = 1 /\ b = 10
        OBVIOUS
    <2>2. IsFiniteSet(a..b)
        BY <2>1, FS_Interval
    <2> QED BY <2>1, <2>2
<1> HIDE DEF f
<1>3. IsFiniteSet(Numbers)
    BY <1>1, <1>2, FS_Surjection
<1> QED BY <1>3, PlanFacts DEF Numbers

(* A row per transaction block, and a boundary per snapshot, to begin with. *)
LEMMA TokenBegins ==
    ASSUME NEW t, DOMAIN t = ToolFields, t.pc = "txblock", t.job = "token", t.then = Ascending(Numbers),
           t.todo = t.then, t.seen = <<>>, t.rows = <<>>, IsBundle(bundle)
    PROVE  TokenPhase(t)
<1>1. Numbers # {} /\ IsFiniteSet(Numbers)
    BY NumbersFinite
<1>2. PICK c \in Nat : c = Cardinality(Numbers) /\ c >= 1
    <2>1. Cardinality(Numbers) \in Nat /\ Cardinality(Numbers) # 0
        BY <1>1, FS_CardinalityType, FS_EmptySet
    <2> QED BY <2>1
<1>3. PICK f : f = t.then
    OBVIOUS
<1>4. DOMAIN f = 1..c
    BY <1>2, <1>3 DEF Ascending
<1>5. PICK S : f \in [1..c -> S]
    <2>1. f = [i \in 1..c |-> f[i]]
        BY <1>2, <1>3 DEF Ascending
    <2>2. f \in [1..c -> {f[i] : i \in 1..c}]
        BY <2>1
    <2> QED BY <2>2
<1>6. IsSeq(f) /\ Len(f) = c
    BY <1>5, <1>2, FunctionIsSeq DEF IsSeq
<1>7. Heights(t) /\ Len(t.seen) = 0
    BY DEF Heights
<1>8. Remaining(t, Len(t.seen)) /\ Len(t.todo) >= 1
    <2>1. \A i \in 1..c : f[i] = f[0 + i]
        BY <1>2
    <2> QED BY <2>1, <1>2, <1>3, <1>6, <1>7 DEF Remaining
<1>9. BlockPhase(t)
    BY <1>7, <1>8 DEF BlockPhase
<1> QED BY <1>9 DEF TokenPhase, BlockPcs, RowPcs

(* pro30 starts with all boundaries before it and no snapshot. *)
LEMMA SnapBegins ==
    ASSUME NEW t, t.pc = "snapblock", t.todo = ClaimBoundaries, t.rows = <<>>
    PROVE  SnapPhase(t)
<1>1. \A x \in {"activate", "claim-a", "claim-b", "claim-c"} : x \in PlanTxs
    BY DEF PlanTxs, ToSet, Plan
<1>2. PICK s : s = t.todo
    OBVIOUS
<1>3. DOMAIN s = 1..7 /\ Len(s) = 7
    BY <1>2 DEF ClaimBoundaries
<1>4. \A i \in 1..7 : s[i].tx \in PlanTxs
    BY <1>1, <1>2 DEF ClaimBoundaries, Boundary
<1>5. IsSeq(s)
    <2>1. s \in Seq({s[i] : i \in 1..7})
        BY <1>2 DEF ClaimBoundaries
    <2> QED BY <2>1 DEF IsSeq
<1>6. SnapshotsOK(t.rows)
    BY EmptyIsSeq DEF SnapshotsOK
<1> QED BY <1>2, <1>3, <1>4, <1>5, <1>6 DEF SnapPhase

(* The last reads, at the latest block: the report is made. *)
LEMMA LatestStep == EvidenceInv /\ LatestRead => EvidenceInv'
<1> SUFFICES ASSUME EvidenceInv, LatestRead PROVE EvidenceInv'
    OBVIOUS
<1>1. tool.pc = "latest" /\ tool.pc \in LivePcs /\ tool.pc \notin ProverPcs /\ tool.pc # "idle"
    BY DEF LatestRead, LivePcs, ProverPcs, ProverSteps
<1>2. CommandOK(tool) /\ DOMAIN tool = ToolFields
    BY <1>1, Running
<1>3. /\ \A x \in PlanTxs : Settled(x)
      /\ OneChain /\ RetainedBlocks \subseteq tool.view
      /\ tool.job # "replay" => tool.seen = <<>> /\ tool.rows = <<>>
      /\ Len(chain) > 1 /\ IsBundle(bundle) /\ ReceiptsBelow(bundle)
      /\ tool.job \in {"receipts", "replay", "token", "allocator"}
      /\ tool.job = "token" => tool.then = Ascending(Numbers)
      /\ tool.job = "allocator" => tool.then = ClaimBoundaries
    <2>1. LivePhase(tool) /\ tool.pc \notin ReplayPcs
        BY <1>1, <1>2, Phases DEF CommandOK
    <2> QED BY <1>1, <1>2, <2>1 DEF CommandOK, LivePhase
<1> DEFINE more == [tool EXCEPT !.pc = "anchored", !.todo = Rest]
           last == [tool EXCEPT !.pc = AfterLiveCheck, !.report = LiveReport, !.todo = tool.then]
<1>4. /\ DOMAIN more = ToolFields /\ more.pc = "anchored" /\ more.job = tool.job /\ more.then = tool.then
      /\ more.report = tool.report /\ more.seen = tool.seen /\ more.rows = tool.rows
    BY <1>2 DEF ToolFields
<1>5. /\ DOMAIN last = ToolFields /\ last.pc = AfterLiveCheck /\ last.job = tool.job /\ last.then = tool.then
      /\ last.report = LiveReport /\ last.seen = tool.seen /\ last.rows = tool.rows /\ last.todo = tool.then
    BY <1>2 DEF ToolFields
<1>6. /\ (\E ok : Proceed(ok, more)) \/ (\E ok : Proceed(ok, last))
      /\ UNCHANGED <<chainVars, checkVars>>
    BY DEF LatestRead
<1> HIDE DEF more, last
<1>7. CommandOK(more)
    <2>1. LivePhase(more) /\ more.pc \in LivePcs
        BY <1>1, <1>2, <1>3, <1>4 DEF LivePhase, LivePcs
    <2> QED BY <1>1, <1>2, <1>4, <2>1, LiveMove
<1>8. ReportOK(LiveReport)
    <2>1. LiveReport.anchor = bundle.runtime /\ LiveReport.view = tool.view
        BY DEF LiveReport
    <2> QED BY <1>3, <2>1 DEF ReportOK
<1>9. /\ tool.job = "receipts" => last.pc \in {"prover", "finish"}
      /\ tool.job = "replay" => last.pc = "writeCheck"
      /\ tool.job = "token" => last.pc = "txblock"
      /\ tool.job = "allocator" => last.pc = "snapblock"
    BY <1>3, <1>5, AfterLive
<1>10. last.pc \notin ReplayPcs /\ last.pc \notin LivePcs
    BY <1>3, <1>9 DEF ReplayPcs, SendPcs, CapturePcs, WritePcs, LivePcs
<1>11. last.pc \in TokenPcs => TokenPhase(last)
    <2> SUFFICES ASSUME last.pc \in TokenPcs PROVE TokenPhase(last)
        OBVIOUS
    <2>1. tool.job = "token"
        BY <1>3, <1>9 DEF TokenPcs, BlockPcs, RowPcs
    <2> QED BY <2>1, <1>3, <1>5, <1>9, TokenBegins
<1>12. last.pc \in SnapPcs \cup {"probe"} => SnapPhase(last)
    <2> SUFFICES ASSUME last.pc \in SnapPcs \cup {"probe"} PROVE SnapPhase(last)
        OBVIOUS
    <2>1. tool.job = "allocator"
        BY <1>3, <1>9 DEF SnapPcs
    <2> QED BY <2>1, <1>3, <1>5, <1>9, SnapBegins
<1>13. CommandOK(last)
    BY <1>3, <1>5, <1>8, <1>10, <1>11, <1>12 DEF CommandOK
<1>14. more.pc \notin ProverSteps /\ last.pc \notin ProverSteps
    BY <1>3, <1>4, <1>9 DEF ProverSteps
<1> QED BY <1>1, <1>6, <1>7, <1>13, <1>14, ProceedKeeps

(* The command is killed or raises: a node it has started goes on as an orphan. *)
LEMMA DiesStep == EvidenceInv /\ CommandDies => EvidenceInv'
<1> SUFFICES ASSUME EvidenceInv, CommandDies PROVE EvidenceInv'
    OBVIOUS
<1>1. /\ UNCHANGED <<blocks, chain, bundle, accepted, published, source>> /\ tool' = Idle /\ proof' = "none"
      /\ anvil' = IF tool.pc \in ProverSteps THEN [NodeLeft EXCEPT !.orphan = TRUE] ELSE NodeLeft
    BY DEF CommandDies, chainVars
<1>2. anvil \in AnvilType
    BY DEF EvidenceInv, ProofOK
<1>3. /\ anvil' \in AnvilType /\ anvil'.state = anvil.state /\ anvil'.said = "silent"
      /\ anvil'.orphan = (tool.pc \in ProverSteps \/ anvil.orphan)
    BY <1>1, <1>2 DEF NodeLeft, NoAnvil, AnvilType
<1>4. tool.pc \in ProverSteps \/ NodeReleased
    BY DEF EvidenceInv, AnvilOK
<1>5. AnvilOK(tool)' /\ ProofOK'
    BY <1>1, <1>3, <1>4 DEF AnvilOK, ProofOK, NodeReleased, Idle, ProverSteps
<1>6. ToolOK(tool')
    BY <1>1 DEF ToolOK
<1> QED BY <1>1, <1>5, <1>6, OnlyToolBy

(* Blocks of others and replacements while a command runs. *)
LEMMA MoveStep == EvidenceInv /\ ChainMoves => EvidenceInv'
<1> SUFFICES ASSUME EvidenceInv, ChainMoves PROVE EvidenceInv'
    OBVIOUS
<1>1. /\ MineForeign \/ Reorg
      /\ bundle' = bundle /\ accepted' = accepted /\ published' = published
      /\ anvil' = anvil /\ proof' = proof /\ source' = source /\ tool' = tool
    BY DEF ChainMoves, checkVars
<1>2. /\ ChainOK' /\ ChainGrows /\ Len(chain') > 1
      /\ \A t \in ChainTxs' : t \in ChainTxs \/ t \in Foreign
    BY <1>1, MovesKeep DEF EvidenceInv, World
<1>3. Grown
    BY <1>2 DEF Grown, EvidenceInv, World
<1>4. World'
    BY <1>1, <1>3, GrownWorld DEF EvidenceInv
<1>5. PICK t : t = tool
    OBVIOUS
<1>6. t = Idle \/ CommandOK(t)'
    <2> SUFFICES ASSUME CommandOK(t) PROVE CommandOK(t)'
        BY <1>5 DEF ToolOK, EvidenceInv
    <2>1. t.pc \in SendPcs => \A i \in Unsent(t) : t.todo[i] \notin ChainTxs'
        <3> SUFFICES ASSUME t.pc \in SendPcs, NEW i \in Unsent(t) PROVE t.todo[i] \notin ChainTxs'
            OBVIOUS
        <3>1. Sending(t)
            BY Phases DEF CommandOK, ReplayPhase
        <3>2. i \in 1..Len(t.todo)
            <4>1. Len(t.todo) \in Nat
                BY <3>1 DEF Sending
            <4> QED BY <4>1 DEF Unsent
        <3>3. t.todo[i] \in PlanTxs /\ t.todo[i] \notin ChainTxs
            BY <3>1, <3>2, ElementOfSeq DEF Sending
        <3> QED BY <3>3, <1>2, PlanFacts
    <2> QED BY <1>1, <1>3, <2>1, GrownCommand
<1>7. ToolOK(tool)'
    BY <1>1, <1>5, <1>6 DEF ToolOK, Idle
<1>8. AnvilOK(tool)' /\ ProofOK'
    BY <1>1 DEF EvidenceInv, ProofOK, AnvilOK, NodeReleased
<1> QED BY <1>4, <1>7, <1>8 DEF EvidenceInv

------------------------------------------------------------------------------
(* The command line begins with what the retained files already show. *)
LEMMA CommandBegins ==
    ASSUME World, bundle # Nothing, NEW t, DOMAIN t = ToolFields, t.pc \in {"head", "prover", "finish"},
           t.job \in {"receipts", "token", "allocator"}, t.report = Nothing, t.seen = <<>>, t.rows = <<>>,
           t.job = "token" => t.then = Ascending(Numbers),
           t.job = "allocator" => t.then = ClaimBoundaries
    PROVE  CommandOK(t)
<1>1. t.pc \notin ReplayPcs /\ t.pc \notin TokenPcs /\ t.pc \notin SnapPcs \cup {"probe"}
    BY DEF ReplayPcs, SendPcs, CapturePcs, WritePcs, TokenPcs, BlockPcs, RowPcs, SnapPcs
<1>2. Len(chain) > 1 /\ IsBundle(bundle) /\ ReceiptsBelow(bundle)
    BY DEF World, BundleOK
<1>3. t.pc \in LivePcs => LivePhase(t)
    BY DEF LivePhase, LivePcs
<1> QED BY <1>1, <1>2, <1>3 DEF CommandOK

(* An observation is accepted only on the strength of the retained live check,
   so at the captured head and above every retained block. *)
LEMMA AcceptedBy ==
    ASSUME World, bundle # Nothing, TerminalStateAccepted(observation, source, bundle),
           bundle' = bundle, chain' = chain, blocks' = blocks, accepted' = accepted \cup {observation}
    PROVE  AcceptedOK'
<1>1. Grown
    BY GrownSame DEF World
<1>2. bundle.check # Nothing /\ bundle.check.anchor = [number |-> observation.number, id |-> observation.id]
    BY DEF TerminalStateAccepted, AnchoredByCheck
<1>3. ReportOK(bundle.check) /\ Len(chain) > 1
    BY <1>2 DEF World, BundleOK
<1>4. IsBundle(bundle) /\ OneChain /\ bundle.check.anchor = bundle.runtime
    BY <1>3 DEF ReportOK
<1>5. observation.id = bundle.runtime.id
    BY <1>2, <1>4
<1>6. IsBundle(bundle)' /\ OneChain'
    BY <1>1, <1>4, GrownBundle
<1>7. \A o \in accepted : o.id = bundle.runtime.id
    BY DEF World, AcceptedOK
<1> QED BY <1>3, <1>5, <1>6, <1>7 DEF AcceptedOK

(* A command starts: the files stay, an observation may be accepted. *)
LEMMA BeginKeeps ==
    ASSUME EvidenceInv, tool = Idle, bundle # Nothing,
           UNCHANGED <<blocks, chain, bundle, published, anvil, proof, source>>, AcceptedOK',
           NEW ok, NEW t, Proceed(ok, t), CommandOK(t), t.pc \in {"head", "prover", "finish"}
    PROVE  EvidenceInv'
<1>1. Grown
    BY GrownSame DEF EvidenceInv, World
<1>2. World'
    BY <1>1, GrownBundleOK, GrownPublishedOK DEF EvidenceInv, World, Grown
<1>3. t.pc \notin ReplayPcs /\ t.pc \notin SendPcs
    BY DEF ReplayPcs, SendPcs, CapturePcs, WritePcs
<1>4. CommandOK(t)'
    BY <1>1, <1>3, GrownCommand
<1>5. tool' = t \/ tool' = Idle
    BY DEF Proceed
<1>6. ToolOK(tool)'
    BY <1>4, <1>5 DEF ToolOK, Idle
<1>7. NodeReleased /\ proof = "none"
    BY DEF EvidenceInv, AnvilOK, Idle, ProverSteps
<1>8. AnvilOK(tool)' /\ ProofOK'
    BY <1>5, <1>7 DEF AnvilOK, ProofOK, EvidenceInv, NodeReleased, Idle, ProverSteps
<1> QED BY <1>2, <1>6, <1>8 DEF EvidenceInv

(* pro28_receipts.py starts on a bundle. *)
LEMMA StartReceiptsStep == EvidenceInv /\ StartReceipts => EvidenceInv'
<1> SUFFICES ASSUME EvidenceInv, StartReceipts PROVE EvidenceInv'
    OBVIOUS
<1>1. /\ tool = Idle /\ bundle # Nothing
      /\ UNCHANGED <<blocks, chain, bundle, published, anvil, proof, source>>
    BY DEF StartReceipts, CanRun, chainVars, proofVars
<1> DEFINE Begun(options, pc) == [Command("receipts", options, <<>>) EXCEPT !.pc = pc]
           Seen(options) == IF options.terminal THEN observation ELSE Nothing
           Ok(options) == VerifyReport(source, bundle, Seen(options), IF options.verify THEN pin ELSE Nothing)
<1>2. PICK options : \E pc \in {"head", "prover", "finish"} :
        /\ Proceed(Ok(options), Begun(options, pc))
        /\ accepted' = IF Ok(options) /\ Seen(options) # Nothing THEN accepted \cup {Seen(options)} ELSE accepted
    BY DEF StartReceipts
<1>3. PICK pc \in {"head", "prover", "finish"} :
        /\ Proceed(Ok(options), Begun(options, pc))
        /\ accepted' = IF Ok(options) /\ Seen(options) # Nothing THEN accepted \cup {Seen(options)} ELSE accepted
    BY <1>2
<1>4. AcceptedOK'
    <2>1. CASE Ok(options) /\ Seen(options) # Nothing
        <3>1. Seen(options) = observation /\ accepted' = accepted \cup {observation}
            BY <1>3, <2>1
        <3>2. TerminalStateAccepted(observation, source, bundle)
            BY <2>1, <3>1 DEF VerifyReport
        <3> QED BY <1>1, <3>1, <3>2, AcceptedBy DEF EvidenceInv
    <2>2. CASE ~(Ok(options) /\ Seen(options) # Nothing)
        <3>1. accepted' = accepted
            BY <1>3, <2>2
        <3> QED BY <1>1, <3>1, GrownSame, GrownAcceptedOK DEF EvidenceInv, World
    <2> QED BY <2>1, <2>2
<1>5. PICK t : t = Begun(options, pc)
    OBVIOUS
<1>6. /\ DOMAIN t = ToolFields /\ t.pc = pc /\ t.job = "receipts" /\ t.report = Nothing
      /\ t.seen = <<>> /\ t.rows = <<>>
    BY <1>5 DEF Command, ToolFields
<1>7. CommandOK(t)
    BY <1>1, <1>3, <1>6, CommandBegins DEF EvidenceInv
<1>8. \E ok : Proceed(ok, t)
    BY <1>3, <1>5
<1> QED BY <1>1, <1>3, <1>4, <1>6, <1>7, <1>8, BeginKeeps

(* The check of the context is written: what it reports is known of the files. *)
LEMMA CheckWritten ==
    ASSUME World, NEW r, r # Nothing => ReportOK(r), Len(chain) > 1, IsBundle(bundle), ReceiptsBelow(bundle),
           bundle' = [bundle EXCEPT !.check = r], UNCHANGED <<blocks, chain, accepted, published>>
    PROVE  World'
<1>1. r # Nothing => OneChain /\ r.anchor = bundle.runtime /\ RetainedBlocks \subseteq r.view
    BY DEF ReportOK
<1>2. /\ bundle'.receipts = bundle.receipts /\ bundle'.runtime = bundle.runtime
      /\ bundle'.check = r /\ DOMAIN bundle' = BundleFields
    BY DEF IsBundle, BundleFields
<1>3. ChainOK'
    BY GrownSame DEF World, Grown
<1>4. IsBundle(bundle)' /\ ReceiptsBelow(bundle)'
    BY <1>2 DEF IsBundle, ReceiptsBelow, Mined, Below, Canonical, Anchor, Identifier
<1>5. RetainedBlocks' = RetainedBlocks
    BY <1>2 DEF RetainedBlocks
<1>6. OneChain => OneChain'
    BY <1>2, <1>5 DEF OneChain, Mined
<1>7. BundleOK'
    BY <1>1, <1>2, <1>4, <1>5, <1>6 DEF BundleOK, ReportOK
<1>8. AcceptedOK'
    BY <1>2, <1>4, <1>6 DEF AcceptedOK, World
<1>9. PublishedOK'
    <2>1. PICK token, allocator : token = published.token /\ allocator = published.allocator
        OBVIOUS
    <2>2. ASSUME allocator # Nothing PROVE SnapshotsOK(allocator)'
        <3>1. SnapshotsOK(allocator)
            BY <2>1, <2>2 DEF World, PublishedOK
        <3>2. ASSUME NEW i \in 1..Len(allocator) PROVE SnapshotOK(allocator[i])'
            <4>1. PICK s : s = allocator[i]
                OBVIOUS
            <4>2. AtBoundary(s.tx, s.relation, s.block) /\ Mined(s.block) /\ s.state = AllocatorAt(s.block)
                BY <3>1, <3>2, <4>1 DEF SnapshotsOK, SnapshotOK
            <4>3. AtBoundary(s.tx, s.relation, s.block)' /\ Mined(s.block)'
                BY <1>2, <4>2 DEF AtBoundary, Mined
            <4>4. AllocatorAt(s.block)' = AllocatorAt(s.block)
                BY DEF AllocatorAt, Executed
            <4> QED BY <4>1, <4>2, <4>3, <4>4 DEF SnapshotOK
        <3> QED BY <3>1, <3>2 DEF SnapshotsOK, IsSeq
    <2>3. token # Nothing => RowsPublished(token)'
        BY <2>1 DEF World, PublishedOK, RowsPublished, Mined, IsSeq
    <2> QED BY <2>1, <2>2, <2>3 DEF World, PublishedOK
<1> QED BY <1>3, <1>7, <1>8, <1>9 DEF World

(* What the running command knows outlives the writing of the check only
   because it ends: pro28_receipts.py writes its reports last. *)
LEMMA FinishStep == EvidenceInv /\ FinishReceipts => EvidenceInv'
<1> SUFFICES ASSUME EvidenceInv, FinishReceipts PROVE EvidenceInv'
    OBVIOUS
<1>1. /\ tool.pc = "finish" /\ tool.pc # "idle" /\ tool.pc \notin ProverSteps /\ tool.pc \notin ReplayPcs
      /\ tool' = Idle /\ UNCHANGED <<blocks, chain, accepted, published, source>>
      /\ proof' = "none" /\ anvil' = NodeLeft
      /\ bundle' = IF tool.report = Nothing THEN bundle ELSE [bundle EXCEPT !.check = tool.report]
    BY DEF FinishReceipts, chainVars, ProverSteps, ReplayPcs, SendPcs, CapturePcs, WritePcs
<1>2. CommandOK(tool)
    BY <1>1, Running
<1>3. Len(chain) > 1 /\ IsBundle(bundle) /\ ReceiptsBelow(bundle) /\ (tool.report # Nothing => ReportOK(tool.report))
    BY <1>1, <1>2 DEF CommandOK
<1>4. World'
    BY <1>1, <1>3, CheckWritten, GrownSame, GrownWorld DEF EvidenceInv, World
<1>5. anvil \in AnvilType /\ NodeReleased
    BY <1>1 DEF AnvilOK, ProofOK, EvidenceInv
<1>6. /\ anvil' \in AnvilType /\ anvil'.state = anvil.state /\ anvil'.said = "silent" /\ anvil'.orphan = anvil.orphan
    BY <1>1, <1>5 DEF NodeLeft, NoAnvil, AnvilType
<1>7. AnvilOK(tool)' /\ ProofOK'
    BY <1>1, <1>5, <1>6 DEF AnvilOK, ProofOK, NodeReleased, Idle, ProverSteps
<1>8. ToolOK(tool)'
    BY <1>1 DEF ToolOK, Idle
<1> QED BY <1>4, <1>7, <1>8 DEF EvidenceInv

(* The replay writes live-chain-check.json. *)
LEMMA WriteCheckStep == EvidenceInv /\ WriteLiveCheck => EvidenceInv'
<1> SUFFICES ASSUME EvidenceInv, WriteLiveCheck PROVE EvidenceInv'
    OBVIOUS
<1>1. /\ tool.pc = "writeCheck" /\ tool.pc # "idle" /\ tool.pc \notin ProverPcs /\ tool.pc \notin ReplayPcs
      /\ tool' = Idle /\ UNCHANGED <<blocks, chain, accepted, published, anvil, proof, source>>
      /\ bundle' = [bundle EXCEPT !.check = tool.report]
    BY DEF WriteLiveCheck, chainVars, proofVars, ProverPcs, ProverSteps, ReplayPcs, SendPcs, CapturePcs, WritePcs
<1>2. CommandOK(tool)
    BY <1>1, Running
<1>3. Len(chain) > 1 /\ ReceiptsBelow(bundle) /\ IsBundle(bundle) /\ (tool.report # Nothing => ReportOK(tool.report))
    BY <1>1, <1>2 DEF CommandOK
<1>4. World'
    BY <1>1, <1>3, CheckWritten DEF EvidenceInv
<1>5. NodeReleased /\ proof = "none"
    BY <1>1 DEF AnvilOK, EvidenceInv, ProverPcs, ProverSteps
<1>6. ToolOK(tool)' /\ AnvilOK(tool)' /\ ProofOK'
    BY <1>1, <1>5 DEF ToolOK, Idle, AnvilOK, NodeReleased, ProofOK, EvidenceInv, ProverSteps
<1> QED BY <1>4, <1>6 DEF EvidenceInv

(* An operator observes the terminal state of a chain. *)
LEMMA ObserveStep == EvidenceInv /\ ObserveTerminalState => EvidenceInv'
<1> SUFFICES ASSUME EvidenceInv, ObserveTerminalState PROVE EvidenceInv'
    OBVIOUS
<1>1. UNCHANGED <<blocks, chain, bundle, accepted, published, anvil, proof, source, tool>>
    BY DEF ObserveTerminalState, chainVars, proofVars
<1>2. ToolOK(tool') /\ AnvilOK(tool)' /\ ProofOK'
    BY <1>1 DEF EvidenceInv, AnvilOK, ProofOK, NodeReleased
<1> QED BY <1>1, <1>2, OnlyToolBy

------------------------------------------------------------------------------
(* verify_groth16_reference: the verifier's node and the verdict. *)

(* The command stays as it was but for its step and its count of probes. *)
LEMMA ProverMove ==
    ASSUME CommandOK(tool), tool.pc \in ProverPcs \cup {"prover"}, NEW t, DOMAIN t = ToolFields,
           t.pc \in ProverPcs, t.job = tool.job, t.then = tool.then, t.report = tool.report
    PROVE  CommandOK(t)
<1>1. tool.pc \notin ReplayPcs
    BY Phases
<1>2. /\ t.pc \notin ReplayPcs /\ t.pc \notin TokenPcs /\ t.pc \notin SnapPcs \cup {"probe"}
      /\ t.pc \notin LivePcs
    BY Phases
<1>3. Len(chain) > 1 /\ IsBundle(bundle) /\ ReceiptsBelow(bundle)
    BY <1>1 DEF CommandOK
<1> QED BY <1>2, <1>3 DEF CommandOK

(* A step of verify_groth16_reference touches only its own node and report. *)
LEMMA ProverKeeps ==
    ASSUME EvidenceInv, UNCHANGED ProofVars, tool.pc \in ProverPcs \cup {"prover"},
           NEW pc \in ProverPcs, NEW polls, tool' = [tool EXCEPT !.pc = pc, !.polls = polls],
           tool'.pc = pc => AnvilOK(tool)', ProofOK'
    PROVE  EvidenceInv'
<1>1. tool.pc # "idle"
    BY DEF ProverPcs, ProverSteps
<1>2. CommandOK(tool) /\ DOMAIN tool = ToolFields
    BY <1>1, Running
<1>3. PICK t : t = tool'
    OBVIOUS
<1>4. DOMAIN t = ToolFields /\ t.pc = pc /\ t.job = tool.job /\ t.then = tool.then /\ t.report = tool.report
    BY <1>2, <1>3 DEF ToolFields
<1>5. ToolOK(tool')
    BY <1>2, <1>3, <1>4, ProverMove DEF ToolOK
<1>6. AnvilOK(tool)'
    BY <1>3, <1>4
<1> QED BY <1>5, <1>6, OnlyToolBy DEF ProofVars, chainVars

(* The command goes on to step pc, with the node and the report as they are then. *)
LEMMA ProverGoes ==
    ASSUME EvidenceInv, UNCHANGED ProofVars, tool.pc \in ProverPcs \cup {"prover"},
           NEW pc \in ProverPcs, tool' = [tool EXCEPT !.pc = pc],
           tool'.pc = pc => AnvilOK(tool)', ProofOK'
    PROVE  EvidenceInv'
<1>1. DOMAIN tool = ToolFields
    BY Running DEF ProverPcs, ProverSteps
<1>2. [tool EXCEPT !.pc = pc] = [tool EXCEPT !.pc = pc, !.polls = tool.polls]
    BY <1>1 DEF ToolFields
<1>3. PICK polls : tool' = [tool EXCEPT !.pc = pc, !.polls = polls]
    BY <1>2
<1> QED BY <1>3, ProverKeeps

(* No verdict: the finally block comes next. *)
LEMMA ProverStops ==
    ASSUME EvidenceInv, UNCHANGED ProofVars, tool.pc \in ProverSteps, Unavailable \/ Refused,
           tool.pc # "terminate", anvil' = anvil
    PROVE  EvidenceInv'
<1>1. proof = "none" /\ source' = source
    BY DEF EvidenceInv, AnvilOK, ProofVars, ProverSteps
<1>2. proof' \in {"none", "unsupported"} /\ tool' = [tool EXCEPT !.pc = "terminate"]
    BY <1>1 DEF Unavailable, Refused
<1>3. ProofOK'
    BY <1>1, <1>2 DEF EvidenceInv, ProofOK
<1>4. tool'.pc = "terminate" => AnvilOK(tool)'
    BY DEF AnvilOK, ProverSteps
<1>5. "terminate" \in ProverPcs /\ tool.pc \in ProverPcs
    BY DEF ProverPcs, ProverSteps
<1> QED BY <1>2, <1>3, <1>4, <1>5, ProverGoes

(* A node of its own, or none. *)
LEMMA StartAnvilStep == EvidenceInv /\ StartAnvil => EvidenceInv'
<1> SUFFICES ASSUME EvidenceInv, StartAnvil PROVE EvidenceInv'
    OBVIOUS
<1>1. tool.pc = "prover" /\ UNCHANGED ProofVars /\ tool.pc \in ProverPcs \cup {"prover"}
    BY DEF StartAnvil
<1>2. source' = source /\ proof = "none" /\ NodeReleased /\ anvil \in AnvilType
    BY <1>1 DEF EvidenceInv, AnvilOK, ProofOK, ProofVars, ProverSteps
<1>3. CASE /\ anvil' = [NoAnvil EXCEPT !.state = "starting"] /\ tool' = [tool EXCEPT !.pc = "poll"]
           /\ UNCHANGED proof
    <2>1. anvil' \in AnvilType /\ anvil'.said = "silent"
        BY <1>3 DEF NoAnvil, AnvilType
    <2>2. ProofOK'
        BY <1>2, <1>3, <2>1 DEF ProofOK
    <2>3. tool'.pc = "poll" => AnvilOK(tool)'
        BY <1>2, <1>3, <2>1 DEF AnvilOK, ProverSteps
    <2>4. "poll" \in ProverPcs
        BY DEF ProverPcs, ProverSteps
    <2> QED BY <1>1, <1>3, <2>2, <2>3, <2>4, ProverGoes
<1>4. CASE proof' = "unsupported" /\ tool' = [tool EXCEPT !.pc = "finish"] /\ UNCHANGED anvil
    <2>1. ProofOK'
        BY <1>2, <1>4 DEF ProofOK, EvidenceInv
    <2>2. tool'.pc = "finish" => AnvilOK(tool)'
        BY <1>2, <1>4 DEF AnvilOK, ProverSteps, NodeReleased
    <2>3. "finish" \in ProverPcs
        BY DEF ProverPcs
    <2> QED BY <1>1, <1>4, <2>1, <2>2, <2>3, ProverGoes
<1> QED BY <1>3, <1>4 DEF StartAnvil

(* The probes for it. *)
LEMMA PollStep == EvidenceInv /\ PollAnvil => EvidenceInv'
<1> SUFFICES ASSUME EvidenceInv, PollAnvil PROVE EvidenceInv'
    OBVIOUS
<1>1. /\ tool.pc = "poll" /\ UNCHANGED ProofVars /\ tool.pc \in ProverPcs \cup {"prover"}
      /\ tool.pc \in ProverSteps /\ anvil' = anvil
    BY DEF PollAnvil, ProverPcs, ProverSteps
<1>2. source' = source /\ proof = "none" /\ anvil.said = "silent"
    BY <1>1 DEF EvidenceInv, AnvilOK, ProofVars
<1>3. CASE Unavailable
    BY <1>1, <1>3, ProverStops
<1>4. ASSUME UNCHANGED proof PROVE ProofOK'
    BY <1>1, <1>2, <1>4 DEF EvidenceInv, ProofOK
<1>5. ASSUME UNCHANGED proof PROVE tool'.pc \in {"poll", "install", "terminate"} => AnvilOK(tool)'
    BY <1>1, <1>2, <1>5 DEF AnvilOK, ProverSteps
<1>6. {"poll", "install", "terminate"} \subseteq ProverPcs
    BY DEF ProverPcs, ProverSteps
<1>7. CASE tool' = [tool EXCEPT !.polls = @ + 1] /\ UNCHANGED proof
    <2>1. DOMAIN tool = ToolFields
        BY <1>1, Running
    <2>2. tool' = [tool EXCEPT !.pc = "poll", !.polls = tool.polls + 1]
        BY <1>1, <1>7, <2>1 DEF ToolFields
    <2>3. PICK n : tool' = [tool EXCEPT !.pc = "poll", !.polls = n]
        BY <2>2
    <2> QED BY <1>1, <1>4, <1>5, <1>6, <1>7, <2>3, ProverKeeps
<1>8. CASE UNCHANGED proof /\ \E next \in {"install", "terminate"} : tool' = [tool EXCEPT !.pc = next]
    <2>1. PICK next \in {"install", "terminate"} : tool' = [tool EXCEPT !.pc = next]
        BY <1>8
    <2> QED BY <1>1, <1>4, <1>5, <1>6, <1>8, <2>1, ProverGoes
<1> QED BY <1>3, <1>7, <1>8 DEF PollAnvil

(* The code is installed and read back. *)
LEMMA InstallStep == EvidenceInv /\ InstallVerifier => EvidenceInv'
<1> SUFFICES ASSUME EvidenceInv, InstallVerifier PROVE EvidenceInv'
    OBVIOUS
<1>1. /\ tool.pc = "install" /\ UNCHANGED ProofVars /\ tool.pc \in ProverPcs \cup {"prover"}
      /\ tool.pc \in ProverSteps
    BY DEF InstallVerifier, ProverPcs, ProverSteps
<1>2. source' = source /\ proof = "none" /\ anvil.said = "silent" /\ anvil \in AnvilType
    BY <1>1 DEF EvidenceInv, AnvilOK, ProofOK, ProofVars
<1>3. CASE Unavailable /\ UNCHANGED anvil
    BY <1>1, <1>3, ProverStops
<1>4. ASSUME NEW pinned \in BOOLEAN, anvil' = [anvil EXCEPT !.pinned = pinned],
             IF pinned THEN tool' = [tool EXCEPT !.pc = "call"] /\ UNCHANGED proof ELSE Refused
      PROVE  EvidenceInv'
    <2>1. anvil' \in AnvilType /\ anvil'.said = "silent" /\ anvil'.pinned = pinned
        BY <1>2, <1>4 DEF AnvilType
    <2>2. proof' = "none"
        BY <1>2, <1>4 DEF Refused
    <2>3. ProofOK'
        BY <1>2, <2>1, <2>2 DEF ProofOK
    <2>4. PICK pc \in {"call", "terminate"} : tool' = [tool EXCEPT !.pc = pc] /\ (pc = "call" => pinned)
        BY <1>4 DEF Refused
    <2>5. tool'.pc = pc => AnvilOK(tool)'
        BY <2>1, <2>2, <2>4 DEF AnvilOK, ProverSteps
    <2>6. pc \in ProverPcs
        BY <2>4 DEF ProverPcs, ProverSteps
    <2> QED BY <1>1, <2>3, <2>4, <2>5, <2>6, ProverGoes
<1> QED BY <1>3, <1>4 DEF InstallVerifier

(* The answer becomes a verdict, or none. *)
LEMMA CallStep == EvidenceInv /\ CallVerifier => EvidenceInv'
<1> SUFFICES ASSUME EvidenceInv, CallVerifier PROVE EvidenceInv'
    OBVIOUS
<1>1. /\ tool.pc = "call" /\ UNCHANGED ProofVars /\ tool.pc \in ProverPcs \cup {"prover"}
      /\ tool.pc \in ProverSteps /\ anvil' = anvil
    BY DEF CallVerifier, ProverPcs, ProverSteps
<1>2. source' = source /\ proof = "none" /\ anvil.pinned
    BY <1>1 DEF EvidenceInv, AnvilOK, ProofVars
<1>3. CASE Unavailable \/ Refused
    BY <1>1, <1>3, ProverStops
<1>4. CASE anvil.said = "accepted" /\ proof' = "verified" /\ tool' = [tool EXCEPT !.pc = "terminate"]
    <2>1. ProofOK'
        BY <1>1, <1>2, <1>4 DEF EvidenceInv, ProofOK
    <2>2. tool'.pc = "terminate" => AnvilOK(tool)'
        BY DEF AnvilOK, ProverSteps
    <2>3. "terminate" \in ProverPcs
        BY DEF ProverPcs, ProverSteps
    <2> QED BY <1>1, <1>4, <2>1, <2>2, <2>3, ProverGoes
<1>5. CASE anvil.said = "error" /\ tool' = [tool EXCEPT !.pc = "answered"] /\ UNCHANGED proof
    <2>1. ProofOK'
        BY <1>1, <1>2, <1>5 DEF EvidenceInv, ProofOK
    <2>2. tool'.pc = "answered" => AnvilOK(tool)'
        BY <1>1, <1>2, <1>5 DEF AnvilOK, ProverSteps
    <2>3. "answered" \in ProverPcs
        BY DEF ProverPcs, ProverSteps
    <2> QED BY <1>1, <1>5, <2>1, <2>2, <2>3, ProverGoes
<1> QED BY <1>3, <1>4, <1>5 DEF CallVerifier

(* An error of a node that still runs is "not_verified". *)
LEMMA AnsweredStep == EvidenceInv /\ AnsweredError => EvidenceInv'
<1> SUFFICES ASSUME EvidenceInv, AnsweredError PROVE EvidenceInv'
    OBVIOUS
<1>1. /\ tool.pc = "answered" /\ UNCHANGED ProofVars /\ tool.pc \in ProverPcs \cup {"prover"}
      /\ tool.pc \in ProverSteps /\ anvil' = anvil
    BY DEF AnsweredError, ProverPcs, ProverSteps
<1>2. source' = source /\ proof = "none" /\ anvil.said = "error"
    BY <1>1 DEF EvidenceInv, AnvilOK, ProofVars
<1>3. CASE Unavailable
    BY <1>1, <1>3, ProverStops
<1>4. CASE proof' = "not_verified" /\ tool' = [tool EXCEPT !.pc = "terminate"]
    <2>1. ProofOK'
        BY <1>1, <1>2, <1>4 DEF EvidenceInv, ProofOK
    <2>2. tool'.pc = "terminate" => AnvilOK(tool)'
        BY DEF AnvilOK, ProverSteps
    <2>3. "terminate" \in ProverPcs
        BY DEF ProverPcs, ProverSteps
    <2> QED BY <1>1, <1>4, <2>1, <2>2, <2>3, ProverGoes
<1> QED BY <1>3, <1>4 DEF AnsweredError

(* The finally block stops the node. *)
LEMMA TerminateStep == EvidenceInv /\ TerminateAnvil => EvidenceInv'
<1> SUFFICES ASSUME EvidenceInv, TerminateAnvil PROVE EvidenceInv'
    OBVIOUS
<1>1. /\ tool.pc = "terminate" /\ UNCHANGED ProofVars /\ tool.pc \in ProverPcs \cup {"prover"} /\ proof' = proof
    BY DEF TerminateAnvil, ProverPcs, ProverSteps
<1>2. source' = source /\ anvil \in AnvilType
    BY <1>1 DEF EvidenceInv, ProofOK, ProofVars
<1>3. CASE anvil' = [anvil EXCEPT !.state = "none"] /\ tool' = [tool EXCEPT !.pc = "finish"]
    <2>1. /\ anvil' \in AnvilType /\ anvil'.state = "none" /\ anvil'.said = anvil.said
          /\ anvil'.pinned = anvil.pinned
        BY <1>2, <1>3 DEF AnvilType
    <2>2. ProofOK'
        BY <1>1, <1>2, <2>1 DEF EvidenceInv, ProofOK
    <2>3. tool'.pc = "finish" => AnvilOK(tool)'
        BY <2>1 DEF AnvilOK, ProverSteps, NodeReleased
    <2>4. "finish" \in ProverPcs
        BY DEF ProverPcs
    <2> QED BY <1>1, <1>3, <2>2, <2>3, <2>4, ProverGoes
<1>4. CASE proof = "none" /\ anvil' = [NodeLeft EXCEPT !.state = "none"] /\ tool' = Idle
    <2>1. anvil' \in AnvilType /\ anvil'.state = "none" /\ anvil'.said = "silent"
        BY <1>2, <1>4 DEF AnvilType, NodeLeft, NoAnvil
    <2>2. ProofOK'
        BY <1>1, <1>4, <2>1 DEF ProofOK
    <2>3. AnvilOK(tool)'
        BY <1>1, <1>4, <2>1 DEF AnvilOK, ProverSteps, NodeReleased, Idle
    <2>4. ToolOK(tool')
        BY <1>4 DEF ToolOK
    <2> QED BY <1>1, <2>2, <2>3, <2>4, OnlyToolBy DEF ProofVars, chainVars
<1> QED BY <1>3, <1>4 DEF TerminateAnvil

(* The node comes up, dies, or answers the call: as the pinned code does. *)
LEMMA AnvilStep == EvidenceInv /\ (AnvilReady \/ AnvilDies \/ AnvilAnswers) => EvidenceInv'
<1> SUFFICES ASSUME EvidenceInv, AnvilReady \/ AnvilDies \/ AnvilAnswers PROVE EvidenceInv'
    OBVIOUS
<1>1. UNCHANGED <<blocks, chain, bundle, accepted, published, proof, source, tool>>
    BY DEF AnvilReady, AnvilDies, AnvilAnswers, ProofVars, chainVars
<1>2. anvil \in AnvilType
    BY DEF EvidenceInv, ProofOK
<1>3. AnvilOK(tool)' /\ ProofOK'
    <2>1. CASE AnvilReady \/ AnvilDies
        <3>1. /\ anvil.state \in {"starting", "ready"}
              /\ \E state \in {"ready", "dead"} : anvil' = [anvil EXCEPT !.state = state]
            BY <2>1 DEF AnvilReady, AnvilDies
        <3>2. /\ anvil' \in AnvilType /\ anvil'.pinned = anvil.pinned
              /\ anvil'.said = anvil.said /\ anvil'.orphan = anvil.orphan
            BY <1>2, <3>1 DEF AnvilType
        <3>3. NodeReleased => NodeReleased'
            BY <3>1, <3>2 DEF NodeReleased
        <3> QED BY <1>1, <3>2, <3>3 DEF EvidenceInv, AnvilOK, ProofOK
    <2>2. CASE AnvilAnswers
        <3>1. PICK answer \in {"accepted", "error", "data"} :
                /\ anvil.pinned /\ answer = "accepted" => source.proofValid
                /\ anvil' = [anvil EXCEPT !.said = answer]
            BY <2>2 DEF AnvilAnswers
        <3>2. tool.pc = "call" /\ anvil.said = "silent"
            BY <2>2 DEF AnvilAnswers
        <3>3. /\ anvil' \in AnvilType /\ anvil'.pinned = anvil.pinned /\ anvil'.said = answer
            BY <1>2, <3>1 DEF AnvilType
        <3>4. proof = "none" /\ anvil.pinned
            BY <3>2 DEF EvidenceInv, AnvilOK
        <3> QED BY <1>1, <3>1, <3>2, <3>3, <3>4 DEF AnvilOK, ProofOK, ProverSteps
    <2> QED BY <2>1, <2>2
<1>4. ToolOK(tool')
    BY <1>1 DEF EvidenceInv
<1> QED BY <1>1, <1>3, <1>4, OnlyToolBy

------------------------------------------------------------------------------
(* pro30_allocator_state.py: the snapshots. *)
LEMMA StartAllocatorStep == EvidenceInv /\ StartAllocator => EvidenceInv'
<1> SUFFICES ASSUME EvidenceInv, StartAllocator PROVE EvidenceInv'
    OBVIOUS
<1>1. /\ tool = Idle /\ bundle # Nothing
      /\ UNCHANGED <<blocks, chain, bundle, published, anvil, proof, source, accepted>>
    BY DEF StartAllocator, CanRun, chainVars, proofVars
<1> DEFINE Begun(verify) == Command("allocator", [NoOptions EXCEPT !.verify = verify], ClaimBoundaries)
<1>2. \E verify, ok : Proceed(ok, Begun(verify))
    BY DEF StartAllocator
<1>3. PICK verify : \E ok : Proceed(ok, Begun(verify))
    BY <1>2
<1>4. PICK t : t = Begun(verify)
    OBVIOUS
<1>5. /\ DOMAIN t = ToolFields /\ t.pc = "head" /\ t.job = "allocator" /\ t.report = Nothing
      /\ t.seen = <<>> /\ t.rows = <<>> /\ t.then = ClaimBoundaries
    BY <1>4 DEF Command, ToolFields
<1>6. CommandOK(t)
    BY <1>1, <1>5, CommandBegins DEF EvidenceInv
<1>7. AcceptedOK'
    BY <1>1, GrownSame, GrownAcceptedOK DEF EvidenceInv, World
<1>8. \E ok : Proceed(ok, t)
    BY <1>3, <1>4
<1> HIDE DEF Begun
<1> QED BY <1>1, <1>5, <1>6, <1>7, <1>8, BeginKeeps

(* A step of pro30 from one boundary or read to the next. *)
LEMMA SnapMove ==
    ASSUME CommandOK(tool), tool.pc \in SnapPcs, NEW t, DOMAIN t = ToolFields,
           t.pc \in SnapPcs \cup {"probe"}, t.job = tool.job, t.then = tool.then, t.report = tool.report,
           SnapPhase(t)
    PROVE  CommandOK(t)
<1>1. /\ tool.pc \notin ReplayPcs
      /\ t.pc \notin ReplayPcs /\ t.pc \notin TokenPcs /\ t.pc \notin LivePcs
    BY Phases
<1>2. Len(chain) > 1 /\ IsBundle(bundle) /\ ReceiptsBelow(bundle)
    BY <1>1 DEF CommandOK
<1> QED BY <1>1, <1>2 DEF CommandOK

(* What holds while pro30 reads. *)
LEMMA AtSnap ==
    ASSUME EvidenceInv, tool.pc \in SnapPcs
    PROVE  /\ tool.pc \notin ProverPcs /\ CommandOK(tool) /\ DOMAIN tool = ToolFields /\ SnapPhase(tool)
           /\ IsBundle(bundle) /\ Len(chain) > 1 /\ ChainOK
<1>1. tool.pc \notin ProverPcs /\ tool.pc # "idle" /\ tool.pc \notin ReplayPcs
    BY Phases
<1>2. CommandOK(tool) /\ DOMAIN tool = ToolFields
    BY <1>1, Running
<1> QED BY <1>1, <1>2 DEF CommandOK, EvidenceInv, World

(* The block of a boundary is fetched by its number. *)
LEMMA SnapBlockStep == EvidenceInv /\ ReadSnapshotBlock => EvidenceInv'
<1> SUFFICES ASSUME EvidenceInv, ReadSnapshotBlock PROVE EvidenceInv'
    OBVIOUS
<1>1. tool.pc = "snapblock" /\ tool.pc \in SnapPcs
    BY DEF ReadSnapshotBlock, SnapPcs
<1>2. tool.pc \notin ProverPcs /\ CommandOK(tool) /\ DOMAIN tool = ToolFields /\ SnapPhase(tool)
    BY <1>1, AtSnap
<1> DEFINE t == [tool EXCEPT !.pc = "snaptxs", !.held = BlockByNumber(Here.number)]
<1>3. /\ DOMAIN t = ToolFields /\ t.pc = "snaptxs" /\ t.job = tool.job /\ t.then = tool.then
      /\ t.report = tool.report /\ t.rows = tool.rows /\ t.todo = tool.todo
    BY <1>2 DEF ToolFields
<1>4. \E ok : Proceed(ok, t) /\ UNCHANGED <<chainVars, checkVars>>
    BY DEF ReadSnapshotBlock
<1> HIDE DEF t
<1>5. SnapPhase(t) /\ t.pc \in SnapPcs
    BY <1>1, <1>2, <1>3 DEF SnapPhase, SnapPcs
<1>6. CommandOK(t)
    BY <1>1, <1>2, <1>3, <1>5, SnapMove
<1>7. t.pc \notin ProverSteps
    BY <1>3 DEF ProverSteps
<1> QED BY <1>2, <1>4, <1>6, <1>7, ProceedKeeps

(* The transactions of that block are fetched and compared. *)
LEMMA SnapTxsStep == EvidenceInv /\ ReadSnapshotTxs => EvidenceInv'
<1> SUFFICES ASSUME EvidenceInv, ReadSnapshotTxs PROVE EvidenceInv'
    OBVIOUS
<1>1. tool.pc = "snaptxs" /\ tool.pc \in SnapPcs
    BY DEF ReadSnapshotTxs, SnapPcs
<1>2. tool.pc \notin ProverPcs /\ CommandOK(tool) /\ DOMAIN tool = ToolFields /\ SnapPhase(tool)
    BY <1>1, AtSnap
<1> DEFINE t == [tool EXCEPT !.pc = IF Here.relation = "after" THEN "snapreads" ELSE "snapnext"]
<1>3. /\ DOMAIN t = ToolFields /\ t.pc = (IF Here.relation = "after" THEN "snapreads" ELSE "snapnext")
      /\ t.job = tool.job /\ t.then = tool.then
      /\ t.report = tool.report /\ t.rows = tool.rows /\ t.todo = tool.todo /\ t.held = tool.held
    BY <1>2 DEF ToolFields
<1>4. PICK ok : /\ Proceed(ok, t) /\ UNCHANGED <<chainVars, checkVars>>
                /\ ok => (Here.relation = "after" => tool.held = bundle.receipts[Here.tx].id)
    BY DEF ReadSnapshotTxs, AnchoredAfter
<1> HIDE DEF t
<1>5. ok => SnapPhase(t) /\ t.pc \in SnapPcs
    BY <1>1, <1>2, <1>3, <1>4 DEF SnapPhase, SnapPcs, AtBoundary, Here
<1>6. ok => CommandOK(t)
    BY <1>1, <1>2, <1>3, <1>5, SnapMove
<1>7. t.pc \notin ProverSteps
    BY <1>3 DEF ProverSteps
<1> QED BY <1>2, <1>4, <1>6, <1>7, ProceedKeeps

(* The next block is the one of the receipt, and the block held its parent. *)
LEMMA SnapNextStep == EvidenceInv /\ ReadNextBlock => EvidenceInv'
<1> SUFFICES ASSUME EvidenceInv, ReadNextBlock PROVE EvidenceInv'
    OBVIOUS
<1>1. tool.pc = "snapnext" /\ tool.pc \in SnapPcs
    BY DEF ReadNextBlock, SnapPcs
<1>2. /\ tool.pc \notin ProverPcs /\ CommandOK(tool) /\ DOMAIN tool = ToolFields /\ SnapPhase(tool)
      /\ IsBundle(bundle) /\ ChainOK
    BY <1>1, AtSnap
<1> DEFINE t == [tool EXCEPT !.pc = "snapreads"]
           n == bundle.receipts[Here.tx].number
           ok == n <= HeadNumber /\ AnchoredBefore(Here, tool.held, BlockByNumber(n))
<1>3. /\ DOMAIN t = ToolFields /\ t.pc = "snapreads" /\ t.job = tool.job /\ t.then = tool.then
      /\ t.report = tool.report /\ t.rows = tool.rows /\ t.todo = tool.todo /\ t.held = tool.held
    BY <1>2 DEF ToolFields
<1>4. Proceed(ok, t) /\ UNCHANGED <<chainVars, checkVars>>
    BY DEF ReadNextBlock
<1> HIDE DEF t
<1>5. Here.tx \in PlanTxs /\ Here.relation # "after" /\ Here = tool.todo[1]
    <2>1. IsSeq(tool.todo) /\ Len(tool.todo) >= 1 /\ \A i \in 1..Len(tool.todo) : tool.todo[i].tx \in PlanTxs
        BY <1>1, <1>2 DEF SnapPhase
    <2>2. 1 \in 1..Len(tool.todo)
        BY <2>1, IsSeqFacts
    <2> QED BY <2>1, <2>2, <1>1, <1>2 DEF SnapPhase, Here
<1>6. ASSUME ok PROVE AtBoundary(Here.tx, Here.relation, tool.held)
    <2>1. n \in Nat
        BY <1>2, <1>5, BundleIds DEF Anchor
    <2>2. chain \in Seq(1..Len(blocks)) /\ n + 1 \in 1..Len(chain)
        BY <1>2, <1>6, <2>1 DEF ChainOK, BlocksOK, HeadNumber
    <2>3. chain[n + 1] \in 1..Len(blocks)
        BY <2>2, ElementOfSeq
    <2>4. /\ blocks[chain[n + 1]].parent = tool.held
          /\ chain[n + 1] = bundle.receipts[Here.tx].id
        BY <1>6 DEF AnchoredBefore, BlockByNumber
    <2> QED BY <2>3, <2>4, <1>5 DEF AtBoundary, Mined
<1> HIDE DEF ok
<1>7. ok => SnapPhase(t) /\ t.pc \in SnapPcs
    BY <1>1, <1>2, <1>3, <1>5, <1>6 DEF SnapPhase, SnapPcs
<1>8. ok => CommandOK(t)
    BY <1>1, <1>2, <1>3, <1>7, SnapMove
<1>9. t.pc \notin ProverSteps
    BY <1>3 DEF ProverSteps
<1> QED BY <1>2, <1>4, <1>8, <1>9, ProceedKeeps

(* A read pinned to the block held answers with the state of that very block. *)
LEMMA SnapReadStep == EvidenceInv /\ ReadSnapshot => EvidenceInv'
<1> SUFFICES ASSUME EvidenceInv, ReadSnapshot PROVE EvidenceInv'
    OBVIOUS
<1>1. tool.pc = "snapreads" /\ tool.pc \in SnapPcs
    BY DEF ReadSnapshot, SnapPcs
<1>2. /\ tool.pc \notin ProverPcs /\ CommandOK(tool) /\ DOMAIN tool = ToolFields /\ SnapPhase(tool)
      /\ IsBundle(bundle) /\ ChainOK
    BY <1>1, AtSnap
<1> DEFINE b == SnapshotRef([number |-> Here.number, id |-> tool.held])
           s == [id |-> Here.id, tx |-> Here.tx, relation |-> Here.relation,
                 number |-> Here.number, block |-> tool.held, state |-> AllocatorAt(b)]
           rows == Append(tool.rows, s)
           more == [tool EXCEPT !.pc = "snapblock", !.todo = Rest, !.rows = rows]
           last == [tool EXCEPT !.pc = "probe", !.rows = rows]
<1>3. /\ DOMAIN more = ToolFields /\ more.pc = "snapblock" /\ more.job = tool.job /\ more.then = tool.then
      /\ more.report = tool.report /\ more.rows = rows /\ more.todo = Rest
    BY <1>2 DEF ToolFields
<1>4. /\ DOMAIN last = ToolFields /\ last.pc = "probe" /\ last.job = tool.job /\ last.then = tool.then
      /\ last.report = tool.report /\ last.rows = rows
    BY <1>2 DEF ToolFields
<1>5. PICK ok : /\ ok => b # 0
                /\ (Rest # <<>> /\ Proceed(ok, more)) \/ Proceed(ok, last)
                /\ UNCHANGED <<chainVars, checkVars>>
    BY DEF ReadSnapshot
<1>6. /\ IsSeq(tool.todo) /\ Len(tool.todo) >= 1 /\ \A i \in 1..Len(tool.todo) : tool.todo[i].tx \in PlanTxs
      /\ SnapshotsOK(tool.rows) /\ AtBoundary(Here.tx, Here.relation, tool.held)
    BY <1>1, <1>2 DEF SnapPhase, Here
<1>7. ASSUME ok PROVE SnapshotsOK(rows)
    <2>1. tool.held \in Canonical /\ b = tool.held
        BY <1>5, <1>7 DEF SnapshotRef, PinnedBlock
    <2>2. Mined(tool.held)
        BY <2>1, <1>2, CanonicalFacts DEF Mined
    <2>3. /\ s.tx = Here.tx /\ s.relation = Here.relation /\ s.block = tool.held /\ s.state = AllocatorAt(b)
        OBVIOUS
    <2> HIDE DEF s, b
    <2>4. SnapshotOK(s)
        BY <1>6, <2>1, <2>2, <2>3 DEF SnapshotOK
    <2>5. IsSeq(tool.rows) /\ \A i \in 1..Len(tool.rows) : SnapshotOK(tool.rows[i])
        BY <1>6 DEF SnapshotsOK
    <2>6. /\ Len(tool.rows) \in Nat
          /\ IsSeq(rows) /\ Len(rows) = Len(tool.rows) + 1
          /\ \A i \in 1..Len(tool.rows) : rows[i] = tool.rows[i]
          /\ rows[Len(tool.rows) + 1] = s
        BY <2>5, IsSeqFacts
    <2> HIDE DEF rows
    <2>7. ASSUME NEW i \in 1..Len(rows) PROVE SnapshotOK(rows[i])
        <3>1. i \in 1..Len(tool.rows) \/ i = Len(tool.rows) + 1
            BY <2>6, <2>7
        <3> QED BY <3>1, <2>4, <2>5, <2>6
    <2> QED BY <2>6, <2>7 DEF SnapshotsOK
<1> HIDE DEF rows, more, last, b, s
<1>8. ok /\ Rest # <<>> => CommandOK(more)
    <2>1. /\ IsSeq(Rest) /\ Len(Rest) = Len(tool.todo) - 1 /\ Len(tool.todo) \in Nat
          /\ \A i \in 1..Len(tool.todo) - 1 : Rest[i] = tool.todo[i + 1]
          /\ Rest # <<>> <=> Len(tool.todo) > 1
        BY <1>6, IsSeqFacts DEF Rest
    <2>2. \A i \in 1..Len(Rest) : Rest[i].tx \in PlanTxs
        BY <2>1, <1>6
    <2>3. ok /\ Rest # <<>> => SnapPhase(more) /\ more.pc \in SnapPcs
        BY <2>1, <2>2, <1>3, <1>7 DEF SnapPhase, SnapPcs
    <2> QED BY <2>3, <1>1, <1>2, <1>3, SnapMove
<1>9. ok => CommandOK(last)
    <2>1. ok => SnapPhase(last)
        BY <1>4, <1>7 DEF SnapPhase, SnapPcs
    <2> QED BY <2>1, <1>1, <1>2, <1>4, SnapMove
<1>10. more.pc \notin ProverSteps /\ last.pc \notin ProverSteps
    BY <1>3, <1>4 DEF ProverSteps
<1> QED BY <1>2, <1>5, <1>8, <1>9, <1>10, ProceedKeeps

(* What is published is what the command collected, or nothing, once. *)
LEMMA PublishKeeps ==
    ASSUME EvidenceInv, UNCHANGED <<blocks, chain, bundle, accepted, anvil, proof, source>>,
           tool.pc \notin ProverPcs, Len(chain) > 1,
           NEW job \in {"token", "allocator"}, NEW rows, Publish(job, rows),
           rows # Nothing /\ job = "token" => RowsPublished(rows),
           rows # Nothing /\ job = "allocator" => SnapshotsOK(rows)
    PROVE  EvidenceInv'
<1>1. Grown
    BY GrownSame DEF EvidenceInv, World
<1>2. tool' = Idle /\ (published' = published \/ published' = [published EXCEPT ![job] = rows])
    BY DEF Publish
<1>3. BundleOK' /\ AcceptedOK' /\ ChainOK'
    BY <1>1, GrownBundleOK, GrownAcceptedOK DEF EvidenceInv, World, Grown
<1>4. PublishedOK'
    <2>1. CASE published' = published
        BY <1>1, <2>1, GrownPublishedOK DEF EvidenceInv, World
    <2>2. CASE published' = [published EXCEPT ![job] = rows]
        <3>1. PICK token, allocator : token = published'.token /\ allocator = published'.allocator
            OBVIOUS
        <3>2. DOMAIN published' = {"token", "allocator"} /\ DOMAIN published = {"token", "allocator"}
            BY <2>2 DEF EvidenceInv, World, PublishedOK
        <3>3. /\ token # Nothing => RowsPublished(token)
              /\ allocator # Nothing => SnapshotsOK(allocator)
            BY <2>2, <3>1, <3>2 DEF EvidenceInv, World, PublishedOK
        <3>4. /\ token # Nothing => RowsPublished(token)'
              /\ allocator # Nothing => SnapshotsOK(allocator)'
            BY <1>1, <3>3, GrownRows, GrownSnapshots
        <3> QED BY <3>1, <3>2, <3>4 DEF PublishedOK
    <2> QED BY <1>2, <2>1, <2>2
<1>5. ToolOK(tool)' /\ AnvilOK(tool)' /\ ProofOK'
    BY <1>2 DEF ToolOK, Idle, AnvilOK, ProofOK, EvidenceInv, NodeReleased, ProverPcs, ProverSteps
<1> QED BY <1>3, <1>4, <1>5 DEF EvidenceInv, World

(* The replay probe ends pro30, which publishes its snapshots. *)
LEMMA ProbeStep == EvidenceInv /\ ReplayProbe => EvidenceInv'
<1> SUFFICES ASSUME EvidenceInv, ReplayProbe PROVE EvidenceInv'
    OBVIOUS
<1>1. /\ tool.pc = "probe" /\ tool.pc \notin ProverPcs /\ tool.pc # "idle" /\ tool.pc \notin ReplayPcs
      /\ UNCHANGED <<blocks, chain, bundle, accepted, anvil, proof, source>>
    BY Phases DEF ReplayProbe, chainVars, proofVars
<1>2. CommandOK(tool)
    BY <1>1, Running
<1>3. Len(chain) > 1 /\ SnapshotsOK(tool.rows)
    BY <1>1, <1>2 DEF CommandOK, SnapPhase
<1>4. PICK rows : Publish("allocator", rows) /\ (rows = tool.rows \/ rows = Nothing)
    BY DEF ReplayProbe, PublishAllocator
<1> QED BY <1>1, <1>3, <1>4, PublishKeeps

------------------------------------------------------------------------------
(* replay_pro28_local_capture.py. *)
LEMMA ReplayCommand ==
    ASSUME NEW t, DOMAIN t = ToolFields, t.pc \in ReplayPcs, ReplayPhase(t)
    PROVE  CommandOK(t)
<1>1. t.job = "replay" /\ t.report = Nothing
    BY DEF ReplayPhase
<1>2. t.pc \notin TokenPcs /\ t.pc \notin LivePcs /\ t.pc \notin SnapPcs \cup {"probe"}
    BY Phases
<1> QED BY <1>1, <1>2 DEF CommandOK

(* What holds while the replay runs. *)
LEMMA AtReplay ==
    ASSUME EvidenceInv, tool.pc \in ReplayPcs
    PROVE  /\ tool.pc \notin ProverPcs /\ CommandOK(tool) /\ DOMAIN tool = ToolFields /\ ReplayPhase(tool)
           /\ World /\ ChainOK /\ BlocksOK
<1>1. tool.pc \notin ProverPcs /\ tool.pc # "idle"
    BY Phases
<1>2. CommandOK(tool) /\ DOMAIN tool = ToolFields
    BY <1>1, Running
<1> QED BY <1>1, <1>2 DEF CommandOK, EvidenceInv, World, ChainOK

(* On a fresh chain nothing of the plan has been mined, and nothing was accepted
   or published of a bundle that does not exist yet. *)
LEMMA StartReplayStep == EvidenceInv /\ StartReplay => EvidenceInv'
<1> SUFFICES ASSUME EvidenceInv, StartReplay PROVE EvidenceInv'
    OBVIOUS
<1>1. /\ tool = Idle /\ HeadNumber = 0
      /\ UNCHANGED <<blocks, chain, bundle, published, anvil, proof, source, accepted>>
      /\ tool' = [Command("replay", NoOptions, <<>>) EXCEPT !.pc = "send", !.todo = Plan]
    BY DEF StartReplay, chainVars, proofVars
<1>2. Len(chain) = 1 /\ chain[1] = 1 /\ blocks[1].tx = "genesis" /\ DOMAIN chain = 1..Len(chain)
    <2>1. chain \in Seq(1..Len(blocks)) /\ chain[1] = 1 /\ blocks[1].tx = "genesis"
        BY DEF EvidenceInv, World, ChainOK, BlocksOK
    <2>2. Len(chain) \in Nat /\ DOMAIN chain = 1..Len(chain)
        BY <2>1
    <2>3. Len(chain) - 1 = 0
        BY <1>1 DEF HeadNumber
    <2>4. PICK n \in Nat : n = Len(chain)
        BY <2>2
    <2>5. n - 1 = 0
        BY <2>3, <2>4
    <2>6. n = 1
        BY <2>5
    <2> QED BY <2>1, <2>2, <2>4, <2>6
<1>3. accepted = {} /\ published.token = Nothing /\ published.allocator = Nothing
    BY <1>2 DEF EvidenceInv, World, AcceptedOK, PublishedOK
<1>4. ChainTxs = {"genesis"}
    BY <1>2 DEF ChainTxs
<1>5. PICK t : t = tool'
    OBVIOUS
<1>6. /\ DOMAIN t = ToolFields /\ t.pc = "send" /\ t.job = "replay" /\ t.report = Nothing
      /\ t.seen = <<>> /\ t.todo = Plan
    BY <1>1, <1>5 DEF Command, ToolFields
<1>7. Sending(t)
    <2>1. t.todo \in Seq(PlanTxs) /\ Len(t.todo) = 10 /\ Distinct(t.todo)
        BY <1>6, PlanFacts DEF Distinct
    <2>2. t.seen \in Seq(Anchor) /\ Len(t.seen) = 0
        BY <1>6
    <2>3. \A i \in Unsent(t) : t.todo[i] \notin ChainTxs
        <3>1. \A i \in 1..10 : t.todo[i] \in PlanTxs
            BY <2>1, ElementOfSeq
        <3> QED BY <3>1, <2>1, <1>4, <1>6, PlanFacts DEF Unsent
    <2> QED BY <2>1, <2>2, <2>3, <1>6 DEF Sending
<1>8. ReplayPhase(t)
    BY <1>3, <1>6, <1>7 DEF ReplayPhase, SendPcs, WritePcs
<1>9. ToolOK(tool')
    BY <1>5, <1>6, <1>8, ReplayCommand DEF ToolOK, ReplayPcs, SendPcs
<1>10. NodeReleased /\ proof = "none"
    BY <1>1 DEF EvidenceInv, AnvilOK, Idle, ProverSteps
<1>11. AnvilOK(tool)' /\ ProofOK'
    BY <1>1, <1>10 DEF AnvilOK, ProofOK, EvidenceInv, NodeReleased, ProverSteps
<1> QED BY <1>1, <1>9, <1>11, OnlyToolBy

(* What is still to be sent when the next transaction is. *)
LEMMA SendStep == EvidenceInv /\ SendTransaction => EvidenceInv'
<1> SUFFICES ASSUME EvidenceInv, SendTransaction PROVE EvidenceInv'
    OBVIOUS
<1>1. tool.pc = "send" /\ tool.pc \in ReplayPcs /\ tool.pc \in SendPcs
    BY DEF SendTransaction, ReplayPcs, SendPcs
<1>2. /\ tool.pc \notin ProverPcs /\ CommandOK(tool) /\ DOMAIN tool = ToolFields /\ ReplayPhase(tool)
      /\ World /\ ChainOK
    BY <1>1, AtReplay
<1>3. PICK t : t = [tool EXCEPT !.pc = "await"]
    OBVIOUS
<1>4. /\ DOMAIN t = ToolFields /\ t.pc = "await" /\ t.job = tool.job /\ t.report = tool.report
      /\ t.seen = tool.seen /\ t.todo = tool.todo
    BY <1>3, <1>2 DEF ToolFields
<1>5. Proceed(EnvelopeMatches(Here), t) /\ UNCHANGED checkVars
    BY <1>3 DEF SendTransaction
<1>6. /\ tool.todo \in Seq(PlanTxs) /\ Len(tool.todo) >= 1 /\ Distinct(tool.todo)
      /\ tool.seen \in Seq(Anchor) /\ Len(tool.seen) + Len(tool.todo) = 10
      /\ \A i \in 1..Len(tool.todo) : tool.todo[i] \notin ChainTxs
      /\ Len(tool.seen) > 0 => Len(chain) > 1
    BY <1>1, <1>2 DEF ReplayPhase, Sending, Unsent
<1>7. Here \in PlanTxs /\ Here \notin ChainTxs /\ Here = tool.todo[1]
    BY <1>6, TailFacts DEF Here
<1>8. CASE ~EnvelopeMatches(Here)
    <2>1. UNCHANGED <<chainVars, checkVars>>
        BY <1>5, <1>8 DEF SendTransaction
    <2>2. t.pc \notin ProverSteps
        BY <1>4 DEF ProverSteps
    <2> QED BY <2>1, <1>2, <1>5, <1>8, <2>2, ProceedKeeps
<1>9. CASE EnvelopeMatches(Here)
    <2>1. MineSent(Here) /\ tool' = t
        BY <1>5, <1>9 DEF SendTransaction, Proceed
    <2>2. /\ ChainOK' /\ ChainGrows
          /\ Len(chain) > 1 => Len(chain') > 1
          /\ \A x \in ChainTxs' : x \in ChainTxs \/ x = Here
        BY <2>1, <1>2, <1>7, SentKeeps
    <2>3. Grown
        BY <1>2, <2>2 DEF Grown
    <2>4. bundle' = bundle /\ accepted' = accepted /\ published' = published /\ anvil' = anvil /\ proof' = proof /\ source' = source
        BY <1>5 DEF checkVars
    <2>5. World'
        BY <1>2, <2>3, <2>4, GrownWorld
    <2>6. CommandOK(t)
        <3>1. \A i \in Unsent(t) : t.todo[i] \notin ChainTxs
            <4>1. Unsent(t) \subseteq 1..Len(tool.todo)
                BY <1>4, <1>6 DEF Unsent
            <4> QED BY <4>1, <1>4, <1>6
        <3>2. Sending(t)
            BY <3>1, <1>4, <1>6 DEF Sending
        <3>3. ReplayPhase(t)
            BY <3>2, <1>2, <1>4 DEF ReplayPhase, SendPcs, WritePcs
        <3> QED BY <3>3, <1>4, ReplayCommand DEF ReplayPcs, SendPcs
    <2>7. \A i \in Unsent(t) : t.todo[i] \notin ChainTxs'
        <3> SUFFICES ASSUME NEW i \in Unsent(t) PROVE t.todo[i] \notin ChainTxs'
            OBVIOUS
        <3>1. i \in 1..Len(tool.todo) /\ i # 1 /\ 1 \in 1..Len(tool.todo)
            BY <1>4, <1>6 DEF Unsent
        <3>2. t.todo[i] = tool.todo[i] /\ tool.todo[i] \notin ChainTxs /\ tool.todo[i] # Here
            BY <1>4, <1>6, <1>7, <3>1 DEF Distinct
        <3> QED BY <3>2, <2>2
    <2>8. CommandOK(t)'
        BY <2>3, <2>4, <2>6, <2>7, GrownCommand
    <2>9. ToolOK(tool)'
        BY <2>1, <2>8 DEF ToolOK
    <2>10. AnvilOK(tool)' /\ ProofOK'
        BY <1>2, <1>4, <2>1, <2>4 DEF EvidenceInv, AnvilOK, ProofOK, NodeReleased, ProverPcs, ProverSteps
    <2> QED BY <2>5, <2>9, <2>10 DEF EvidenceInv
<1> QED BY <1>8, <1>9

(* A transaction of the plan that is on the chain is above the first block. *)
LEMMA LocatedAnchor ==
    ASSUME ChainOK, NEW tx \in PlanTxs, OnChain(tx)
    PROVE  /\ [number |-> Height(Location(tx)), id |-> Location(tx)] \in Anchor
           /\ Len(chain) > 1
<1>1. PICK b : b = Location(tx)
    OBVIOUS
<1>2. b \in Canonical /\ blocks[b].tx = tx
    BY <1>1, OnChainDef
<1>3. blocks[b].number \in 0..Len(chain) - 1 /\ chain[blocks[b].number + 1] = b /\ b \in 1..Len(blocks)
    BY <1>2, CanonicalFacts
<1>4. chain[1] = 1 /\ blocks[1].tx = "genesis" /\ Len(chain) \in Nat /\ Len(blocks) \in Nat
    BY DEF ChainOK, BlocksOK
<1>5. blocks[b].number # 0
    BY <1>2, <1>3, <1>4, PlanFacts
<1> QED BY <1>1, <1>3, <1>4, <1>5 DEF Anchor, Identifier, Height

(* The receipt of the sent transaction is awaited. *)
LEMMA AwaitStep == EvidenceInv /\ AwaitReceipt => EvidenceInv'
<1> SUFFICES ASSUME EvidenceInv, AwaitReceipt PROVE EvidenceInv'
    OBVIOUS
<1>1. tool.pc = "await" /\ tool.pc \in ReplayPcs /\ tool.pc \in SendPcs
    BY DEF AwaitReceipt, ReplayPcs, SendPcs
<1>2. /\ tool.pc \notin ProverPcs /\ CommandOK(tool) /\ DOMAIN tool = ToolFields /\ ReplayPhase(tool)
      /\ World /\ ChainOK
    BY <1>1, AtReplay
<1> DEFINE a == [number |-> Height(Location(Here)), id |-> Location(Here)]
           t == [tool EXCEPT !.pc = "fetch", !.seen = Append(@, a)]
<1>3. /\ DOMAIN t = ToolFields /\ t.pc = "fetch" /\ t.job = tool.job /\ t.report = tool.report
      /\ t.seen = Append(tool.seen, a) /\ t.todo = tool.todo
    BY <1>2 DEF ToolFields
<1>4. Proceed(OnChain(Here), t) /\ UNCHANGED <<chainVars, checkVars>>
    BY DEF AwaitReceipt
<1>5. Sending(tool) /\ Here \in PlanTxs
    BY <1>1, <1>2, TailFacts DEF ReplayPhase, Sending, Here
<1>6. OnChain(Here) => a \in Anchor /\ Len(chain) > 1
    BY <1>2, <1>5, LocatedAnchor
<1> HIDE DEF t, a
<1>7. ASSUME OnChain(Here) PROVE CommandOK(t)
    <2>1. t.seen \in Seq(Anchor) /\ Len(t.seen) = Len(tool.seen) + 1 /\ Len(tool.seen) \in Nat
        BY <1>3, <1>5, <1>6, <1>7, AppendFacts DEF Sending
    <2>2. \A i \in Unsent(t) : t.todo[i] \notin ChainTxs
        BY <1>1, <1>3, <1>5 DEF Sending, Unsent
    <2>3. Len(tool.seen) + Len(tool.todo) = 10 /\ tool.todo \in Seq(PlanTxs) /\ Len(tool.todo) >= 1 /\ Distinct(tool.todo)
        BY <1>1, <1>5 DEF Sending
    <2>4. PICK n \in Nat, l \in Nat : n = Len(tool.seen) /\ l = Len(tool.todo)
        BY <2>1, <2>3
    <2>5. n + l = 10 /\ Len(t.seen) + Len(t.todo) = (n + 1) + l
        BY <2>1, <2>3, <2>4, <1>3
    <2>6. (n + 1) + l = 11
        BY <2>5
    <2>7. Len(t.seen) + Len(t.todo) = 11
        BY <2>5, <2>6
    <2>8. Sending(t)
        BY <2>1, <2>2, <2>3, <2>7, <1>3, <1>6, <1>7 DEF Sending
    <2>9. ReplayPhase(t)
        BY <2>8, <1>2, <1>3 DEF ReplayPhase, SendPcs, WritePcs
    <2> QED BY <2>9, <1>3, ReplayCommand DEF ReplayPcs, SendPcs
<1>8. t.pc \notin ProverSteps
    BY <1>3 DEF ProverSteps
<1> QED BY <1>2, <1>4, <1>7, <1>8, ProceedKeeps

(* The mined transaction is fetched again and recorded. *)
LEMMA FetchStep == EvidenceInv /\ FetchTransaction => EvidenceInv'
<1> SUFFICES ASSUME EvidenceInv, FetchTransaction PROVE EvidenceInv'
    OBVIOUS
<1>1. tool.pc = "fetch" /\ tool.pc \in ReplayPcs /\ tool.pc \in SendPcs
    BY DEF FetchTransaction, ReplayPcs, SendPcs
<1>2. /\ tool.pc \notin ProverPcs /\ CommandOK(tool) /\ DOMAIN tool = ToolFields /\ ReplayPhase(tool)
      /\ World /\ ChainOK
    BY <1>1, AtReplay
<1> DEFINE more == [tool EXCEPT !.pc = "send", !.todo = Rest]
           last == [tool EXCEPT !.pc = "capturehead"]
<1>3. /\ DOMAIN more = ToolFields /\ more.pc = "send" /\ more.job = tool.job /\ more.report = tool.report
      /\ more.seen = tool.seen /\ more.todo = Rest
    BY <1>2 DEF ToolFields
<1>4. /\ DOMAIN last = ToolFields /\ last.pc = "capturehead" /\ last.job = tool.job /\ last.report = tool.report
      /\ last.seen = tool.seen
    BY <1>2 DEF ToolFields
<1>5. /\ (Rest # <<>> /\ \E ok : Proceed(ok, more)) \/ (Rest = <<>> /\ \E ok : Proceed(ok, last))
      /\ UNCHANGED <<chainVars, checkVars>>
    BY DEF FetchTransaction
<1> HIDE DEF more, last
<1>6. /\ tool.todo \in Seq(PlanTxs) /\ Len(tool.todo) >= 1 /\ Distinct(tool.todo)
      /\ tool.seen \in Seq(Anchor) /\ Len(tool.seen) + Len(tool.todo) = 11
      /\ \A i \in 2..Len(tool.todo) : tool.todo[i] \notin ChainTxs
      /\ Len(tool.seen) > 0 => Len(chain) > 1
    BY <1>1, <1>2 DEF ReplayPhase, Sending, Unsent
<1>7. /\ Rest \in Seq(PlanTxs) /\ Len(Rest) = Len(tool.todo) - 1
      /\ \A i \in 1..Len(tool.todo) - 1 : Rest[i] = tool.todo[i + 1]
      /\ Rest # <<>> <=> Len(tool.todo) > 1
      /\ Len(tool.todo) \in Nat /\ Len(tool.seen) \in Nat
    BY <1>6, TailFacts DEF Rest
<1>8. Rest # <<>> => CommandOK(more)
    <2> SUFFICES ASSUME Rest # <<>> PROVE CommandOK(more)
        OBVIOUS
    <2>1. Distinct(Rest)
        <3> SUFFICES ASSUME NEW i \in 1..Len(Rest), NEW j \in 1..Len(Rest), Rest[i] = Rest[j] PROVE i = j
            BY DEF Distinct
        <3>1. i + 1 \in 1..Len(tool.todo) /\ j + 1 \in 1..Len(tool.todo)
            BY <1>7
        <3>2. tool.todo[i + 1] = tool.todo[j + 1]
            BY <1>7
        <3>3. i + 1 = j + 1
            BY <3>1, <3>2, <1>6 DEF Distinct
        <3> QED BY <3>3
    <2>2. \A i \in 1..Len(Rest) : Rest[i] \notin ChainTxs
        BY <1>6, <1>7
    <2>3. PICK n \in Nat, l \in Nat : n = Len(tool.seen) /\ l = Len(tool.todo)
        BY <1>7
    <2>4. n + l = 11 /\ l > 1 /\ Len(Rest) = l - 1
        BY <2>3, <1>6, <1>7
    <2>5. l - 1 >= 1 /\ n + (l - 1) = 10
        BY <2>4
    <2>6. Len(Rest) >= 1 /\ Len(tool.seen) + Len(Rest) = 10
        BY <2>3, <2>4, <2>5
    <2>7. \A i \in Unsent(more) : more.todo[i] \notin ChainTxs
        BY <2>2, <1>3 DEF Unsent
    <2>8. Sending(more)
        BY <2>6, <2>1, <2>7, <1>3, <1>6, <1>7 DEF Sending
    <2>9. ReplayPhase(more)
        BY <2>8, <1>2, <1>3 DEF ReplayPhase, SendPcs, WritePcs
    <2> QED BY <2>9, <1>3, ReplayCommand DEF ReplayPcs, SendPcs
<1>9. Rest = <<>> => CommandOK(last)
    <2> SUFFICES ASSUME Rest = <<>> PROVE CommandOK(last)
        OBVIOUS
    <2>1. PICK n \in Nat, l \in Nat : n = Len(tool.seen) /\ l = Len(tool.todo)
        BY <1>7
    <2>2. n + l = 11 /\ l >= 1 /\ ~(l > 1)
        BY <2>1, <1>6, <1>7
    <2>3. n = 10
        BY <2>2
    <2>4. Len(tool.seen) = 10 /\ Len(chain) > 1
        BY <2>1, <2>3, <1>6
    <2>5. ReplayPhase(last)
        BY <2>4, <1>2, <1>4, <1>6 DEF ReplayPhase, SendPcs, WritePcs
    <2> QED BY <2>5, <1>4, ReplayCommand DEF ReplayPcs, CapturePcs
<1>10. more.pc \notin ProverSteps /\ last.pc \notin ProverSteps
    BY <1>3, <1>4 DEF ProverSteps
<1> QED BY <1>2, <1>5, <1>8, <1>9, <1>10, ProceedKeeps

(* Every receipt whose block is still canonical lies below the captured head. *)
LEMMA CaptureHeadStep == EvidenceInv /\ ReadCaptureHead => EvidenceInv'
<1> SUFFICES ASSUME EvidenceInv, ReadCaptureHead PROVE EvidenceInv'
    OBVIOUS
<1>1. tool.pc = "capturehead" /\ tool.pc \in ReplayPcs /\ tool.pc \notin SendPcs
    BY DEF ReadCaptureHead, ReplayPcs, CapturePcs, SendPcs
<1>2. /\ tool.pc \notin ProverPcs /\ CommandOK(tool) /\ DOMAIN tool = ToolFields /\ ReplayPhase(tool)
      /\ World /\ ChainOK
    BY <1>1, AtReplay
<1> DEFINE t == [tool EXCEPT !.pc = "runtime", !.held = ChainHead]
<1>3. /\ DOMAIN t = ToolFields /\ t.pc = "runtime" /\ t.job = tool.job /\ t.report = tool.report
      /\ t.seen = tool.seen /\ t.held = ChainHead
    BY <1>2 DEF ToolFields
<1>4. Proceed(TRUE, t) /\ UNCHANGED <<chainVars, checkVars>>
    BY DEF ReadCaptureHead, Proceed
<1> HIDE DEF t
<1>5. SeenBelow(t)
    BY <1>2, <1>3, CanonicalFacts DEF SeenBelow, Mined, Below
<1>6. ReplayPhase(t)
    BY <1>1, <1>2, <1>3, <1>5 DEF ReplayPhase, SendPcs, WritePcs
<1>7. CommandOK(t)
    BY <1>3, <1>6, ReplayCommand DEF ReplayPcs, CapturePcs
<1>8. t.pc \notin ProverSteps
    BY <1>3 DEF ProverSteps
<1> QED BY <1>2, <1>4, <1>7, <1>8, ProceedKeeps

(* The runtime observations are read at the captured head. *)
LEMMA RuntimeStep == EvidenceInv /\ RuntimeObservations => EvidenceInv'
<1> SUFFICES ASSUME EvidenceInv, RuntimeObservations PROVE EvidenceInv'
    OBVIOUS
<1>1. tool.pc = "runtime" /\ tool.pc \in ReplayPcs /\ tool.pc \notin SendPcs
    BY DEF RuntimeObservations, ReplayPcs, CapturePcs, SendPcs
<1>2. /\ tool.pc \notin ProverPcs /\ CommandOK(tool) /\ DOMAIN tool = ToolFields /\ ReplayPhase(tool)
    BY <1>1, AtReplay
<1> DEFINE t == [tool EXCEPT !.pc = "create"]
<1>3. /\ DOMAIN t = ToolFields /\ t.pc = "create" /\ t.job = tool.job /\ t.report = tool.report
      /\ t.seen = tool.seen /\ t.held = tool.held
    BY <1>2 DEF ToolFields
<1>4. \E ok : Proceed(ok, t) /\ UNCHANGED <<chainVars, checkVars>>
    BY DEF RuntimeObservations
<1> HIDE DEF t
<1>5. ReplayPhase(t)
    BY <1>1, <1>2, <1>3 DEF ReplayPhase, SendPcs, WritePcs, SeenBelow
<1>6. CommandOK(t)
    BY <1>3, <1>5, ReplayCommand DEF ReplayPcs, CapturePcs
<1>7. t.pc \notin ProverSteps
    BY <1>3 DEF ProverSteps
<1> QED BY <1>2, <1>4, <1>6, <1>7, ProceedKeeps

(* A file of the bundle is written while nothing was accepted or published of it. *)
LEMMA BundleWritten ==
    ASSUME World, accepted = {}, published.token = Nothing, published.allocator = Nothing, Len(chain) > 1,
           UNCHANGED <<blocks, chain, accepted, published>>,
           NEW b, bundle' = b, IsBundle(b), ReceiptsBelow(b), b.check = Nothing
    PROVE  World' /\ IsBundle(bundle)' /\ ReceiptsBelow(bundle)'
<1>1. ChainOK'
    BY GrownSame DEF World, Grown
<1>2. IsBundle(bundle)'
    BY DEF IsBundle, Anchor, Identifier
<1>3. ReceiptsBelow(bundle)'
    BY DEF ReceiptsBelow, Mined, Below, Canonical
<1>4. BundleOK' /\ AcceptedOK' /\ PublishedOK'
    BY <1>2, <1>3 DEF BundleOK, AcceptedOK, PublishedOK, World
<1> QED BY <1>1, <1>2, <1>3, <1>4 DEF World

(* A step of the replay that writes one file of the new bundle. *)
LEMMA WriteMove ==
    ASSUME EvidenceInv, tool.pc \in {"create"} \cup WritePcs,
           UNCHANGED <<blocks, chain, accepted, published, anvil, proof, source>>,
           NEW b, bundle' = b, IsBundle(b), ReceiptsBelow(b), b.check = Nothing,
           NEW t, tool' = t, DOMAIN t = ToolFields, t.pc \in WritePcs, t.job = tool.job, t.report = tool.report,
           t.seen = tool.seen, t.held = tool.held,
           t.pc \in {"broadcast", "writeruntime"} =>
             ~Mined(b.runtime.id) /\ \A x \in PlanTxs : Below(b.receipts[x].id, t.held)
    PROVE  EvidenceInv'
<1>1. tool.pc \in ReplayPcs /\ tool.pc \notin SendPcs /\ tool.pc # "capturehead"
    BY DEF ReplayPcs, CapturePcs, WritePcs, SendPcs
<1>2. tool.pc \notin ProverPcs /\ ReplayPhase(tool) /\ World
    BY <1>1, AtReplay
<1>3. /\ t.job = "replay" /\ t.report = Nothing
      /\ accepted = {} /\ published.token = Nothing /\ published.allocator = Nothing
      /\ Len(chain) > 1 /\ t.seen \in Seq(Anchor) /\ Len(t.seen) = 10 /\ SeenBelow(tool)
    BY <1>1, <1>2 DEF ReplayPhase
<1>4. World' /\ IsBundle(bundle)' /\ ReceiptsBelow(bundle)'
    BY <1>2, <1>3, BundleWritten
<1>5. Writing(t)'
    <2>1. t.pc \in {"broadcast", "writeruntime"} =>
            ~Mined(b.runtime.id)' /\ \A x \in PlanTxs : Below(b.receipts[x].id, t.held)'
        BY DEF Mined, Below, Canonical
    <2> QED BY <1>4, <2>1 DEF Writing, Mined, Below
<1>6. SeenBelow(t)' /\ t.seen \in Seq(Anchor)'
    BY <1>3 DEF SeenBelow, Mined, Below, Canonical, Anchor, Identifier
<1>7. ReplayPhase(t)'
    BY <1>3, <1>5, <1>6 DEF ReplayPhase, SendPcs, WritePcs
<1>8. CommandOK(t)'
    <2>1. t.pc \in ReplayPcs /\ t.pc \notin TokenPcs /\ t.pc \notin LivePcs /\ t.pc \notin SnapPcs \cup {"probe"}
        BY Phases
    <2> QED BY <2>1, <1>3, <1>7 DEF CommandOK
<1>9. ToolOK(tool)' /\ AnvilOK(tool)' /\ ProofOK'
    BY <1>2, <1>8 DEF ToolOK, AnvilOK, ProofOK, EvidenceInv, NodeReleased, ProverPcs, ProverSteps, WritePcs
<1> QED BY <1>4, <1>9 DEF EvidenceInv

(* What holds while the replay writes its files. *)
LEMMA AtWriting ==
    ASSUME EvidenceInv, tool.pc \in {"create"} \cup WritePcs
    PROVE  /\ tool.pc \notin ProverPcs /\ DOMAIN tool = ToolFields /\ World /\ ChainOK
           /\ tool.job = "replay" /\ tool.report = Nothing
           /\ accepted = {} /\ published.token = Nothing /\ published.allocator = Nothing
           /\ Len(chain) > 1 /\ tool.seen \in Seq(Anchor) /\ Len(tool.seen) = 10 /\ SeenBelow(tool)
           /\ tool.pc \in WritePcs => Writing(tool)
<1>1. tool.pc \in ReplayPcs /\ tool.pc \notin SendPcs /\ tool.pc # "capturehead"
    BY DEF ReplayPcs, CapturePcs, WritePcs, SendPcs
<1>2. tool.pc \notin ProverPcs /\ ReplayPhase(tool) /\ World /\ ChainOK /\ DOMAIN tool = ToolFields
    BY <1>1, AtReplay
<1> QED BY <1>1, <1>2 DEF ReplayPhase

(* The block of another chain that the source names is no block of this one. *)
LEMMA SourceBundleOK ==
    ASSUME ChainOK
    PROVE  /\ IsBundle(SourceBundle) /\ ~Mined(SourceBundle.runtime.id) /\ SourceBundle.check = Nothing
           /\ \A x \in PlanTxs : SourceBundle.receipts[x].id \notin Canonical
<1>1. Len(blocks) \in Nat /\ Canonical \subseteq 1..Len(blocks)
    BY CanonicalFacts DEF ChainOK, BlocksOK
<1>2. \A k \in 1..10 : SourceBlock(k) \in Anchor /\ SourceBlock(k).id \notin 1..Len(blocks)
    BY <1>1 DEF SourceBlock, Anchor, Identifier
<1>3. \A x \in PlanTxs : (CHOOSE k \in 1..Len(Plan) : Plan[k] = x) \in 1..10
    BY PlanFacts
<1>4. /\ SourceBundle.receipts = [x \in PlanTxs |-> SourceBlock(CHOOSE k \in 1..Len(Plan) : Plan[k] = x)]
      /\ SourceBundle.runtime = SourceBlock(10) /\ SourceBundle.check = Nothing
      /\ DOMAIN SourceBundle = BundleFields
    BY PlanFacts DEF SourceBundle, BundleFields
<1>5. SourceBundle.receipts \in [PlanTxs -> Anchor]
    <2>1. PICK r : r = SourceBundle.receipts
        OBVIOUS
    <2>2. DOMAIN r = PlanTxs /\ r = [x \in PlanTxs |-> r[x]]
        BY <2>1, <1>4
    <2>3. ASSUME NEW x \in PlanTxs PROVE r[x] \in Anchor
        <3>1. PICK k \in 1..10 : k = CHOOSE i \in 1..Len(Plan) : Plan[i] = x
            BY <1>3, <2>3
        <3>2. r[x] = SourceBlock(k)
            BY <1>4, <2>1, <2>3, <3>1
        <3> QED BY <1>2, <3>2
    <2>4. r \in [PlanTxs -> Anchor]
        BY <2>2, <2>3
    <2> QED BY <2>1, <2>4
<1>6. 10 \in 1..10
    OBVIOUS
<1>7. SourceBundle.runtime \in [number : Nat, id : Identifier] /\ ~Mined(SourceBundle.runtime.id)
    <2>1. SourceBlock(10) \in Anchor /\ SourceBlock(10).id \notin 1..Len(blocks)
        BY <1>2, <1>6
    <2> QED BY <2>1, <1>4 DEF Anchor, Mined
<1>8. \A x \in PlanTxs : SourceBundle.receipts[x].id \notin Canonical
    BY <1>1, <1>2, <1>3, <1>4
<1> QED BY <1>4, <1>5, <1>7, <1>8 DEF IsBundle

(* The output directory is created as a copy of the source bundle. *)
LEMMA CreateStep == EvidenceInv /\ CreateOutput => EvidenceInv'
<1> SUFFICES ASSUME EvidenceInv, CreateOutput PROVE EvidenceInv'
    OBVIOUS
<1>1. /\ tool.pc = "create" /\ tool.pc \in {"create"} \cup WritePcs
      /\ UNCHANGED <<blocks, chain, accepted, published, anvil, proof, source>>
      /\ tool' = [tool EXCEPT !.pc = "broadcast", !.todo = GROUPS] /\ bundle' = SourceBundle
    BY DEF CreateOutput, chainVars, proofVars
<1>2. DOMAIN tool = ToolFields /\ ChainOK
    BY <1>1, AtWriting
<1>3. PICK t, b : t = tool' /\ b = bundle'
    OBVIOUS
<1>4. /\ DOMAIN t = ToolFields /\ t.pc = "broadcast" /\ t.job = tool.job /\ t.report = tool.report
      /\ t.seen = tool.seen /\ t.held = tool.held
    BY <1>1, <1>2, <1>3 DEF ToolFields
<1>5. /\ IsBundle(b) /\ ~Mined(b.runtime.id) /\ b.check = Nothing
      /\ \A x \in PlanTxs : b.receipts[x].id \notin Canonical
    BY <1>1, <1>2, <1>3, SourceBundleOK
<1>6. ReceiptsBelow(b) /\ \A x \in PlanTxs : Below(b.receipts[x].id, t.held)
    BY <1>5 DEF ReceiptsBelow, Below
<1>7. t.pc \in WritePcs
    BY <1>4 DEF WritePcs
<1> QED BY <1>1, <1>3, <1>4, <1>5, <1>6, <1>7, WriteMove

(* The new receipts are written over those of the source. *)
LEMMA BroadcastStep == EvidenceInv /\ WriteBroadcast => EvidenceInv'
<1> SUFFICES ASSUME EvidenceInv, WriteBroadcast PROVE EvidenceInv'
    OBVIOUS
<1>1. /\ tool.pc = "broadcast" /\ tool.pc \in WritePcs /\ tool.pc \in {"create"} \cup WritePcs
      /\ UNCHANGED <<blocks, chain, accepted, published, anvil, proof, source>>
      /\ tool' = [tool EXCEPT !.todo = Rest] \/ tool' = [tool EXCEPT !.pc = "writeruntime"]
      /\ bundle' = [bundle EXCEPT !.receipts =
                      [x \in PlanTxs |-> IF GroupOf(x) = Here THEN Replayed(x) ELSE @[x]]]
    BY DEF WriteBroadcast, chainVars, proofVars, WritePcs
<1>2. /\ DOMAIN tool = ToolFields /\ ChainOK /\ Writing(tool)
      /\ tool.seen \in Seq(Anchor) /\ Len(tool.seen) = 10 /\ SeenBelow(tool)
    BY <1>1, AtWriting
<1>3. PICK t, b : t = tool' /\ b = bundle'
    OBVIOUS
<1>4. /\ DOMAIN t = ToolFields /\ t.pc \in {"broadcast", "writeruntime"} /\ t.job = tool.job /\ t.report = tool.report
      /\ t.seen = tool.seen /\ t.held = tool.held
    BY <1>1, <1>2, <1>3 DEF ToolFields
<1>5. /\ IsBundle(bundle) /\ bundle.check = Nothing /\ ~Mined(bundle.runtime.id)
      /\ \A x \in PlanTxs : Below(bundle.receipts[x].id, tool.held)
    BY <1>1, <1>2 DEF Writing
<1>6. /\ b.runtime = bundle.runtime /\ b.check = bundle.check /\ DOMAIN b = BundleFields
      /\ b.receipts = [x \in PlanTxs |-> IF GroupOf(x) = Here THEN Replayed(x) ELSE bundle.receipts[x]]
    BY <1>1, <1>3, <1>5 DEF IsBundle, BundleFields
<1>7. ASSUME NEW x \in PlanTxs
      PROVE  b.receipts[x] \in Anchor /\ Below(b.receipts[x].id, tool.held)
    <2>1. CASE GroupOf(x) = Here
        <3>1. PICK k \in 1..10 : k = CHOOSE i \in 1..Len(Plan) : Plan[i] = x
            BY <1>7, PlanFacts
        <3>2. b.receipts[x] = tool.seen[k]
            BY <1>6, <1>7, <2>1, <3>1 DEF Replayed
        <3>3. tool.seen[k] \in Anchor
            BY <1>2, <3>1, ElementOfSeq
        <3>4. Below(tool.seen[k].id, tool.held)
            BY <1>2, <3>1 DEF SeenBelow
        <3> QED BY <3>2, <3>3, <3>4
    <2>2. CASE GroupOf(x) # Here
        <3>1. b.receipts[x] = bundle.receipts[x]
            BY <1>6, <1>7, <2>2
        <3> QED BY <3>1, <1>5, <1>7, BundleIds
    <2> QED BY <2>1, <2>2
<1>8. IsBundle(b)
    <2>1. b.receipts \in [PlanTxs -> Anchor]
        BY <1>6, <1>7
    <2> QED BY <2>1, <1>5, <1>6 DEF IsBundle
<1>9. ReceiptsBelow(b) /\ ~Mined(b.runtime.id)
    BY <1>5, <1>6 DEF ReceiptsBelow
<1>10. t.pc \in WritePcs
    BY <1>4 DEF WritePcs
<1>11. \A x \in PlanTxs : Below(b.receipts[x].id, t.held)
    BY <1>4, <1>7
<1>12. b.check = Nothing
    BY <1>5, <1>6
<1> QED BY <1>1, <1>3, <1>4, <1>8, <1>9, <1>10, <1>11, <1>12, WriteMove

(* The runtime observations are written, with the captured head. *)
LEMMA WriteRuntimeStep == EvidenceInv /\ WriteRuntime => EvidenceInv'
<1> SUFFICES ASSUME EvidenceInv, WriteRuntime PROVE EvidenceInv'
    OBVIOUS
<1>1. /\ tool.pc = "writeruntime" /\ tool.pc \in WritePcs /\ tool.pc \in {"create"} \cup WritePcs
      /\ UNCHANGED <<blocks, chain, accepted, published, anvil, proof, source>>
      /\ tool' = [tool EXCEPT !.pc = "writecapture"]
      /\ bundle' = [bundle EXCEPT !.runtime = [number |-> Height(tool.held), id |-> tool.held]]
    BY DEF WriteRuntime, chainVars, proofVars, WritePcs
<1>2. /\ DOMAIN tool = ToolFields /\ ChainOK /\ Writing(tool) /\ Mined(tool.held)
    BY <1>1, AtWriting DEF SeenBelow
<1>3. PICK t, b : t = tool' /\ b = bundle'
    OBVIOUS
<1>4. /\ DOMAIN t = ToolFields /\ t.pc = "writecapture" /\ t.job = tool.job /\ t.report = tool.report
      /\ t.seen = tool.seen /\ t.held = tool.held
    BY <1>1, <1>2, <1>3 DEF ToolFields
<1>5. /\ IsBundle(bundle) /\ bundle.check = Nothing
      /\ \A x \in PlanTxs : Below(bundle.receipts[x].id, tool.held)
    BY <1>1, <1>2 DEF Writing
<1>6. /\ b.runtime = [number |-> Height(tool.held), id |-> tool.held] /\ b.check = Nothing
      /\ DOMAIN b = BundleFields /\ b.receipts = bundle.receipts
    BY <1>1, <1>3, <1>5 DEF IsBundle, BundleFields
<1>7. b.runtime \in [number : Nat, id : Identifier]
    <2>1. blocks \in Seq(BlockType) /\ Len(blocks) \in Nat
        BY <1>2 DEF ChainOK, BlocksOK
    <2>2. blocks[tool.held] \in BlockType
        BY <2>1, <1>2, ElementOfSeq DEF Mined
    <2>3. Height(tool.held) \in Nat /\ tool.held \in Identifier
        BY <2>1, <2>2, <1>2 DEF BlockType, Height, Identifier, Mined
    <2> QED BY <2>3, <1>6
<1>8. IsBundle(b)
    BY <1>5, <1>6, <1>7 DEF IsBundle
<1>9. ReceiptsBelow(b)
    BY <1>5, <1>6 DEF ReceiptsBelow
<1>10. t.pc \in WritePcs
    BY <1>4 DEF WritePcs
<1> QED BY <1>1, <1>3, <1>4, <1>6, <1>8, <1>9, <1>10, WriteMove

(* From the metadata on, the replay checks the bundle as every command does. *)
LEMMA WriteCaptureStep == EvidenceInv /\ WriteCapture => EvidenceInv'
<1> SUFFICES ASSUME EvidenceInv, WriteCapture PROVE EvidenceInv'
    OBVIOUS
<1> DEFINE head == [tool EXCEPT !.pc = "head"]
<1>1. /\ tool.pc = "writecapture" /\ tool.pc \in WritePcs /\ tool.pc \in {"create"} \cup WritePcs
      /\ UNCHANGED <<blocks, chain, accepted, published, anvil, proof, source>>
      /\ tool' = head \/ tool' = Idle
      /\ \E c : bundle' = [bundle EXCEPT !.capture = c]
    BY DEF WriteCapture, Proceed, chainVars, proofVars, WritePcs
<1>2. /\ DOMAIN tool = ToolFields /\ World /\ Writing(tool) /\ tool.pc \notin ProverPcs
      /\ tool.job = "replay" /\ tool.report = Nothing
      /\ accepted = {} /\ published.token = Nothing /\ published.allocator = Nothing /\ Len(chain) > 1
    BY <1>1, AtWriting
<1>3. PICK t, b : t = head /\ b = bundle'
    OBVIOUS
<1>4. DOMAIN t = ToolFields /\ t.pc = "head" /\ t.job = tool.job /\ t.report = tool.report
    BY <1>2, <1>3 DEF ToolFields
<1>5. IsBundle(bundle) /\ bundle.check = Nothing /\ ReceiptsBelow(bundle)
    BY <1>1, <1>2 DEF Writing
<1>6. /\ b.runtime = bundle.runtime /\ b.check = Nothing
      /\ DOMAIN b = BundleFields /\ b.receipts = bundle.receipts
    BY <1>1, <1>3, <1>5 DEF IsBundle, BundleFields
<1>7. IsBundle(b) /\ ReceiptsBelow(b)
    BY <1>5, <1>6 DEF IsBundle, ReceiptsBelow
<1>8. World' /\ IsBundle(bundle)' /\ ReceiptsBelow(bundle)'
    BY <1>1, <1>2, <1>3, <1>6, <1>7, BundleWritten
<1>9. CommandOK(t)'
    <2>1. t.pc \notin ReplayPcs /\ t.pc \notin TokenPcs /\ t.pc \notin SnapPcs \cup {"probe"}
        BY <1>4 DEF ReplayPcs, SendPcs, CapturePcs, WritePcs, TokenPcs, BlockPcs, RowPcs, SnapPcs
    <2>2. LivePhase(t)'
        BY <1>2, <1>4 DEF LivePhase
    <2> QED BY <2>1, <2>2, <1>1, <1>2, <1>4, <1>8 DEF CommandOK
<1>10. ToolOK(tool)'
    BY <1>1, <1>3, <1>9 DEF ToolOK, Idle
<1>11. tool'.pc \in {"head", "idle"}
    <2>1. Idle.pc = "idle"
        BY DEF Idle
    <2>2. tool' = t \/ tool' = Idle
        BY <1>1, <1>3
    <2> QED BY <1>4, <2>1, <2>2
<1>12. NodeReleased /\ proof = "none"
    BY <1>1, <1>2 DEF AnvilOK, EvidenceInv, ProverPcs, ProverSteps
<1>13. AnvilOK(tool)'
    BY <1>1, <1>11, <1>12 DEF AnvilOK, NodeReleased, ProverSteps
<1>14. ProofOK'
    BY <1>1 DEF ProofOK, EvidenceInv
<1> QED BY <1>8, <1>10, <1>13, <1>14 DEF EvidenceInv

(* A nonempty set of naturals below a bound has a greatest element. *)
LEMMA Greatest ==
    ASSUME NEW n \in Nat, NEW S \in SUBSET (0..n), S # {}
    PROVE  \E m \in S : \A k \in S : k <= m
<1> DEFINE T == {n - k : k \in S}
           R == {ss \in Nat \X Nat : ss[1] < ss[2]}
<1>1. T \subseteq Nat /\ T # {}
    <2>1. \A k \in S : n - k \in Nat
        OBVIOUS
    <2> QED BY <2>1
<1>2. IsWellFoundedOn(R, Nat)
    BY NatLessThanWellFounded DEF OpToRel
<1>3. PICK x \in T : \A y \in T : ~(<<y, x>> \in R)
    <2> HIDE DEF R, T
    <2> QED BY <1>1, <1>2, WFMin
<1>4. \A x1, y1 \in Nat : y1 < x1 => <<y1, x1>> \in R
    OBVIOUS
<1>5. PICK m \in S : x = n - m
    BY <1>3
<1>6. ASSUME NEW k \in S PROVE k <= m
    <2>1. n - k \in T /\ n - k \in Nat /\ n - m \in Nat
        OBVIOUS
    <2>2. ~(n - k < n - m)
        <3> HIDE DEF R, T
        <3> QED BY <1>3, <1>4, <1>5, <2>1
    <2>3. k \in Nat /\ m \in Nat
        OBVIOUS
    <2> QED BY <2>2, <2>3
<1> QED BY <1>6

------------------------------------------------------------------------------
(* pro29_token_accounting.py: the numbers of the retained blocks. *)
LEMMA NumbersBounded ==
    ASSUME IsBundle(bundle)
    PROVE  /\ \A n \in Numbers : n \in Nat \ {0}
           /\ \E m \in Nat : \A n \in Numbers : n <= m
<1>1. \A x \in PlanTxs : bundle.receipts[x].number \in Nat \ {0}
    BY BundleIds DEF Anchor
<1>2. \A n \in Numbers : n \in Nat \ {0}
    BY <1>1 DEF Numbers
<1> DEFINE f == [k \in 1..10 |-> bundle.receipts[Plan[k]].number]
<1>3. f \in [1..10 -> Nat] /\ \A n \in Numbers : \E k \in 1..10 : n = f[k]
    <2>1. \A k \in 1..10 : Plan[k] \in PlanTxs
        BY PlanFacts
    <2>2. f \in [1..10 -> Nat]
        BY <1>1, <2>1
    <2>3. ASSUME NEW n \in Numbers PROVE \E k \in 1..10 : n = f[k]
        <3>1. PICK x \in PlanTxs : n = bundle.receipts[x].number
            BY <2>3 DEF Numbers
        <3>2. PICK k \in 1..10 : x = Plan[k]
            BY <3>1, PlanFacts
        <3> QED BY <3>1, <3>2
    <2> QED BY <2>2, <2>3
<1> HIDE DEF f
<1>4. f[1] \in Nat /\ f[2] \in Nat /\ f[3] \in Nat /\ f[4] \in Nat /\ f[5] \in Nat
      /\ f[6] \in Nat /\ f[7] \in Nat /\ f[8] \in Nat /\ f[9] \in Nat /\ f[10] \in Nat
    BY <1>3
<1>5. PICK m \in Nat : m = f[1] + f[2] + f[3] + f[4] + f[5] + f[6] + f[7] + f[8] + f[9] + f[10]
    BY <1>4
<1>6. /\ f[1] <= m /\ f[2] <= m /\ f[3] <= m /\ f[4] <= m /\ f[5] <= m
      /\ f[6] <= m /\ f[7] <= m /\ f[8] <= m /\ f[9] <= m /\ f[10] <= m
    BY <1>4, <1>5
<1>7. \A k \in 1..10 : f[k] <= m
    <2> SUFFICES ASSUME NEW k \in 1..10 PROVE f[k] <= m
        OBVIOUS
    <2>1. k \in {1, 2, 3, 4, 5, 6, 7, 8, 9, 10}
        OBVIOUS
    <2> QED BY <2>1, <1>6
<1> QED BY <1>2, <1>3, <1>7

(* The first and the last recorded number. *)
LEMMA NumbersEnds ==
    ASSUME IsBundle(bundle)
    PROVE  /\ Min(Numbers) \in Numbers /\ Max(Numbers) \in Numbers
           /\ \A n \in Numbers : Min(Numbers) <= n /\ n <= Max(Numbers)
<1>1. PICK m \in Nat : \A n \in Numbers : n <= m
    BY NumbersBounded
<1>2. PICK S : S = Numbers
    OBVIOUS
<1>3. S \in SUBSET (0..m) /\ S # {} /\ \A n \in S : n \in Nat
    BY <1>1, <1>2, NumbersBounded, NumbersFinite
<1>4. PICK h \in S : \A k \in S : k <= h
    BY <1>3, Greatest
<1>5. PICK T : T = {m - k : k \in S}
    OBVIOUS
<1>6. T \in SUBSET (0..m) /\ T # {}
    BY <1>3, <1>5
<1>7. PICK u \in T : \A v \in T : v <= u
    BY <1>6, Greatest
<1>8. PICK l \in S : u = m - l
    BY <1>5, <1>7
<1>9. \A k \in S : l <= k
    <2> SUFFICES ASSUME NEW k \in S PROVE l <= k
        OBVIOUS
    <2>1. m - k <= m - l
        BY <1>5, <1>7, <1>8
    <2> QED BY <2>1, <1>3, <1>8
<1>10. Min(S) \in S /\ \A k \in S : Min(S) <= k
    BY <1>8, <1>9 DEF Min
<1>11. Max(S) \in S /\ \A k \in S : Max(S) >= k
    <2>1. \A k \in S : h >= k
        BY <1>3, <1>4
    <2> QED BY <1>4, <2>1 DEF Max
<1>12. \A k \in S : k <= Max(S)
    BY <1>3, <1>11
<1> QED BY <1>2, <1>10, <1>11, <1>12

(* Blocks without a gap are swept in the order of their numbers. *)
LEMMA AscendingFacts ==
    ASSUME IsBundle(bundle), SeparateBoundaries
    PROVE  \E a \in Nat \ {0}, b \in Nat :
             /\ Numbers = a..b /\ a <= b
             /\ Cardinality(Numbers) = b - a + 1
             /\ \A i \in 1..b - a + 1 : Ascending(Numbers)[i] = a + i - 1
<1>1. PICK a, b : a = Min(Numbers) /\ b = Max(Numbers)
    OBVIOUS
<1>2. a \in Nat \ {0} /\ b \in Nat /\ a <= b
    BY <1>1, NumbersEnds, NumbersBounded
<1>3. Numbers = a..b
    BY <1>1 DEF SeparateBoundaries
<1>4. PICK S : S = Numbers
    OBVIOUS
<1>5. Cardinality(S) = b - a + 1
    BY <1>2, <1>3, <1>4, FS_Interval
<1>6. ASSUME NEW n \in S PROVE Cardinality({m \in S : m <= n}) = n - a + 1
    <2>1. n \in a..b /\ n \in Int
        BY <1>2, <1>3, <1>4, <1>6
    <2>2. {m \in S : m <= n} = a..n
        BY <1>2, <1>3, <1>4, <2>1
    <2>3. Cardinality(a..n) = n - a + 1
        BY <1>2, <2>1, FS_Interval
    <2> QED BY <2>2, <2>3
<1>7. ASSUME NEW i \in 1..b - a + 1 PROVE Ascending(S)[i] = a + i - 1
    <2>1. PICK n \in S : n = a + i - 1
        BY <1>2, <1>3, <1>4, <1>7
    <2>2. Ascending(S)[i] = CHOOSE x \in S : Cardinality({m \in S : m <= x}) = i
        BY <1>5, <1>7 DEF Ascending
    <2>3. Cardinality({m \in S : m <= n}) = i
        <3>1. n - a + 1 = i
            BY <1>2, <1>7, <2>1
        <3> QED BY <1>6, <2>1, <3>1
    <2>4. PICK x \in S : x = Ascending(S)[i] /\ Cardinality({m \in S : m <= x}) = i
        BY <2>1, <2>2, <2>3
    <2>5. x - a + 1 = i /\ x \in Int
        BY <1>2, <1>3, <1>4, <1>6, <2>4
    <2> QED BY <1>2, <1>7, <2>4, <2>5
<1> QED BY <1>2, <1>3, <1>4, <1>5, <1>7

(* The command walks a sequence of numbers, one at least. *)
LEMMA ThenFacts ==
    /\ IsSeq(Ascending(Numbers)) /\ Len(Ascending(Numbers)) = Cardinality(Numbers)
    /\ Cardinality(Numbers) \in Nat /\ Cardinality(Numbers) >= 1
<1>1. PICK c \in Nat : c = Cardinality(Numbers) /\ c >= 1
    <2>1. Cardinality(Numbers) \in Nat /\ Cardinality(Numbers) # 0
        BY NumbersFinite, FS_CardinalityType, FS_EmptySet
    <2> QED BY <2>1
<1>2. PICK f : f = Ascending(Numbers)
    OBVIOUS
<1> DEFINE Nth(i) == CHOOSE n \in Numbers : Cardinality({m \in Numbers : m <= n}) = i
<1>3. f = [i \in 1..c |-> Nth(i)]
    BY <1>1, <1>2 DEF Ascending
<1>4. f \in [1..c -> {Nth(i) : i \in 1..c}]
    <2> HIDE DEF Nth
    <2> QED BY <1>3
<1>5. IsSeq(f) /\ Len(f) = c
    BY <1>4, <1>1, FunctionIsSeq DEF IsSeq
<1> QED BY <1>1, <1>2, <1>5

(* Consecutive places hold consecutive numbers, of blocks above the first. *)
LEMMA ThenNumbers ==
    ASSUME IsBundle(bundle), SeparateBoundaries, NEW then, then = Ascending(Numbers)
    PROVE  /\ Len(then) \in Nat /\ Len(then) >= 1
           /\ \A i \in 1..Len(then) : then[i] \in Nat \ {0} /\ then[i] \in Numbers
           /\ \A i \in 1..Len(then) - 1 : then[i + 1] = then[i] + 1
           /\ \A n \in Numbers : n <= then[Len(then)]
<1>1. PICK a \in Nat \ {0}, b \in Nat :
        /\ Numbers = a..b /\ a <= b
        /\ Cardinality(Numbers) = b - a + 1
        /\ \A i \in 1..b - a + 1 : then[i] = a + i - 1
    BY AscendingFacts
<1>2. Len(then) = b - a + 1
    BY <1>1, ThenFacts
<1>3. PICK l \in Nat : l = Len(then) /\ l = b - a + 1 /\ l >= 1
    BY <1>1, <1>2
<1>4. ASSUME NEW i \in 1..l PROVE then[i] \in Nat \ {0} /\ then[i] \in Numbers
    BY <1>1, <1>3, <1>4
<1>5. ASSUME NEW i \in 1..l - 1 PROVE then[i + 1] = then[i] + 1
    <2>1. i \in 1..b - a + 1 /\ i + 1 \in 1..b - a + 1
        BY <1>1, <1>3, <1>5
    <2>2. then[i] = a + i - 1 /\ then[i + 1] = a + (i + 1) - 1
        BY <1>1, <2>1
    <2> QED BY <1>1, <1>5, <2>2
<1>6. then[l] = b
    <2>1. l \in 1..b - a + 1
        BY <1>1, <1>3
    <2>2. then[l] = a + l - 1
        BY <1>1, <2>1
    <2> QED BY <1>1, <1>3, <2>2
<1>7. \A n \in Numbers : n <= then[l]
    BY <1>1, <1>6
<1> QED BY <1>3, <1>4, <1>5, <1>7

------------------------------------------------------------------------------
(* The steps of the token accounting. *)
LEMMA StartTokenStep == EvidenceInv /\ StartToken => EvidenceInv'
<1> SUFFICES ASSUME EvidenceInv, StartToken PROVE EvidenceInv'
    OBVIOUS
<1>1. /\ tool = Idle /\ bundle # Nothing
      /\ UNCHANGED <<blocks, chain, bundle, published, anvil, proof, source, accepted>>
    BY DEF StartToken, CanRun, chainVars, proofVars
<1> DEFINE Begun(verify) == Command("token", [NoOptions EXCEPT !.verify = verify], Ascending(Numbers))
<1>2. \E verify, ok : Proceed(ok, Begun(verify))
    BY DEF StartToken
<1>3. PICK verify : \E ok : Proceed(ok, Begun(verify))
    BY <1>2
<1>4. PICK t : t = Begun(verify)
    OBVIOUS
<1>5. /\ DOMAIN t = ToolFields /\ t.pc = "head" /\ t.job = "token" /\ t.report = Nothing
      /\ t.seen = <<>> /\ t.rows = <<>> /\ t.then = Ascending(Numbers)
    BY <1>4 DEF Command, ToolFields
<1>6. CommandOK(t)
    BY <1>1, <1>5, CommandBegins DEF EvidenceInv
<1>7. AcceptedOK'
    BY <1>1, GrownSame, GrownAcceptedOK DEF EvidenceInv, World
<1>8. \E ok : Proceed(ok, t)
    BY <1>3, <1>4
<1> HIDE DEF Begun
<1> QED BY <1>1, <1>5, <1>6, <1>7, <1>8, BeginKeeps

(* A step of pro29 from one number or read to the next. *)
LEMMA TokenMove ==
    ASSUME CommandOK(tool), tool.pc \in TokenPcs, NEW t, DOMAIN t = ToolFields,
           t.pc \in TokenPcs, t.job = tool.job, t.then = tool.then, t.report = tool.report,
           TokenPhase(t)
    PROVE  CommandOK(t)
<1>1. /\ tool.pc \notin ReplayPcs
      /\ t.pc \notin ReplayPcs /\ t.pc \notin SnapPcs \cup {"probe"} /\ t.pc \notin LivePcs
    BY Phases
<1>2. Len(chain) > 1 /\ IsBundle(bundle) /\ ReceiptsBelow(bundle)
    BY <1>1 DEF CommandOK
<1> QED BY <1>1, <1>2 DEF CommandOK

(* What holds while pro29 reads. *)
LEMMA AtToken ==
    ASSUME EvidenceInv, tool.pc \in TokenPcs
    PROVE  /\ tool.pc \notin ProverPcs /\ CommandOK(tool) /\ DOMAIN tool = ToolFields /\ TokenPhase(tool)
           /\ IsBundle(bundle) /\ Len(chain) > 1 /\ ChainOK
           /\ tool.job = "token" /\ tool.then = Ascending(Numbers)
<1>1. tool.pc \notin ProverPcs /\ tool.pc # "idle" /\ tool.pc \notin ReplayPcs
    BY Phases
<1>2. CommandOK(tool) /\ DOMAIN tool = ToolFields
    BY <1>1, Running
<1>3. TokenPhase(tool)
    BY <1>2 DEF CommandOK
<1>4. tool.job = "token"
    BY <1>3 DEF TokenPhase
<1> QED BY <1>1, <1>2, <1>3, <1>4 DEF CommandOK, EvidenceInv, World

(* The canonical block of a number. *)
LEMMA NumberedFacts ==
    ASSUME ChainOK, NEW n \in Nat, n <= HeadNumber
    PROVE  /\ Mined(BlockByNumber(n)) /\ Height(BlockByNumber(n)) = n /\ BlockByNumber(n) \in Canonical
<1>1. chain \in Seq(1..Len(blocks)) /\ Len(chain) \in Nat
    BY DEF ChainOK, BlocksOK
<1>2. n + 1 \in 1..Len(chain)
    BY <1>1 DEF HeadNumber
<1>3. chain[n + 1] \in 1..Len(blocks)
    BY <1>1, <1>2, ElementOfSeq
<1>4. LinkedAt(n + 1)
    BY <1>2 DEF ChainOK, Linked
<1>5. blocks[chain[n + 1]].number = n
    BY <1>4 DEF LinkedAt
<1>6. chain[n + 1] \in Canonical
    BY <1>1, <1>2 DEF Canonical, ToSet
<1> QED BY <1>3, <1>5, <1>6 DEF Mined, Height, BlockByNumber

(* Of l places n are done and k remain. *)
LEMMA NextPlace ==
    ASSUME NEW n \in Nat, NEW k \in Nat, NEW l, n + k = l, k >= 1
    PROVE  /\ l \in Nat /\ n + 1 \in 1..l /\ k - 1 \in Nat /\ (n + 1) + (k - 1) = l
           /\ \A i \in 1..k - 1 : i + 1 \in 1..k /\ n + (i + 1) = (n + 1) + i
OBVIOUS

(* The block of a transaction is fetched by its number. *)
LEMMA TxBlockStep == EvidenceInv /\ ReadTxBlock => EvidenceInv'
<1> SUFFICES ASSUME EvidenceInv, ReadTxBlock PROVE EvidenceInv'
    OBVIOUS
<1>1. tool.pc = "txblock" /\ tool.pc \in BlockPcs /\ tool.pc \in TokenPcs
    BY DEF ReadTxBlock, TokenPcs, BlockPcs
<1>2. /\ tool.pc \notin ProverPcs /\ CommandOK(tool) /\ DOMAIN tool = ToolFields /\ TokenPhase(tool)
      /\ IsBundle(bundle) /\ ChainOK /\ tool.then = Ascending(Numbers) /\ tool.job = "token"
    BY <1>1, AtToken
<1> DEFINE t == [tool EXCEPT !.pc = "txblocktxs", !.held = BlockByNumber(Here)]
<1>3. /\ DOMAIN t = ToolFields /\ t.pc = "txblocktxs" /\ t.job = tool.job /\ t.then = tool.then
      /\ t.report = tool.report /\ t.rows = tool.rows /\ t.todo = tool.todo /\ t.seen = tool.seen
      /\ t.held = BlockByNumber(Here)
    BY <1>2 DEF ToolFields
<1>4. Proceed(SeparateBoundaries /\ Here <= HeadNumber, t) /\ UNCHANGED <<chainVars, checkVars>>
    BY DEF ReadTxBlock
<1> HIDE DEF t
<1>5. BlockPhase(tool)
    BY <1>1, <1>2 DEF TokenPhase
<1>6. ASSUME SeparateBoundaries, Here <= HeadNumber PROVE CommandOK(t)
    <2>1. PICK n \in Nat, l \in Nat : n = Len(tool.seen) /\ l = Len(tool.then)
        BY <1>2, <1>5, ThenFacts DEF BlockPhase, Heights
    <2>2. Here = tool.then[n + 1] /\ n + 1 \in 1..l
        <3>1. IsSeq(tool.todo) /\ n + Len(tool.todo) = l /\ Len(tool.todo) >= 1
            BY <1>5, <2>1 DEF BlockPhase, Remaining
        <3>2. PICK k \in Nat : k = Len(tool.todo) /\ k >= 1 /\ n + k = l
            BY <3>1, IsSeqFacts
        <3>3. tool.todo[1] = tool.then[n + 1]
            BY <3>2, <1>5, <2>1 DEF BlockPhase, Remaining
        <3>4. n + 1 \in 1..l
            BY <3>2, <2>1, NextPlace
        <3> QED BY <3>3, <3>4 DEF Here
    <2>3. Here \in Nat
        BY <2>1, <2>2, <1>2, <1>6, ThenNumbers
    <2>4. Mined(t.held) /\ Height(t.held) = Here
        BY <2>3, <1>2, <1>3, <1>6, NumberedFacts
    <2>5. Heights(t) /\ Remaining(t, Len(t.seen))
        BY <1>3, <1>5 DEF BlockPhase, Heights, Remaining
    <2>6. BlockPhase(t)
        BY <2>4, <2>5, <1>3, <1>5, <1>6 DEF BlockPhase, Here
    <2>7. TokenPhase(t)
        BY <2>6, <1>2, <1>3 DEF TokenPhase, BlockPcs, RowPcs
    <2>8. t.pc \in TokenPcs
        BY <1>3 DEF TokenPcs, BlockPcs
    <2> QED BY <2>7, <2>8, <1>1, <1>2, <1>3, TokenMove
<1>7. t.pc \notin ProverSteps
    BY <1>3 DEF ProverSteps
<1> QED BY <1>2, <1>4, <1>6, <1>7, ProceedKeeps

(* The transactions of that number are fetched in a second request. *)
LEMMA TxBlockTxsStep == EvidenceInv /\ ReadTxBlockTxs => EvidenceInv'
<1> SUFFICES ASSUME EvidenceInv, ReadTxBlockTxs PROVE EvidenceInv'
    OBVIOUS
<1>1. tool.pc = "txblocktxs" /\ tool.pc \in BlockPcs /\ tool.pc \in TokenPcs
    BY DEF ReadTxBlockTxs, TokenPcs, BlockPcs
<1>2. /\ tool.pc \notin ProverPcs /\ CommandOK(tool) /\ DOMAIN tool = ToolFields /\ TokenPhase(tool)
      /\ IsBundle(bundle) /\ ChainOK /\ tool.then = Ascending(Numbers) /\ tool.job = "token"
    BY <1>1, AtToken
<1> DEFINE t == [tool EXCEPT !.seen = Append(@, tool.held),
                             !.todo = IF Rest # <<>> THEN Rest ELSE tool.then,
                             !.pc = IF Rest # <<>> THEN "txblock" ELSE "sweep"]
<1>3. /\ DOMAIN t = ToolFields /\ t.pc = (IF Rest # <<>> THEN "txblock" ELSE "sweep")
      /\ t.job = tool.job /\ t.then = tool.then
      /\ t.report = tool.report /\ t.rows = tool.rows /\ t.seen = Append(tool.seen, tool.held)
      /\ t.todo = (IF Rest # <<>> THEN Rest ELSE tool.then)
    BY <1>2 DEF ToolFields
<1>4. \E ok : Proceed(ok, t) /\ UNCHANGED <<chainVars, checkVars>>
    BY DEF ReadTxBlockTxs
<1> HIDE DEF t
<1>5. /\ tool.rows = <<>> /\ Heights(tool) /\ Remaining(tool, Len(tool.seen)) /\ Len(tool.todo) >= 1
      /\ SeparateBoundaries /\ Mined(tool.held) /\ Height(tool.held) = tool.todo[1]
    BY <1>1, <1>2 DEF TokenPhase, BlockPhase
<1>6. PICK n \in Nat, k \in Nat : n = Len(tool.seen) /\ k = Len(tool.todo) /\ k >= 1
    BY <1>5, IsSeqFacts DEF Remaining, Heights
<1>7. /\ IsSeq(tool.todo) /\ n + k = Len(tool.then) /\ \A i \in 1..k : tool.todo[i] = tool.then[n + i]
    BY <1>5, <1>6 DEF Remaining
<1>8. /\ Len(tool.then) \in Nat /\ (n + 1) + (k - 1) = Len(tool.then)
      /\ \A i \in 1..k - 1 : i + 1 \in 1..k /\ n + (i + 1) = (n + 1) + i
    <2>1. PICK l : l = Len(tool.then)
        OBVIOUS
    <2>2. n + k = l
        BY <2>1, <1>7
    <2>3. n \in Nat /\ k \in Nat /\ k >= 1
        BY <1>6
    <2>4. /\ l \in Nat /\ (n + 1) + (k - 1) = l
          /\ \A i \in 1..k - 1 : i + 1 \in 1..k /\ n + (i + 1) = (n + 1) + i
        BY <2>2, <2>3, NextPlace
    <2> QED BY <2>1, <2>4
<1>9. Len(t.seen) = n + 1 /\ Heights(t)
    <2>1. /\ t.seen \in Seq(1..Len(blocks)) /\ Len(t.seen) = n + 1
          /\ \A i \in 1..n : t.seen[i] = tool.seen[i]
          /\ t.seen[n + 1] = tool.held
        BY <1>3, <1>5, <1>6, AppendFacts DEF Heights, Mined
    <2>2. Height(tool.held) = tool.then[n + 1]
        BY <1>5, <1>6, <1>7
    <2>3. ASSUME NEW i \in 1..n + 1 PROVE Height(t.seen[i]) = t.then[i]
        <3>1. CASE i = n + 1
            BY <3>1, <2>1, <2>2, <1>3
        <3>2. CASE i # n + 1
            <4>1. i \in 1..n
                BY <3>2, <2>3
            <4> QED BY <4>1, <2>1, <1>3, <1>5, <1>6 DEF Heights
        <3> QED BY <3>1, <3>2
    <2> QED BY <2>1, <2>3 DEF Heights
<1>10. /\ IsSeq(Rest) /\ Len(Rest) = k - 1 /\ \A i \in 1..k - 1 : Rest[i] = tool.todo[i + 1]
       /\ Rest # <<>> <=> k > 1
    BY <1>6, <1>7, IsSeqFacts DEF Rest
<1>11. TokenPhase(t) /\ t.pc \in TokenPcs
    <2>1. CASE Rest # <<>>
        <3>1. t.pc = "txblock" /\ t.todo = Rest /\ t.rows = <<>>
            BY <2>1, <1>3, <1>5
        <3>2. Len(Rest) >= 1 /\ (n + 1) + Len(Rest) = Len(t.then)
            <4>1. k > 1
                BY <2>1, <1>10
            <4>2. k - 1 >= 1
                BY <4>1, <1>6
            <4> QED BY <4>2, <1>8, <1>3, <1>10
        <3>3. ASSUME NEW i \in 1..Len(Rest) PROVE Rest[i] = t.then[(n + 1) + i]
            <4>1. i \in 1..k - 1
                BY <3>3, <1>10
            <4>2. i + 1 \in 1..k /\ n + (i + 1) = (n + 1) + i
                BY <4>1, <1>8
            <4>3. Rest[i] = tool.then[n + (i + 1)]
                BY <4>1, <4>2, <1>7, <1>10
            <4> QED BY <4>2, <4>3, <1>3
        <3>4. Remaining(t, n + 1)
            BY <3>1, <3>2, <3>3, <1>10 DEF Remaining
        <3>5. BlockPhase(t)
            BY <3>1, <3>2, <3>4, <1>5, <1>9 DEF BlockPhase
        <3> QED BY <3>1, <3>5, <1>2, <1>3 DEF TokenPhase, BlockPcs, RowPcs, TokenPcs
    <2>2. CASE Rest = <<>>
        <3>1. t.pc = "sweep" /\ t.todo = t.then /\ t.rows = <<>>
            BY <2>2, <1>3, <1>5
        <3>2. k = 1
            BY <2>2, <1>6, <1>10
        <3>3. Len(t.seen) = Len(t.then) /\ Len(t.then) >= 1
            BY <3>2, <1>3, <1>6, <1>7, <1>9
        <3> QED BY <3>1, <3>3, <1>2, <1>3, <1>5, <1>9 DEF TokenPhase, BlockPcs, RowPcs, TokenPcs
    <2> QED BY <2>1, <2>2
<1>12. CommandOK(t)
    BY <1>1, <1>2, <1>3, <1>11, TokenMove
<1>13. t.pc \notin ProverSteps
    BY <1>3 DEF ProverSteps
<1> QED BY <1>2, <1>4, <1>12, <1>13, ProceedKeeps

------------------------------------------------------------------------------
(* The sweep (eth_getLogs over the range of the retained blocks) found exactly the
   retained transfers, so the block that ends the range has moved exactly those:
   what others transferred comes after the mint, hence within the range. *)
LEMMA SweptAll ==
    ASSUME ChainOK, IsBundle(bundle), SeparateBoundaries,
           TransferRowsFromReceipts = RpcTransferRows(Min(Numbers), Max(Numbers)),
           NEW e \in Canonical, Height(e) \in Numbers, \A n \in Numbers : n <= Height(e)
    PROVE  AllMoved(e)
<1>1. /\ Len(chain) \in Nat /\ DOMAIN chain = 1..Len(chain)
      /\ \A b \in Canonical : Height(b) \in 0..Len(chain) - 1 /\ chain[Height(b) + 1] = b
      /\ blocks[e].lineage = {chain[j] : j \in 1..Height(e) + 1}
    <2>1. chain \in Seq(1..Len(blocks))
        BY DEF ChainOK, BlocksOK
    <2> QED BY <2>1, CanonicalFacts DEF Height
<1>2. Numbers = Min(Numbers)..Max(Numbers)
    BY DEF SeparateBoundaries
<1>3. ASSUME NEW t \in PlanTxs \cap DOMAIN Transfers
      PROVE  \E b \in Canonical : Height(b) \in Numbers /\ blocks[b].tx = t
    <2>1. <<t, bundle.receipts[t]>> \in TransferRowsFromReceipts
        BY <1>3 DEF TransferRowsFromReceipts
    <2>2. <<t, bundle.receipts[t]>> \in RpcTransferRows(Min(Numbers), Max(Numbers))
        BY <2>1
    <2>3. PICK b \in Canonical :
            /\ Height(b) \in Min(Numbers)..Max(Numbers)
            /\ <<t, bundle.receipts[t]>> = <<blocks[b].tx, [number |-> Height(b), id |-> b]>>
        BY <2>2 DEF RpcTransferRows
    <2>4. blocks[b].tx = t
        BY <2>3
    <2> QED BY <2>3, <2>4, <1>2
<1>4. ASSUME NEW b \in Canonical, Height(b) \in Numbers, blocks[b].tx \in DOMAIN Transfers
      PROVE  blocks[b].tx \in PlanTxs
    <2>1. Height(b) \in Min(Numbers)..Max(Numbers)
        BY <1>2, <1>4
    <2>2. <<blocks[b].tx, [number |-> Height(b), id |-> b]>> \in RpcTransferRows(Min(Numbers), Max(Numbers))
        BY <2>1, <1>4 DEF RpcTransferRows
    <2>3. <<blocks[b].tx, [number |-> Height(b), id |-> b]>> \in TransferRowsFromReceipts
        BY <2>2
    <2>4. PICK t \in PlanTxs : <<blocks[b].tx, [number |-> Height(b), id |-> b]>> = <<t, bundle.receipts[t]>>
        BY <2>3 DEF TransferRowsFromReceipts
    <2> QED BY <2>4
<1>5. ASSUME NEW t \in PlanTxs \cap DOMAIN Transfers PROVE t \in Executed(e)
    <2>1. PICK b \in Canonical : Height(b) \in Numbers /\ blocks[b].tx = t
        BY <1>3, <1>5
    <2>2. Height(b) <= Height(e)
        BY <2>1
    <2>3. Height(b) + 1 \in 1..Height(e) + 1 /\ chain[Height(b) + 1] = b
        BY <2>1, <2>2, <1>1
    <2>4. b \in blocks[e].lineage
        BY <2>3, <1>1
    <2> QED BY <2>1, <2>4 DEF Executed
<1>6. ASSUME NEW t \in Executed(e) \cap DOMAIN Transfers PROVE t \in PlanTxs
    <2>1. PICK c \in blocks[e].lineage : t = blocks[c].tx
        BY <1>6 DEF Executed
    <2>2. PICK j \in 1..Height(e) + 1 : c = chain[j]
        BY <2>1, <1>1
    <2>3. j \in 1..Len(chain)
        BY <2>2, <1>1
    <2>4. c \in Canonical /\ Height(c) = j - 1
        <3>1. LinkedAt(j)
            BY <2>3 DEF ChainOK, Linked
        <3> QED BY <3>1, <2>2, <2>3, <1>1 DEF Canonical, ToSet, LinkedAt, Height
    <2>5. t \in Txs
        <3>1. blocks \in Seq(BlockType) /\ c \in 1..Len(blocks)
            BY <2>4, CanonicalFacts DEF ChainOK, BlocksOK
        <3>2. blocks[c] \in BlockType
            BY <3>1, ElementOfSeq
        <3> QED BY <3>2, <2>1 DEF BlockType
    <2>6. t # "genesis"
        BY <1>6 DEF Transfers
    <2>7. ASSUME t \in Foreign PROVE Height(c) \in Numbers
        <3>1. PICK i \in 1..j - 1 : blocks[chain[i]].tx = "mint"
            BY <2>1, <2>2, <2>3, <2>7 DEF ChainOK, Ordered
        <3>2. "mint" \in PlanTxs \cap DOMAIN Transfers
            BY PlanFacts DEF Transfers
        <3>3. PICK b \in Canonical : Height(b) \in Numbers /\ blocks[b].tx = "mint"
            BY <1>3, <3>2
        <3>4. PICK h \in 1..Len(chain) : h = Height(b) + 1 /\ chain[h] = b
            BY <1>1, <3>3
        <3>5. i \in 1..Len(chain)
            BY <2>3, <3>1
        <3>6. h = i
            BY <3>1, <3>3, <3>4, <3>5 DEF ChainOK, Ordered
        <3>7. Height(b) \in Int /\ Height(e) \in Int /\ j \in Int /\ i \in Int
            BY <1>1, <2>3, <3>3, <3>5
        <3>8. Height(b) <= j - 1 /\ j - 1 <= Height(e)
            BY <2>2, <3>1, <3>4, <3>6, <3>7
        <3>9. Min(Numbers) \in Int /\ Max(Numbers) \in Int /\ Min(Numbers) <= Height(b) /\ Height(e) <= Max(Numbers)
            BY <3>3, NumbersEnds, NumbersBounded
        <3>10. j - 1 \in Min(Numbers)..Max(Numbers)
            BY <3>7, <3>8, <3>9
        <3> QED BY <3>10, <2>4, <1>2
    <2> QED BY <2>1, <2>4, <2>5, <2>6, <2>7, <1>4, <1>6 DEF Txs
<1> QED BY <1>5, <1>6 DEF AllMoved

(* The transfer logs of the range are compared with the receipts. *)
LEMMA SweepStep == EvidenceInv /\ SweepTransfers => EvidenceInv'
<1> SUFFICES ASSUME EvidenceInv, SweepTransfers PROVE EvidenceInv'
    OBVIOUS
<1>1. tool.pc = "sweep" /\ tool.pc \in TokenPcs
    BY DEF SweepTransfers, TokenPcs
<1>2. /\ tool.pc \notin ProverPcs /\ CommandOK(tool) /\ DOMAIN tool = ToolFields /\ TokenPhase(tool)
      /\ IsBundle(bundle) /\ ChainOK /\ tool.then = Ascending(Numbers) /\ tool.job = "token"
    BY <1>1, AtToken
<1> DEFINE t == [tool EXCEPT !.pc = "before"]
<1>3. /\ DOMAIN t = ToolFields /\ t.pc = "before" /\ t.job = tool.job /\ t.then = tool.then
      /\ t.report = tool.report /\ t.rows = tool.rows /\ t.todo = tool.todo /\ t.seen = tool.seen
    BY <1>2 DEF ToolFields
<1>4. PICK ok : /\ Proceed(ok, t) /\ UNCHANGED <<chainVars, checkVars>>
                /\ ok => TransferRowsFromReceipts = RpcTransferRows(Min(Numbers), Max(Numbers))
    BY DEF SweepTransfers
<1> HIDE DEF t
<1>5. /\ Heights(tool) /\ Len(tool.seen) = Len(tool.then) /\ SeparateBoundaries
      /\ tool.todo = tool.then /\ tool.rows = <<>>
    BY <1>1, <1>2 DEF TokenPhase
<1>6. PICK l \in Nat : l = Len(tool.then) /\ l >= 1
    BY <1>2, ThenFacts
<1>7. Heights(t) /\ Remaining(t, 0) /\ Len(t.todo) >= 1 /\ IsSeq(t.rows) /\ Len(t.rows) = 0
    <2>1. Heights(t)
        BY <1>3, <1>5 DEF Heights
    <2>2. IsSeq(t.todo) /\ Len(t.todo) = l
        BY <1>2, <1>3, <1>5, <1>6, ThenFacts
    <2>3. \A i \in 1..l : t.todo[i] = t.then[0 + i]
        <3>1. \A i \in 1..l : 0 + i = i
            BY <1>6
        <3> QED BY <3>1, <1>3, <1>5
    <2>4. 0 + Len(t.todo) = Len(t.then)
        BY <2>2, <1>3, <1>6
    <2>5. IsSeq(t.rows) /\ Len(t.rows) = 0
        BY <1>3, <1>5, EmptyIsSeq
    <2> QED BY <2>1, <2>2, <2>3, <2>4, <2>5, <1>6 DEF Remaining
<1>8. ASSUME ok, Last(t.seen) \in Canonical PROVE AllMoved(Last(t.seen))
    <2>1. PICK e : e = Last(t.seen)
        OBVIOUS
    <2>2. e = t.seen[l] /\ l \in 1..l
        BY <2>1, <1>3, <1>5, <1>6 DEF Last
    <2>3. Height(e) = tool.then[l]
        BY <2>2, <1>3, <1>5, <1>6 DEF Heights
    <2>4. tool.then[l] \in Numbers /\ \A n \in Numbers : n <= tool.then[l]
        BY <1>2, <1>5, <1>6, <2>2, ThenNumbers
    <2>5. e \in Canonical /\ Height(e) \in Numbers /\ \A n \in Numbers : n <= Height(e)
        BY <1>8, <2>1, <2>3, <2>4
    <2>6. AllMoved(e)
        BY <2>5, <1>2, <1>4, <1>5, <1>8, SweptAll
    <2> QED BY <2>1, <2>6
<1>9. ASSUME ok PROVE CommandOK(t)
    <2>1. Last(t.seen) \in Canonical => AllMoved(Last(t.seen))
        BY <1>8, <1>9
    <2>2. RowPhase(t)
        BY <2>1, <1>3, <1>5, <1>7 DEF RowPhase
    <2>3. TokenPhase(t) /\ t.pc \in TokenPcs
        BY <2>2, <1>2, <1>3 DEF TokenPhase, BlockPcs, RowPcs, TokenPcs
    <2> QED BY <2>3, <1>1, <1>2, <1>3, TokenMove
<1>10. t.pc \notin ProverSteps
    BY <1>3 DEF ProverSteps
<1> QED BY <1>2, <1>4, <1>9, <1>10, ProceedKeeps

------------------------------------------------------------------------------
(* The row under way: the recorded block, its number, what remains. *)
LEMMA AtRow ==
    ASSUME EvidenceInv, tool.pc \in RowPcs, tool.pc # "decimals"
    PROVE  /\ tool.pc \in TokenPcs /\ tool.pc \notin ProverPcs /\ CommandOK(tool) /\ DOMAIN tool = ToolFields
           /\ tool.job = "token" /\ IsBundle(bundle) /\ ChainOK /\ RowPhase(tool)
           /\ tool.then = Ascending(Numbers) /\ SeparateBoundaries
           /\ Len(tool.rows) \in Nat /\ Len(tool.rows) + 1 \in 1..Len(tool.then)
           /\ Len(tool.seen) = Len(tool.then) /\ Len(tool.then) \in Nat
           /\ Here = tool.then[Len(tool.rows) + 1] /\ Here \in Nat \ {0}
           /\ Mined(tool.seen[Len(tool.rows) + 1]) /\ Height(tool.seen[Len(tool.rows) + 1]) = Here
<1>1. tool.pc \in TokenPcs /\ tool.pc \notin BlockPcs /\ tool.pc # "sweep"
    BY Phases
<1>2. /\ tool.pc \notin ProverPcs /\ CommandOK(tool) /\ DOMAIN tool = ToolFields /\ TokenPhase(tool)
      /\ IsBundle(bundle) /\ ChainOK /\ tool.job = "token" /\ tool.then = Ascending(Numbers)
    BY <1>1, AtToken
<1>3. RowPhase(tool)
    BY <1>2 DEF TokenPhase
<1>4. /\ Heights(tool) /\ Len(tool.seen) = Len(tool.then) /\ SeparateBoundaries
      /\ IsSeq(tool.rows) /\ Remaining(tool, Len(tool.rows)) /\ Len(tool.todo) >= 1
    BY <1>3 DEF RowPhase
<1>5. PICK n, k, l : n = Len(tool.rows) /\ k = Len(tool.todo) /\ l = Len(tool.then)
    OBVIOUS
<1>6. n \in Nat /\ k \in Nat /\ k >= 1 /\ n + k = l
    <2>1. n \in Nat
        BY <1>4, <1>5, IsSeqFacts
    <2>2. IsSeq(tool.todo)
        BY <1>4 DEF Remaining
    <2>3. k \in Nat
        BY <2>2, <1>5, IsSeqFacts
    <2> QED BY <2>1, <2>3, <1>4, <1>5 DEF Remaining
<1>7. l \in Nat /\ n + 1 \in 1..l
    BY <1>6, NextPlace
<1>8. Here = tool.then[n + 1]
    <2>1. 1 \in 1..k
        BY <1>6
    <2> QED BY <2>1, <1>4, <1>5 DEF Remaining, Here
<1>9. Here \in Nat \ {0}
    BY <1>2, <1>4, <1>5, <1>7, <1>8, ThenNumbers
<1>10. Mined(tool.seen[n + 1]) /\ Height(tool.seen[n + 1]) = tool.then[n + 1]
    <2>1. tool.seen \in Seq(1..Len(blocks)) /\ n + 1 \in 1..Len(tool.seen)
        BY <1>4, <1>5, <1>7 DEF Heights
    <2>2. tool.seen[n + 1] \in 1..Len(blocks)
        BY <2>1, ElementOfSeq
    <2> QED BY <2>1, <2>2, <1>4 DEF Heights, Mined
<1> QED BY <1>1, <1>2, <1>3, <1>4, <1>5, <1>6, <1>7, <1>8, <1>9, <1>10

(* The block before a transaction is fetched by its number. *)
LEMMA BeforeBlockStep == EvidenceInv /\ ReadBeforeBlock => EvidenceInv'
<1> SUFFICES ASSUME EvidenceInv, ReadBeforeBlock PROVE EvidenceInv'
    OBVIOUS
<1>1. tool.pc = "before" /\ tool.pc \in RowPcs /\ tool.pc # "decimals"
    BY DEF ReadBeforeBlock, RowPcs
<1>2. /\ tool.pc \in TokenPcs /\ tool.pc \notin ProverPcs /\ CommandOK(tool) /\ DOMAIN tool = ToolFields
      /\ tool.job = "token" /\ ChainOK /\ RowPhase(tool)
    BY <1>1, AtRow
<1>3. PICK n, b : n = Len(tool.rows) /\ b = tool.seen[n + 1]
    OBVIOUS
<1>4. Mined(b) /\ Height(b) = Here /\ Here \in Nat \ {0}
    BY <1>1, <1>3, AtRow
<1> DEFINE t == [tool EXCEPT !.pc = "beforereads", !.held = BlockByNumber(Here - 1)]
<1>5. /\ DOMAIN t = ToolFields /\ t.pc = "beforereads" /\ t.job = tool.job /\ t.then = tool.then
      /\ t.report = tool.report /\ t.rows = tool.rows /\ t.todo = tool.todo /\ t.seen = tool.seen
      /\ t.held = BlockByNumber(Here - 1)
    BY <1>2 DEF ToolFields
<1>6. \E ok : Proceed(ok, t) /\ UNCHANGED <<chainVars, checkVars>>
    BY DEF ReadBeforeBlock
<1> HIDE DEF t
<1>7. ParentOf(b, t.held)
    <2> SUFFICES ASSUME b \in Canonical PROVE blocks[b].parent = t.held
        BY DEF ParentOf
    <2>1. blocks[b].number > 0 => blocks[b].parent = chain[blocks[b].number]
        BY <1>2, CanonicalFacts
    <2>2. blocks[b].number = Here /\ Here > 0 /\ (Here - 1) + 1 = Here
        BY <1>4 DEF Height
    <2> QED BY <2>1, <2>2, <1>5 DEF BlockByNumber
<1>8. RowPhase(t)
    <2>1. Heights(t) /\ Remaining(t, n)
        BY <1>2, <1>3, <1>5 DEF RowPhase, Heights, Remaining
    <2>2. \A k \in 1..n : RowOK(t, k)
        BY <1>2, <1>3, <1>5 DEF RowPhase, RowOK
    <2> QED BY <2>1, <2>2, <1>1, <1>2, <1>3, <1>5, <1>7 DEF RowPhase
<1>9. TokenPhase(t) /\ t.pc \in TokenPcs
    BY <1>8, <1>2, <1>5 DEF TokenPhase, BlockPcs, RowPcs, TokenPcs
<1>10. CommandOK(t)
    BY <1>2, <1>5, <1>9, TokenMove
<1>11. t.pc \notin ProverSteps
    BY <1>5 DEF ProverSteps
<1> QED BY <1>2, <1>6, <1>10, <1>11, ProceedKeeps

(* The balances before a transaction are read at that block's hash. *)
LEMMA BeforeStep == EvidenceInv /\ ReadBefore => EvidenceInv'
<1> SUFFICES ASSUME EvidenceInv, ReadBefore PROVE EvidenceInv'
    OBVIOUS
<1>1. tool.pc = "beforereads" /\ tool.pc \in RowPcs /\ tool.pc # "decimals"
    BY DEF ReadBefore, RowPcs
<1>2. /\ tool.pc \in TokenPcs /\ tool.pc \notin ProverPcs /\ CommandOK(tool) /\ DOMAIN tool = ToolFields
      /\ tool.job = "token" /\ ChainOK /\ RowPhase(tool)
    BY <1>1, AtRow
<1>3. PICK n, b : n = Len(tool.rows) /\ b = BeforeRef([number |-> Here - 1, id |-> tool.held])
    OBVIOUS
<1> DEFINE t == [tool EXCEPT !.pc = "afterreads", !.before = TokenStateAt(b)]
<1>4. /\ DOMAIN t = ToolFields /\ t.pc = "afterreads" /\ t.job = tool.job /\ t.then = tool.then
      /\ t.report = tool.report /\ t.rows = tool.rows /\ t.todo = tool.todo /\ t.seen = tool.seen
      /\ t.held = tool.held /\ t.before = TokenStateAt(b)
    BY <1>2 DEF ToolFields
<1>5. Proceed(b # 0, t) /\ UNCHANGED <<chainVars, checkVars>>
    BY <1>3 DEF ReadBefore
<1> HIDE DEF t
<1>6. ASSUME b # 0 PROVE CommandOK(t)
    <2>1. tool.held \in Canonical /\ b = tool.held
        BY <1>3, <1>6 DEF BeforeRef, PinnedBlock
    <2>2. Mined(t.held) /\ t.before = TokenStateAt(t.held)
        BY <2>1, <1>2, <1>4, CanonicalFacts DEF Mined
    <2>3. Heights(t) /\ Remaining(t, n)
        BY <1>2, <1>3, <1>4 DEF RowPhase, Heights, Remaining
    <2>4. \A k \in 1..n : RowOK(t, k)
        BY <1>2, <1>3, <1>4 DEF RowPhase, RowOK
    <2>5. RowPhase(t)
        BY <2>2, <2>3, <2>4, <1>1, <1>2, <1>3, <1>4 DEF RowPhase
    <2>6. TokenPhase(t) /\ t.pc \in TokenPcs
        BY <2>5, <1>2, <1>4 DEF TokenPhase, BlockPcs, RowPcs, TokenPcs
    <2> QED BY <2>6, <1>2, <1>4, TokenMove
<1>7. t.pc \notin ProverSteps
    BY <1>4 DEF ProverSteps
<1> QED BY <1>2, <1>5, <1>6, <1>7, ProceedKeeps

(* While a recorded block is canonical, the next recorded block can only be
   canonical as its child. *)
LEMMA NextRecorded ==
    ASSUME ChainOK, NEW b \in Canonical, NEW c, Height(c) = Height(b) + 1
    PROVE  ParentOf(c, b)
<1> SUFFICES ASSUME c \in Canonical PROVE blocks[c].parent = b
    BY DEF ParentOf
<1>1. /\ blocks[b].number \in 0..Len(chain) - 1 /\ chain[blocks[b].number + 1] = b
      /\ blocks[c].number > 0 => blocks[c].parent = chain[blocks[c].number]
    BY CanonicalFacts
<1>2. Len(chain) \in Nat
    BY DEF ChainOK, BlocksOK
<1>3. blocks[c].number = blocks[b].number + 1 /\ blocks[c].number > 0
    BY <1>1, <1>2 DEF Height
<1> QED BY <1>1, <1>3

(* The balances after a transaction are read at its recorded hash, and the   *)
(* row is complete.                                                          *)
LEMMA AfterStep == EvidenceInv /\ ReadAfter => EvidenceInv'
<1> SUFFICES ASSUME EvidenceInv, ReadAfter PROVE EvidenceInv'
    OBVIOUS
<1>1. tool.pc = "afterreads" /\ tool.pc \in RowPcs /\ tool.pc # "decimals"
    BY DEF ReadAfter, RowPcs
<1>2. /\ tool.pc \in TokenPcs /\ tool.pc \notin ProverPcs /\ CommandOK(tool) /\ DOMAIN tool = ToolFields
      /\ tool.job = "token" /\ IsBundle(bundle) /\ ChainOK /\ RowPhase(tool)
      /\ tool.then = Ascending(Numbers) /\ SeparateBoundaries
    BY <1>1, AtRow
<1>3. PICK n, l, c : n = Len(tool.rows) /\ l = Len(tool.then) /\ c = tool.seen[n + 1]
    OBVIOUS
<1>4. /\ n \in Nat /\ l \in Nat /\ n + 1 \in 1..l /\ Len(tool.seen) = l
      /\ Here = tool.then[n + 1] /\ Mined(c) /\ Height(c) = Here
    BY <1>1, <1>3, AtRow
<1>5. PICK b : b = AfterRef([number |-> Here, id |-> c])
    OBVIOUS
<1>6. PICK r : r = [tx |-> TxAt(Here), before |-> tool.held, after |-> c, from |-> tool.before, to |-> TokenStateAt(b)]
    OBVIOUS
<1>7. r.before = tool.held /\ r.after = c /\ r.from = tool.before /\ r.to = TokenStateAt(b)
    BY <1>6
<1> DEFINE t == [tool EXCEPT !.rows = Append(@, r), !.todo = Rest, !.pc = IF Rest # <<>> THEN "before" ELSE "decimals"]
<1>8. /\ DOMAIN t = ToolFields /\ t.pc = (IF Rest # <<>> THEN "before" ELSE "decimals")
      /\ t.job = tool.job /\ t.then = tool.then
      /\ t.report = tool.report /\ t.rows = Append(tool.rows, r) /\ t.todo = Rest /\ t.seen = tool.seen
    BY <1>2 DEF ToolFields
<1>9. PICK ok : Proceed(ok, t) /\ (ok => b # 0) /\ UNCHANGED <<chainVars, checkVars>>
    BY <1>3, <1>5, <1>6 DEF ReadAfter
<1> HIDE DEF t
<1>10. /\ Heights(tool) /\ IsSeq(tool.rows) /\ Remaining(tool, n)
       /\ \A k \in 1..n : RowOK(tool, k)
       /\ Len(tool.todo) >= 1
       /\ n > 0 => ParentOf(c, tool.seen[n])
       /\ Last(tool.seen) \in Canonical => AllMoved(Last(tool.seen))
       /\ ParentOf(c, tool.held)
       /\ Mined(tool.held) /\ tool.before = TokenStateAt(tool.held)
    BY <1>1, <1>2, <1>3 DEF RowPhase
<1>11. /\ IsSeq(t.rows) /\ Len(t.rows) = n + 1
       /\ \A i \in 1..n : t.rows[i] = tool.rows[i]
       /\ t.rows[n + 1] = r
    BY <1>3, <1>8, <1>10, IsSeqFacts
<1>12. PICK k : k = Len(tool.todo)
    OBVIOUS
<1>13. k \in Nat /\ k >= 1 /\ n + k = l /\ IsSeq(tool.todo)
    <2>1. IsSeq(tool.todo) /\ n + Len(tool.todo) = l
        BY <1>3, <1>10 DEF Remaining
    <2>2. k \in Nat
        BY <2>1, <1>12, IsSeqFacts
    <2> QED BY <2>1, <2>2, <1>10, <1>12
<1>14. /\ (n + 1) + (k - 1) = l /\ k - 1 \in Nat
       /\ \A i \in 1..k - 1 : i + 1 \in 1..k /\ n + (i + 1) = (n + 1) + i
    BY <1>4, <1>13, NextPlace
<1>15. /\ IsSeq(Rest) /\ Len(Rest) = k - 1 /\ \A i \in 1..k - 1 : Rest[i] = tool.todo[i + 1]
       /\ Rest # <<>> <=> k > 1
    BY <1>12, <1>13, IsSeqFacts DEF Rest
<1>16. Heights(t) /\ Remaining(t, n + 1)
    <2>1. ASSUME NEW i \in 1..k - 1 PROVE Rest[i] = t.then[(n + 1) + i]
        <3>1. Rest[i] = tool.todo[i + 1] /\ i + 1 \in 1..k /\ n + (i + 1) = (n + 1) + i
            BY <2>1, <1>14, <1>15
        <3>2. tool.todo[i + 1] = tool.then[n + (i + 1)]
            BY <3>1, <1>10, <1>12 DEF Remaining
        <3> QED BY <3>1, <3>2, <1>8
    <2>2. Remaining(t, n + 1)
        BY <2>1, <1>3, <1>8, <1>14, <1>15 DEF Remaining
    <2> QED BY <2>2, <1>8, <1>10 DEF Heights
<1>17. ASSUME ok PROVE CommandOK(t)
    <2>1. c \in Canonical /\ b = c
        BY <1>5, <1>9, <1>17 DEF AfterRef, PinnedBlock
    <2>2. blocks[c].parent = tool.held /\ (n > 0 => tool.held = tool.seen[n])
        BY <2>1, <1>10 DEF ParentOf
    <2>3. RowOK(t, n + 1)
        <3>1. t.seen[n + 1] = c /\ (n + 1) - 1 = n
            BY <1>3, <1>4, <1>8
        <3>2. n + 1 > 1 => tool.held = tool.seen[n]
            BY <2>2, <1>4
        <3> QED BY <3>1, <3>2, <2>1, <2>2, <1>7, <1>8, <1>10, <1>11 DEF RowOK
    <2>4. ASSUME NEW j \in 1..n + 1 PROVE RowOK(t, j)
        <3>1. CASE j = n + 1
            BY <3>1, <2>3
        <3>2. CASE j # n + 1
            <4>1. j \in 1..n
                BY <3>2, <2>4, <1>4
            <4>2. RowOK(tool, j) /\ t.rows[j] = tool.rows[j]
                BY <4>1, <1>10, <1>11
            <4> QED BY <4>2, <1>8 DEF RowOK
        <3> QED BY <3>1, <3>2
    <2>5. CASE Rest # <<>>
        <3>1. t.pc = "before" /\ Len(t.todo) >= 1 /\ k > 1
            BY <2>5, <1>8, <1>13, <1>15
        <3>2. PICK m, d : m = (n + 1) + 1 /\ d = tool.seen[m]
            OBVIOUS
        <3>3. m \in 1..l /\ n + 1 \in 1..l - 1
            BY <3>1, <3>2, <1>4, <1>13
        <3>4. Height(d) = tool.then[m]
            BY <3>2, <3>3, <1>4, <1>10 DEF Heights
        <3>5. tool.then[m] = tool.then[n + 1] + 1
            BY <3>2, <3>3, <1>2, <1>3, ThenNumbers
        <3>6. ParentOf(d, c)
            BY <3>4, <3>5, <2>1, <1>2, <1>4, NextRecorded
        <3>7. ParentOf(t.seen[(n + 1) + 1], t.seen[n + 1])
            BY <3>2, <3>6, <1>3, <1>8
        <3>8. RowPhase(t)
            BY <3>1, <3>7, <2>4, <1>2, <1>3, <1>4, <1>8, <1>10, <1>11, <1>16 DEF RowPhase
        <3>9. TokenPhase(t) /\ t.pc \in TokenPcs
            BY <3>1, <3>8, <1>2, <1>8 DEF TokenPhase, BlockPcs, RowPcs, TokenPcs
        <3> QED BY <3>9, <1>2, <1>8, TokenMove
    <2>6. CASE Rest = <<>>
        <3>1. t.pc = "decimals" /\ k = 1
            BY <2>6, <1>8, <1>13, <1>15
        <3>2. Len(t.todo) = 0 /\ n + 1 = l
            BY <3>1, <1>4, <1>8, <1>13, <1>15
        <3>3. Last(t.seen) = c
            BY <3>2, <1>3, <1>4, <1>8 DEF Last
        <3>4. Mined(Last(t.seen)) /\ AllMoved(Last(t.seen))
            BY <3>3, <2>1, <1>4, <1>8, <1>10
        <3>5. RowPhase(t)
            BY <3>1, <3>2, <3>4, <2>4, <1>2, <1>3, <1>4, <1>8, <1>11, <1>16 DEF RowPhase
        <3>6. TokenPhase(t) /\ t.pc \in TokenPcs
            BY <3>1, <3>5, <1>2, <1>8 DEF TokenPhase, BlockPcs, RowPcs, TokenPcs
        <3> QED BY <3>6, <1>2, <1>8, TokenMove
    <2> QED BY <2>5, <2>6
<1>18. t.pc \notin ProverSteps
    BY <1>8 DEF ProverSteps
<1> QED BY <1>2, <1>9, <1>17, <1>18, ProceedKeeps

------------------------------------------------------------------------------
(* The accounts of the table (pro29_token_accounting.py) are those that the *)
(* transfers of the plan move tokens between.                                *)
LEMMA KnownAccountsFacts == KnownAccounts = Accounts
<1>1. {RECIPIENTS[c].beneficiary : c \in DOMAIN RECIPIENTS} = {"alice", "bob", "carol"}
    <2>1. DOMAIN RECIPIENTS = {"claim-a", "claim-b", "claim-c"}
        BY DEF RECIPIENTS, ClaimAmount
    <2>2. /\ RECIPIENTS["claim-a"].beneficiary = "alice"
          /\ RECIPIENTS["claim-b"].beneficiary = "bob"
          /\ RECIPIENTS["claim-c"].beneficiary = "carol"
        BY DEF RECIPIENTS, ClaimAmount
    <2> QED BY <2>1, <2>2
<1>2. \A t \in DOMAIN Transfers : Transfers[t].from \in Accounts \cup {"zero"} /\ Transfers[t].to \in Accounts
    <2>1. DOMAIN Transfers = {"mint", "deposit", "fund", "claim-a", "claim-b", "claim-c", "transfer"}
        BY DEF Transfers
    <2>2. /\ Transfers["mint"] = Transfer("zero", "sponsor", 81)
          /\ Transfers["deposit"] = Transfer("sponsor", "reserve", 80)
          /\ Transfers["fund"] = Transfer("reserve", "allocator", 70)
          /\ Transfers["transfer"] = Transfer("sponsor", "reserve", 1)
        BY DEF Transfers
    <2>3. /\ Transfers["claim-a"] = Transfer("allocator", "alice", 35)
          /\ Transfers["claim-b"] = Transfer("allocator", "bob", 21)
          /\ Transfers["claim-c"] = Transfer("allocator", "carol", 14)
        BY DEF Transfers
    <2>4. /\ Transfers["mint"].from = "zero" /\ Transfers["mint"].to = "sponsor"
          /\ Transfers["deposit"].from = "sponsor" /\ Transfers["deposit"].to = "reserve"
          /\ Transfers["fund"].from = "reserve" /\ Transfers["fund"].to = "allocator"
          /\ Transfers["transfer"].from = "sponsor" /\ Transfers["transfer"].to = "reserve"
        BY <2>2 DEF Transfer
    <2>5. /\ Transfers["claim-a"].from = "allocator" /\ Transfers["claim-a"].to = "alice"
          /\ Transfers["claim-b"].from = "allocator" /\ Transfers["claim-b"].to = "bob"
          /\ Transfers["claim-c"].from = "allocator" /\ Transfers["claim-c"].to = "carol"
        BY <2>3 DEF Transfer
    <2> QED BY <2>1, <2>4, <2>5 DEF Accounts
<1>3. PICK U : U = UNION {{Transfers[t].from, Transfers[t].to} : t \in PlanTxs \cap DOMAIN Transfers}
    OBVIOUS
<1>4. ASSUME NEW a \in U, a # "zero" PROVE a \in Accounts
    <2>1. PICK t \in DOMAIN Transfers : a \in {Transfers[t].from, Transfers[t].to}
        BY <1>3, <1>4
    <2> QED BY <2>1, <1>2, <1>4
<1>5. Accounts = {"sponsor", "reserve", "allocator"} \cup {"alice", "bob", "carol"}
    BY DEF Accounts
<1>6. KnownAccounts = {"sponsor", "reserve", "allocator"} \cup {"alice", "bob", "carol"} \cup (U \ {"zero"})
    BY <1>1, <1>3 DEF KnownAccounts
<1> QED BY <1>4, <1>5, <1>6

(* Once every transfer of the plan is on a block's chain, its balances are  *)
(* the sums of the retained transfers.                                       *)
LEMMA FinalBalances ==
    ASSUME NEW b, AllMoved(b)
    PROVE  TokenStateAt(b).balances = [a \in Accounts |-> Moved(PlanTxs, a)]
<1>1. \A a : BalanceAt(b, a) = Moved(PlanTxs, a)
    BY DEF BalanceAt, Moved, AllMoved
<1>2. TokenStateAt(b).balances = [a \in Accounts |-> BalancesAt(b)[a]]
    BY KnownAccountsFacts DEF TokenStateAt
<1>3. BalancesAt(b) = [a \in Accounts |-> Moved(PlanTxs, a)]
    BY <1>1 DEF BalancesAt
<1> QED BY <1>2, <1>3

(* The rows a capture publishes: ReadDecimals ends pro29 capture. *)
LEMMA DecimalsStep == EvidenceInv /\ ReadDecimals => EvidenceInv'
<1> SUFFICES ASSUME EvidenceInv, ReadDecimals PROVE EvidenceInv'
    OBVIOUS
<1>1. /\ tool.pc = "decimals" /\ tool.pc \in RowPcs /\ tool.pc \in TokenPcs
      /\ UNCHANGED <<blocks, chain, bundle, accepted, anvil, proof, source>>
    BY DEF ReadDecimals, RowPcs, TokenPcs, chainVars, proofVars
<1>2. /\ tool.pc \notin ProverPcs /\ TokenPhase(tool) /\ Len(chain) > 1
      /\ tool.then = Ascending(Numbers)
    BY <1>1, AtToken
<1>3. RowPhase(tool)
    BY <1>1, <1>2 DEF TokenPhase
<1>4. /\ tool.seen \in Seq(1..Len(blocks)) /\ Len(tool.seen) = Len(tool.then)
      /\ IsSeq(tool.rows) /\ Remaining(tool, Len(tool.rows))
      /\ \A k \in 1..Len(tool.rows) : RowOK(tool, k)
      /\ Len(tool.todo) = 0 /\ AllMoved(Last(tool.seen))
    BY <1>1, <1>3 DEF RowPhase, Heights
<1>5. PICK n : n = Len(tool.rows)
    OBVIOUS
<1>6. n \in Nat /\ n >= 1 /\ Len(tool.seen) = n
    <2>1. n \in Nat
        BY <1>4, <1>5, IsSeqFacts
    <2>2. n = Len(tool.then)
        BY <2>1, <1>4, <1>5 DEF Remaining
    <2>3. Len(tool.then) >= 1
        BY <1>2, ThenFacts
    <2> QED BY <2>1, <2>2, <2>3, <1>4
<1>7. ASSUME NEW i \in 1..n
      PROVE  /\ Mined(tool.rows[i].after)
             /\ blocks[tool.rows[i].after].parent = tool.rows[i].before
             /\ i < n => tool.rows[i].after = tool.rows[i + 1].before /\ tool.rows[i].to = tool.rows[i + 1].from
    <2>1. RowOK(tool, i)
        BY <1>4, <1>5, <1>7
    <2>2. tool.seen[i] \in 1..Len(blocks)
        BY <1>4, <1>6, <1>7, ElementOfSeq
    <2>3. ASSUME i < n
          PROVE tool.rows[i].after = tool.rows[i + 1].before /\ tool.rows[i].to = tool.rows[i + 1].from
        <3>1. i + 1 \in 1..n /\ i + 1 > 1 /\ (i + 1) - 1 = i
            BY <2>3, <1>6, <1>7
        <3>2. RowOK(tool, i + 1)
            BY <3>1, <1>4, <1>5
        <3>3. tool.rows[i + 1].before = tool.seen[i]
            BY <3>1, <3>2 DEF RowOK
        <3> QED BY <3>2, <3>3, <2>1 DEF RowOK
    <2> QED BY <2>1, <2>2, <2>3 DEF RowOK, Mined
<1>8. Last(tool.rows).to.balances = [a \in Accounts |-> Moved(PlanTxs, a)]
    <2>1. Last(tool.rows) = tool.rows[n] /\ Last(tool.seen) = tool.seen[n]
        BY <1>5, <1>6 DEF Last
    <2>2. n \in 1..n
        BY <1>6
    <2>3. RowOK(tool, n)
        BY <2>2, <1>4, <1>5
    <2>4. Last(tool.rows).to = TokenStateAt(Last(tool.seen))
        BY <2>1, <2>3 DEF RowOK
    <2> QED BY <2>4, <1>4, FinalBalances
<1>9. RowsPublished(tool.rows)
    BY <1>4, <1>5, <1>7, <1>8 DEF RowsPublished
<1>10. PICK rows : Publish("token", rows) /\ (rows = tool.rows \/ rows = Nothing)
    BY DEF ReadDecimals
<1> QED BY <1>1, <1>2, <1>9, <1>10, PublishKeeps

------------------------------------------------------------------------------
(* A fresh node with its genesis block, and no evidence yet. *)
LEMMA InitEvidence == Init => EvidenceInv
<1> SUFFICES ASSUME Init PROVE EvidenceInv
    OBVIOUS
<1>1. /\ blocks = <<Genesis>> /\ chain = <<1>> /\ bundle = Nothing /\ accepted = {}
      /\ published = [token |-> Nothing, allocator |-> Nothing]
      /\ tool = Idle /\ anvil = NoAnvil /\ proof = "none"
    BY DEF Init, ChainInit, CheckInit
<1>2. Genesis \in BlockType /\ Genesis.number = 0 /\ Genesis.tx = "genesis" /\ Genesis.lineage = {1}
    BY DEF Genesis, BlockType, Txs
<1>3. blocks \in Seq(BlockType) /\ Len(blocks) = 1 /\ blocks[1] = Genesis
    BY <1>1, <1>2
<1>4. chain \in Seq(1..Len(blocks)) /\ Len(chain) = 1 /\ chain[1] = 1
    BY <1>1, <1>3
<1>5. BlocksOK
    BY <1>2, <1>3, <1>4 DEF BlocksOK
<1>6. \A k \in 1..Len(chain) : k = 1
    BY <1>4
<1>7. LinkedAt(1)
    <2>1. {chain[j] : j \in 1..1} = {1}
        BY <1>4
    <2> QED BY <2>1, <1>2, <1>3, <1>4 DEF LinkedAt
<1>8. Linked
    BY <1>6, <1>7 DEF Linked
<1>9. Ordered
    BY <1>2, <1>3, <1>4, <1>6, PlanFacts DEF Ordered
<1>10. World
    BY <1>1, <1>5, <1>8, <1>9 DEF World, ChainOK, BundleOK, AcceptedOK, PublishedOK
<1>11. ProofOK /\ AnvilOK(tool)
    BY <1>1 DEF ProofOK, AnvilOK, NodeReleased, NoAnvil, AnvilType, Idle, ProverSteps
<1> QED BY <1>1, <1>10, <1>11 DEF EvidenceInv, ToolOK

(* Every step of the commands and of the chain. *)
LEMMA NextEvidence == EvidenceInv /\ [Next]_vars => EvidenceInv'
<1>1. EvidenceInv /\ LiveCheckNext => EvidenceInv'
    BY HeadStep, HeaderStep, ParentStep, ReceiptStep, TransactionStep, ReferenceStep, AnchoredStep, LatestStep
    DEF LiveCheckNext
<1>2. EvidenceInv /\ ReceiptsNext => EvidenceInv'
    BY StartReceiptsStep, FinishStep, ObserveStep, StartAnvilStep, PollStep, InstallStep, CallStep,
       AnsweredStep, TerminateStep, AnvilStep
    DEF ReceiptsNext
<1>3. EvidenceInv /\ ReplayNext => EvidenceInv'
    BY StartReplayStep, SendStep, AwaitStep, FetchStep, CaptureHeadStep, RuntimeStep, CreateStep, BroadcastStep,
       WriteRuntimeStep, WriteCaptureStep, WriteCheckStep
    DEF ReplayNext
<1>4. EvidenceInv /\ TokenNext => EvidenceInv'
    BY StartTokenStep, TxBlockStep, TxBlockTxsStep, SweepStep, BeforeBlockStep, BeforeStep, AfterStep, DecimalsStep
    DEF TokenNext
<1>5. EvidenceInv /\ AllocatorNext => EvidenceInv'
    BY StartAllocatorStep, SnapBlockStep, SnapTxsStep, SnapNextStep, SnapReadStep, ProbeStep DEF AllocatorNext
<1>6. EvidenceInv /\ UNCHANGED vars => EvidenceInv'
    <2> SUFFICES ASSUME EvidenceInv, UNCHANGED vars PROVE EvidenceInv'
        OBVIOUS
    <2>1. UNCHANGED <<chainVars, checkVars>> /\ tool' = tool
        BY DEF vars
    <2>2. ToolOK(tool') /\ AnvilOK(tool')
        BY <2>1 DEF EvidenceInv
    <2> QED BY <2>1, <2>2, OnlyTool
<1> QED BY <1>1, <1>2, <1>3, <1>4, <1>5, <1>6, MoveStep, DiesStep DEF Next

(* The evidence of a bundle is of one chain, whatever happens behind the    *)
(* endpoint between the requests of the commands that collect and check it. *)
THEOREM EvidenceInvariant == Spec => []EvidenceInv
BY InitEvidence, NextEvidence, PTL DEF Spec

------------------------------------------------------------------------------
(* A written live check (live-chain-check.json) and every accepted terminal *)
(* observation were made with all retained blocks on one canonical chain.   *)
THEOREM ChecksAnchored == Spec => []AnchoredTogether
<1>1. EvidenceInv => AnchoredTogether
    <2> SUFFICES ASSUME EvidenceInv PROVE AnchoredTogether
        OBVIOUS
    <2>1. bundle # Nothing /\ bundle.check # Nothing => RetainedBlocks \subseteq bundle.check.view
        BY DEF EvidenceInv, World, BundleOK, ReportOK
    <2>2. ASSUME NEW o \in accepted PROVE RetainedBlocks \subseteq blocks[o.id].lineage
        BY <2>2 DEF EvidenceInv, World, AcceptedOK, OneChain
    <2> QED BY <2>1, <2>2 DEF AnchoredTogether
<1> QED BY <1>1, EvidenceInvariant, PTL

(* Published token observations (pro29 capture) follow one chain, block by  *)
(* block, and end with the sums of the retained transfers.                  *)
THEOREM TokenRowsAdjoin == Spec => []RowsAdjoin
<1>1. EvidenceInv => RowsAdjoin
    <2> SUFFICES ASSUME EvidenceInv, published.token # Nothing PROVE RowsAdjoin
        BY DEF RowsAdjoin
    <2>1. PICK rows : rows = published.token
        OBVIOUS
    <2>2. RowsPublished(rows)
        BY <2>1 DEF EvidenceInv, World, PublishedOK
    <2> QED BY <2>1, <2>2 DEF RowsPublished, RowsAdjoin
<1> QED BY <1>1, EvidenceInvariant, PTL

(* Published allocator snapshots (pro30 capture) show the block of their    *)
(* receipt, or its parent.                                                  *)
THEOREM SnapshotBoundaries == Spec => []SnapshotsAtBoundaries
<1>1. EvidenceInv => SnapshotsAtBoundaries
    <2> SUFFICES ASSUME EvidenceInv, published.allocator # Nothing PROVE SnapshotsAtBoundaries
        BY DEF SnapshotsAtBoundaries
    <2>1. SnapshotsOK(published.allocator)
        BY DEF EvidenceInv, World, PublishedOK
    <2> QED BY <2>1 DEF SnapshotsOK, SnapshotOK, AtBoundary, SnapshotsAtBoundaries
<1> QED BY <1>1, EvidenceInvariant, PTL

(* The Groth16 report (verify_groth16_reference) claims no more than the    *)
(* node answered, and only a killed command leaves its node running.        *)
THEOREM ProofVerdict == Spec => []ProofVerdictHonest
<1>1. EvidenceInv => ProofVerdictHonest
    BY DEF EvidenceInv, ProofOK, AnvilOK, NodeReleased, ProofVerdictHonest
<1> QED BY <1>1, EvidenceInvariant, PTL
===============================================================================
