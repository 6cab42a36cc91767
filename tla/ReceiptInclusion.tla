--------------------------- MODULE ReceiptInclusion ---------------------------
(***************************************************************************)
(* ethereum_receipt_inclusion.py: one transaction and its receipt are      *)
(* proved against a block header, and the header against a pinned anchor   *)
(* through the headers between them.                                       *)
(*                                                                         *)
(* The parts of a case are taken up in the order in which verify_case      *)
(* checks them; each may be what the chain holds or something else.  The   *)
(* Keccak hash is taken to have no collisions: a header hash is the header *)
(* and a trie node's hash is the node, which in turn is determined by the  *)
(* set of <<nibbles, value>> pairs stored below it.  Tries are those of    *)
(* the yellow paper; transactions and receipts exceed 32 bytes, so a node  *)
(* is always referred to by its hash.                                      *)
(***************************************************************************)
EXTENDS Integers, Sequences, SequencesExt, FiniteSets

CONSTANTS Chain,        \* headers: [parent, number, txs, receipts]
          Signed,       \* transactions: [type, chainId, sender]
          Transactions, \* those that cases may hold
          NoHeader,     \* bytes that decode to no header
          Contexts,     \* trust contexts an operator may pin or be handed
          Times,        \* times at which the verifier runs
          Indices,      \* transaction indices cases are made for
          Receipts,     \* consensus receipts that cases may hold
          MaxAncestry,  \* 8192 in the code
          MaxNodes      \* 128 in the code

VARIABLES stage,    \* the check that comes next, or the result
          trust,    \* the accepted trust context
          block,    \* the header of the case
          tip, depth,  \* last header of the ancestry so far, and its length
          index, tx, receipt,
          walk,     \* the trie proof being followed: expected reference, nibbles left, steps
          honest    \* every part so far is what the chain and an honest prover give (history)

caseVars == <<stage, trust, block, tip, depth, index, tx, receipt, walk, honest>>

Headers == DOMAIN Chain

\* Every header names its parent by hash and has the height above it; what
\* an operator pins is a header.
ASSUME HeaderAssumption ==
    /\ NoHeader \notin Headers
    /\ \A h \in Headers :
         /\ Chain[h].number \in Nat
         /\ Chain[h].parent \in Headers => Chain[h].number = Chain[Chain[h].parent].number + 1
    /\ \A c \in Contexts : c.anchorHeader \in Headers

\* A block holds as many receipts as transactions, each of the type of its
\* transaction, and so few that an index takes two bytes (the gas limit
\* leaves room for some thousands).  No transaction is the empty string.
ASSUME BlockAssumption ==
    /\ \A h \in Headers :
         LET txs == Chain[h].txs
             receipts == Chain[h].receipts
         IN /\ Len(txs) \in Nat /\ Len(txs) <= 65536 /\ Len(receipts) = Len(txs)
            /\ DOMAIN txs = 1..Len(txs) /\ DOMAIN receipts = 1..Len(txs)
            /\ \A i \in 1..Len(txs) :
                 /\ receipts[i] = <<"receipt", Signed[txs[i]].type, receipts[i][3], receipts[i][4], receipts[i][5]>>
                 /\ receipts[i][3] \in {<<"status", 0>>, <<"status", 1>>} \/ receipts[i][3][1] = "root"
    /\ \A i \in Indices : i \in Nat /\ i < 65536
    /\ <<>> \notin Transactions

\* The longest key has six nibbles.
ASSUME LimitAssumption == MaxNodes \in Nat /\ MaxNodes > 6 /\ MaxAncestry \in Nat

NoWalk == [ref |-> {}, remaining |-> <<>>, steps |-> 0]

\* The check ok leads on to the stage next, or the case is invalid.
Decide(ok, next) == stage' = IF ok THEN next ELSE "invalid"

------------------------------------------------------------------------------
(* Nibbles, hex-prefix paths and trie nodes.                                *)

Nibbles(bytes) == [i \in 1..2 * Len(bytes) |->
                     IF i % 2 = 1 THEN bytes[(i + 1) \div 2] \div 16 ELSE bytes[i \div 2] % 16]

RlpIndex(i) ==
    IF i = 0 THEN <<128>> ELSE IF i < 128 THEN <<i>>
    ELSE IF i < 256 THEN <<129, i>> ELSE <<130, i \div 256, i % 256>>

Key(i) == Nibbles(RlpIndex(i))

\* How a trie writes a path: flag nibble 0 to 3, and a zero to even it out.
HexPrefix(path, leaf) ==
    (IF Len(path) % 2 = 1 THEN <<IF leaf THEN 3 ELSE 1>> ELSE <<IF leaf THEN 2 ELSE 0, 0>>) \o path

(* mutant: the padding nibble of an even path is kept *)
CompactPathPadded(ns) == [segment |-> Tail(ns), leaf |-> ns[1] >= 2]

CompactPath(ns) ==
    [segment |-> IF ns[1] % 2 = 1 THEN Tail(ns) ELSE SubSeq(ns, 3, Len(ns)), leaf |-> ns[1] >= 2]

CanonicalPath(ns) == ns # <<>> /\ ns[1] \in 0..3 /\ (ns[1] % 2 = 1 \/ (Len(ns) >= 2 /\ ns[2] = 0))

Entries(list) == {<<Key(i - 1), list[i]>> : i \in DOMAIN list}

Below(pairs, n) == {<<SubSeq(e[1], n + 1, Len(e[1])), e[2]>> : e \in pairs}
Shared(pairs) == LET p == (CHOOSE e \in pairs : TRUE)[1]
                 IN CHOOSE n \in 0..Len(p) :
                      /\ \A e \in pairs : IsPrefix(SubSeq(p, 1, n), e[1])
                      /\ n < Len(p) => \E e \in pairs : ~IsPrefix(SubSeq(p, 1, n + 1), e[1])
IsPair(node) == Cardinality(node) = 1 \/ Shared(node) > 0
PairPath(node) == LET e == CHOOSE e \in node : TRUE
                  IN IF Cardinality(node) = 1 THEN HexPrefix(e[1], TRUE)
                     ELSE HexPrefix(SubSeq(e[1], 1, Shared(node)), FALSE)
ChildAt(node, nibble) == Below({e \in node : e[1] # <<>> /\ e[1][1] = nibble}, 1)

Root(list) == Entries(list)

\* What a prover may offer: the nodes on the way to the indices in question,
\* of either trie of any block, and the same with shorter paths.
NodesOnTheWay ==
    UNION {{Below({e \in Root(list) : IsPrefix(SubSeq(Key(i), 1, n), e[1])}, n) : n \in 0..Len(Key(i))} :
             list \in {Chain[h].txs : h \in Headers} \cup {Chain[h].receipts : h \in Headers},
             i \in Indices}

OfferedNodes == NodesOnTheWay \ {{}}

------------------------------------------------------------------------------
(* The trust context, the header and its ancestry.                          *)

TrustContextValid(context, pinned, now) ==
    /\ context = pinned
    /\ context.wellFormed
    /\ context.chainFamily \in {"ethereum-l1", "op-stack-l2"}
    /\ context.chainId >= 1
    /\ context.observedAt <= context.validUntil
    /\ now \in context.observedAt..context.validUntil
    /\ context.finalityStatus = "unverified"

CheckContext ==
    /\ stage = "context"
    /\ \E context, pinned \in Contexts, now \in Times, wellFormed \in BOOLEAN :
         LET ok == wellFormed /\ TrustContextValid(context, pinned, now)
         IN /\ Decide(ok, "header")
            /\ trust' = context
            /\ honest' = (ok /\ Chain[context.anchorHeader].number = context.anchorNumber)
    /\ UNCHANGED <<block, tip, depth, index, tx, receipt, walk>>

HeaderIdentity(header) == header # NoHeader

Ancestors[h \in Headers] == {h} \cup IF Chain[h].parent \in Headers THEN Ancestors[Chain[h].parent] ELSE {}

CheckHeader ==
    /\ stage = "header"
    /\ \E h \in Headers \cup {NoHeader} :
         /\ Decide(HeaderIdentity(h), "ancestry")
         /\ block' = h /\ tip' = h
         /\ honest' = (honest /\ h \in Ancestors[trust.anchorHeader])
    /\ UNCHANGED <<trust, depth, index, tx, receipt, walk>>

Links(header, previous) ==
    /\ Chain[header].parent = previous
    /\ Chain[header].number = Chain[previous].number + 1

CheckAncestor ==
    /\ stage = "ancestry"
    /\ \E h \in Headers \cup {NoHeader} :
         /\ Decide(depth < MaxAncestry /\ HeaderIdentity(h) /\ Links(h, tip), "ancestry")
         /\ tip' = h /\ depth' = depth + 1
         /\ honest' = (honest /\ tip # trust.anchorHeader /\ h \in Ancestors[trust.anchorHeader]
                              /\ Chain[h].parent = tip /\ depth < MaxAncestry)
    /\ UNCHANGED <<trust, block, index, tx, receipt, walk>>

CheckAnchor ==
    /\ stage = "ancestry"
    /\ Decide(tip = trust.anchorHeader /\ Chain[tip].number = trust.anchorNumber, "transaction")
    /\ honest' = (honest /\ tip = trust.anchorHeader)
    /\ UNCHANGED <<trust, block, tip, depth, index, tx, receipt, walk>>

------------------------------------------------------------------------------
(* The transaction, its sender and the fields of the receipt.               *)

\* Protected legacy and EIP-1559 transactions only.
RecoverTransaction(t, chainId) ==
    /\ Signed[t].type \in {0, 2}
    /\ Signed[t].chainId # 0
    /\ Signed[t].chainId = chainId

Included(h, i) == i < Len(Chain[h].txs)

\* A case with a transaction that is not supported does not count as honest.
CheckTransaction ==
    /\ stage = "transaction"
    /\ \E i \in Indices, t \in Transactions, sender \in {Signed[u].sender : u \in Transactions} :
         /\ Decide(RecoverTransaction(t, trust.chainId) /\ sender = Signed[t].sender, "receipt")
         /\ index' = i /\ tx' = t
         /\ honest' = (/\ honest /\ Included(block, i) /\ t = Chain[block].txs[i + 1]
                       /\ sender = Signed[t].sender /\ RecoverTransaction(t, trust.chainId))
    /\ UNCHANGED <<trust, block, tip, depth, receipt, walk>>

LogsBloom(logs) == UNION {{<<l, n>> : n \in 0..2} : l \in logs}

\* What an RPC node answers for the consensus receipt r at the case's place.
RpcReceipt(r) ==
    [transactionHash |-> tx, transactionIndex |-> index, blockHash |-> block,
     blockNumber |-> Chain[block].number, type |-> r[2], state |-> r[3], gas |-> r[4],
     logsBloom |-> LogsBloom(r[5]), logs |-> r[5]]

\* The same with one field that does not belong there.
Misfits(r) ==
    {[r EXCEPT !.transactionHash = t] : t \in Transactions}
    \cup {[r EXCEPT !.transactionIndex = i] : i \in Indices}
    \cup {[r EXCEPT !.blockHash = h] : h \in Headers}
    \cup {[r EXCEPT !.blockNumber = Chain[h].number] : h \in Headers}
    \cup {[r EXCEPT !.state = <<"absent">>], [r EXCEPT !.type = 200], [r EXCEPT !.logsBloom = {}]}

EncodableReceipt(r) ==
    /\ r.type <= 127
    /\ r.state \in {<<"status", 0>>, <<"status", 1>>} \/ r.state[1] = "root"
    /\ r.logsBloom = LogsBloom(r.logs)

EncodeRpcReceipt(r) == <<"receipt", r.type, r.state, r.gas, r.logs>>

ReceiptFits(r) ==
    /\ r.transactionHash = tx
    /\ r.transactionIndex = index
    /\ r.blockHash = block
    /\ r.blockNumber = Chain[block].number
    /\ EncodableReceipt(r)
    /\ r.type = Signed[tx].type

StartWalk(list) == [ref |-> Root(list), remaining |-> Key(index), steps |-> 0]

CheckReceipt ==
    /\ stage = "receipt"
    /\ \E c \in Receipts : \E r \in {RpcReceipt(c)} \cup Misfits(RpcReceipt(c)) :
         /\ Decide(ReceiptFits(r), "txproof")
         /\ receipt' = EncodeRpcReceipt(r)
         /\ honest' = (honest /\ r = RpcReceipt(c) /\ c = Chain[block].receipts[index + 1])
    /\ walk' = StartWalk(Chain[block].txs)
    /\ UNCHANGED <<trust, block, tip, depth, index, tx>>

------------------------------------------------------------------------------
(* verify_indexed_trie_proof, one node of the proof at a time.              *)

\* The proof arrived at value: it must hold no further node, and the value be
\* the one of the case.
Arrive(value, unused) ==
    IF stage = "txproof"
    THEN /\ Decide(~unused /\ value = tx, "receiptproof")
         /\ walk' = StartWalk(Chain[block].receipts)
    ELSE /\ Decide(~unused /\ value = receipt, "verified")
         /\ walk' = NoWalk

\* The seventeenth item of a branch, empty when no key ends there.
BranchValue(node) == LET here == {e \in node : e[1] = <<>>}
                     IN IF here = {} THEN <<>> ELSE (CHOOSE e \in here : TRUE)[2]

FollowBranch(node, unused) ==
    IF walk.remaining = <<>> THEN Arrive(BranchValue(node), unused)
    ELSE LET child == ChildAt(node, walk.remaining[1])
         IN /\ Decide(child # {}, stage)
            /\ walk' = [ref |-> child, remaining |-> Tail(walk.remaining), steps |-> walk.steps + 1]

(* mutant: a path is compared by its length only *)
PathMatchesByLength(segment) == Len(segment) <= Len(walk.remaining)

PathMatches(segment) == IsPrefix(segment, walk.remaining)

FollowPair(node, unused) ==
    LET path == CompactPath(PairPath(node))
        remaining == SubSeq(walk.remaining, Len(path.segment) + 1, Len(walk.remaining))
    IN IF ~CanonicalPath(PairPath(node)) \/ ~PathMatches(path.segment)
          \/ (path.leaf /\ remaining # <<>>)
       THEN stage' = "invalid" /\ UNCHANGED walk
       ELSE IF path.leaf THEN \E e \in node : Arrive(e[2], unused)
       ELSE /\ Decide(TRUE, stage)
            /\ walk' = [ref |-> Below(node, Len(path.segment)), remaining |-> remaining,
                        steps |-> walk.steps + 1]

\* The proof has no node left, too many, one with another hash, or the one
\* the parent refers to; "unused" are nodes the list still holds after it.
FollowNode ==
    /\ stage \in {"txproof", "receiptproof"}
    /\ \/ /\ stage' = "invalid" /\ honest' = FALSE /\ UNCHANGED walk
       \/ \E node \in OfferedNodes, unused \in BOOLEAN :
            /\ honest' = (honest /\ node = walk.ref /\ ~unused)
            /\ IF node # walk.ref \/ walk.steps >= MaxNodes
               THEN stage' = "invalid" /\ UNCHANGED walk
               ELSE IF IsPair(node) THEN FollowPair(node, unused) ELSE FollowBranch(node, unused)
    /\ UNCHANGED <<trust, block, tip, depth, index, tx, receipt>>

------------------------------------------------------------------------------
CaseInit ==
    /\ stage = "context" /\ honest = TRUE
    /\ trust = (CHOOSE c \in Contexts : TRUE)
    /\ block = NoHeader /\ tip = NoHeader /\ depth = 0
    /\ index = 0 /\ tx = (CHOOSE t \in Transactions : TRUE) /\ receipt = <<>>
    /\ walk = NoWalk

CaseDone == stage \in {"verified", "invalid"} /\ UNCHANGED caseVars

CaseNext ==
    \/ CheckContext \/ CheckHeader \/ CheckAncestor \/ CheckAnchor
    \/ CheckTransaction \/ CheckReceipt \/ FollowNode \/ CaseDone

CaseSpec == CaseInit /\ [][CaseNext]_caseVars

------------------------------------------------------------------------------
\* A case that is reported verified (verify_case) proves what it says: its
\* block is an ancestor of the pinned anchor, and the transaction and the
\* receipt are the ones that block holds at that very index, even when the
\* parts of the case and the nodes of its proofs come from other blocks,
\* from a fork, from the other trie or from another index.
ProvenIsIncluded ==
    stage = "verified" =>
        /\ block \in Ancestors[trust.anchorHeader]
        /\ Included(block, index)
        /\ tx = Chain[block].txs[index + 1]
        /\ receipt = Chain[block].receipts[index + 1]

\* A case made of what the chain holds, whose transaction is of a type the
\* verifier supports (RecoverTransaction), with the proof nodes of its tries in
\* order and nothing else, never fails, for one-node tries, branches, odd and
\* even paths, and keys of one and of two bytes (verify_indexed_trie_proof,
\* _compact_path).
HonestCaseAccepted == honest => stage # "invalid"
==============================================================================
