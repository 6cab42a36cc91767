----------------------------- MODULE LocalChain ------------------------------
(***************************************************************************)
(* The local Anvil node behind the JSON-RPC endpoint of the forensic       *)
(* scripts, modelled from how they use it (the node and the contracts are  *)
(* not part of the repository).  A block is named by its index in blocks   *)
(* (its hash), holds one transaction as automining leaves it, and is never *)
(* mined twice; the canonical chain may be replaced from any height.       *)
(***************************************************************************)
EXTENDS Integers, Sequences, FiniteSets, FiniteSetsExt, SequencesExt

CONSTANTS Nothing,
          MaxMoves   \* bound: replacements of the chain and blocks of others

VARIABLES blocks,   \* every block ever mined
          chain,    \* canonical blocks, by height + 1
          moves

chainVars == <<blocks, chain, moves>>

\* The signed transactions in nonce order; the fillers stand for those of the
\* 41 that neither move tokens nor change the operation.
Plan == <<"mint", "deposit", "bind", "fund", "activate",
          "claim-a", "fill-1", "claim-b", "fill-2", "claim-c">>
PlanTxs == ToSet(Plan)
Foreign == {"transfer", "upgrade"}

Transfer(from, to, amount) == [from |-> from, to |-> to, amount |-> amount]
Transfers == [t \in {"mint", "deposit", "fund", "claim-a", "claim-b", "claim-c", "transfer"} |->
                CASE t = "mint"     -> Transfer("zero", "sponsor", 81)
                  [] t = "deposit"  -> Transfer("sponsor", "reserve", 80)
                  [] t = "fund"     -> Transfer("reserve", "allocator", 70)
                  [] t = "claim-a"  -> Transfer("allocator", "alice", 35)
                  [] t = "claim-b"  -> Transfer("allocator", "bob", 21)
                  [] t = "claim-c"  -> Transfer("allocator", "carol", 14)
                  [] t = "transfer" -> Transfer("sponsor", "reserve", 1)]
Accounts == {"sponsor", "reserve", "allocator", "alice", "bob", "carol"}

Genesis == [number |-> 0, parent |-> 0, tx |-> "genesis", lineage |-> {1}]

ChainInit == blocks = <<Genesis>> /\ chain = <<1>> /\ moves = 0

------------------------------------------------------------------------------
(* What the endpoint answers.                                               *)

HeadNumber == Len(chain) - 1
ChainHead == chain[Len(chain)]
Canonical == ToSet(chain)
Height(b) == blocks[b].number
BlockByNumber(n) == chain[n + 1]

Executed(b) == {blocks[c].tx : c \in blocks[b].lineage}
OnChain(tx) == tx \in Executed(ChainHead)
Location(tx) == CHOOSE b \in Canonical : blocks[b].tx = tx

Delta(tx, a) ==
    IF tx \notin DOMAIN Transfers THEN 0
    ELSE (IF Transfers[tx].to = a THEN Transfers[tx].amount ELSE 0)
       - (IF Transfers[tx].from = a THEN Transfers[tx].amount ELSE 0)

\* Every transaction is at most once on a chain.
SumOfDeltas(txs, a) == MapThenSumSet(LAMBDA tx : Delta(tx, a), txs)
Moved(txs, a) == SumOfDeltas(txs \cap DOMAIN Transfers, a)
BalanceAt(b, a) == Moved(Executed(b), a)
BalancesAt(b) == [a \in Accounts |-> BalanceAt(b, a)]
SupplyAt(b) == 0 - BalanceAt(b, "zero")
TokenDeployed(b) == "mint" \in Executed(b)

\* What getCode and getStorageAt answer for the token, the proxy, its
\* implementation slot and the implementation behind it.
IdentityAt(b, item) ==
    CASE ~TokenDeployed(b) -> "none"
      [] item \in {"slot", "implementation"} /\ "upgrade" \in Executed(b) -> "v2"
      [] OTHER -> "v1"

ClaimAmount == [c \in {"claim-a", "claim-b", "claim-c"} |-> Transfers[c].amount]

AllocatorAfter(executed) ==
    LET consumed == DOMAIN ClaimAmount \cap executed
        claimed == MapThenSumSet(LAMBDA c : ClaimAmount[c], consumed)
        activated == "activate" \in executed
    IN [operation |-> CASE Cardinality(consumed) = 3 -> 5
                        [] consumed # {} -> 4
                        [] activated -> 3
                        [] "fund" \in executed -> 2
                        [] OTHER -> 0,
        claimed |-> claimed,
        count |-> Cardinality(consumed),
        liability |-> IF activated THEN 70 - claimed ELSE 0,
        consumed |-> consumed,
        balance |-> Moved(executed, "allocator")]

AllocatorAt(b) == AllocatorAfter(Executed(b))

------------------------------------------------------------------------------
(* How the chain grows.                                                     *)

\* The blocks of base are followed by one new block for each of txs.
MineOn(base, txs) ==
    LET n == Len(blocks)
        Mined(k) == [number |-> Len(base) + k - 1,
                     parent |-> IF k = 1 THEN Last(base) ELSE n + k - 1,
                     tx |-> txs[k],
                     lineage |-> blocks[Last(base)].lineage \cup (n + 1..n + k)]
    IN /\ blocks' = blocks \o [k \in 1..Len(txs) |-> Mined(k)]
       /\ chain' = base \o [k \in 1..Len(txs) |-> n + k]

\* A transaction whose predecessor is not on the chain waits for its nonce.
MineSent(tx) ==
    LET k == CHOOSE i \in 1..Len(Plan) : Plan[i] = tx
    IN IF k = 1 \/ OnChain(Plan[k - 1]) THEN MineOn(chain, <<tx>>) ELSE UNCHANGED <<blocks, chain>>

MineForeign ==
    /\ moves < MaxMoves
    /\ \E f \in Foreign :
         /\ OnChain("mint") /\ ~OnChain(f)
         /\ MineOn(chain, <<f>>)
    /\ moves' = moves + 1

\* The blocks above height n are replaced: their transactions are mined again,
\* are lost, or follow a block of somebody else.
Reorg ==
    /\ moves < MaxMoves
    /\ \E n \in 0..HeadNumber - 1 :
         LET kept == SubSeq(chain, 1, n + 1)
             dropped == [i \in 1..HeadNumber - n |-> blocks[chain[n + 1 + i]].tx]
         IN \/ MineOn(kept, dropped)
            \/ \E f \in Foreign :
                 /\ "mint" \in Executed(Last(kept)) /\ ~OnChain(f)
                 /\ \/ MineOn(kept, <<f>>)
                    \/ MineOn(kept, <<f>> \o dropped)
    /\ moves' = moves + 1
==============================================================================
