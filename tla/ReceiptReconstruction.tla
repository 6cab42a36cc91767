------------------------ MODULE ReceiptReconstruction ------------------------
(***************************************************************************)
(* What pro28_receipts.py concludes from the retained files alone.  A file *)
(* is the operation it was made for, a digest the file it was computed     *)
(* from, a receipt the block it names.                                     *)
(***************************************************************************)
EXTENDS LocalChain

GROUPS == <<"deployment", "funding", "activation", "withdrawals">>

GroupOf(tx) == CASE tx \in {"mint", "deposit"} -> "deployment"
                 [] tx \in {"bind", "fund"} -> "funding"
                 [] tx = "activate" -> "activation"
                 [] OTHER -> "withdrawals"

\* Claim, beneficiary and amount of each entitlement.
RECIPIENTS == [c \in DOMAIN ClaimAmount |->
                 CASE c = "claim-a" -> [beneficiary |-> "alice", amount |-> 35]
                   [] c = "claim-b" -> [beneficiary |-> "bob", amount |-> 21]
                   [] c = "claim-c" -> [beneficiary |-> "carol", amount |-> 14]]

\* The files that must have been made for one operation, and the pairs of
\* them between which a digest, a root or an identity is compared.
BoundFiles == {"manifest", "witness", "provenance", "fixture", "vector", "capture"}

WitnessBindings == {<<"fixture", "witness">>, <<"provenance", "witness">>}
VectorBindings == {<<"fixture", "vector">>, <<"provenance", "vector">>}
ManifestBindings == {<<"fixture", "manifest">>, <<"provenance", "manifest">>}
CapturedProofBindings == {<<"capture", "fixture">>}
PublicValueBindings == {<<"witness", "vector">>, <<"fixture", "vector">>, <<"fixture", "manifest">>}
PreparedOperationBindings == {<<"witness", "manifest">>}
CaptureBindings == {<<"capture", "manifest">>}

FilesBound(files) ==
    \A p \in UNION {WitnessBindings, VectorBindings, ManifestBindings, CapturedProofBindings,
                    PublicValueBindings, PreparedOperationBindings, CaptureBindings} :
       files[p[1]] = files[p[2]]

\* Receipts and transactions of a broadcast pair one to one, succeeded, and
\* carry logs of their own block; what can be wrong with a file is a defect.
LoadReceipts(source, b) ==
    /\ source.broken = {}
    /\ DOMAIN b.receipts = PlanTxs

\* Code and hashes of each contract are recomputed from the retained bytes.
VerifyRuntimeObservations(source) == source.runtimeIntact

TransferEvents(b) ==
    {[tx |-> t, block |-> b.receipts[t], group |-> GroupOf(t),
      from |-> Transfers[t].from, to |-> Transfers[t].to, amount |-> Transfers[t].amount]
     : t \in {t \in DOMAIN b.receipts : t \in DOMAIN Transfers}}

ExactEvent(events, from, to, amount, group) ==
    {e \in events : e.from = from /\ e.to = to /\ e.amount = amount /\ e.group = group}

\* The deposit, the funding and each payout come from the call that must have
\* caused them; the funding group binds one execution caller.
EconomicTransactionBindings(b, deposit, funding, payout) ==
    /\ deposit.tx = "deposit"
    /\ funding.tx = "fund"
    /\ Cardinality({t \in DOMAIN b.receipts : GroupOf(t) = "funding" /\ t = "bind"}) = 1
    /\ \A c \in DOMAIN RECIPIENTS : payout[c].tx = c

\* The expected transfers are found once each, in their group.
EconomicsReconstructed(b) ==
    LET events == TransferEvents(b)
        deposits == ExactEvent(events, "sponsor", "reserve", 80, "deployment")
        fundings == ExactEvent(events, "reserve", "allocator", 70, "funding")
        payouts == [c \in DOMAIN RECIPIENTS |->
                      ExactEvent(events, "allocator", RECIPIENTS[c].beneficiary,
                                 RECIPIENTS[c].amount, "withdrawals")]
        One(s) == CHOOSE e \in s : TRUE
    IN /\ Cardinality(deposits) = 1 /\ Cardinality(fundings) = 1
       /\ \A c \in DOMAIN RECIPIENTS : Cardinality(payouts[c]) = 1
       /\ EconomicTransactionBindings(b, One(deposits), One(fundings),
                                      [c \in DOMAIN RECIPIENTS |-> One(payouts[c])])

RetainedLogs(source) == source.logsPassed

\* The retained files belong together and tell the funding and the payouts.
\* No block of a receipt is compared with a block of another.
Reconstruct(source, b) ==
    /\ FilesBound(source.files)
    /\ LoadReceipts(source, b)
    /\ VerifyRuntimeObservations(source)
    /\ EconomicsReconstructed(b)
    /\ RetainedLogs(source)

------------------------------------------------------------------------------
(* The terminal observation: eth_calls at one block, captured elsewhere.    *)

LatestReceiptBlock(b) == Max({b.receipts[t].number : t \in DOMAIN b.receipts})

ReceiptAnchors(b) == {<<t, b.receipts[t]>> : t \in DOMAIN b.receipts}

\* The retained live check passed with the observed block as its anchor.
AnchoredByCheck(observation, b) ==
    /\ b.check # Nothing
    /\ b.check.anchor = [number |-> observation.number, id |-> observation.id]
    /\ b.check.latest >= observation.number
    /\ ReceiptAnchors(b) \subseteq b.check.anchors

TerminalScalars(observation) ==
    /\ observation.balances = [a \in Accounts |->
         CASE a = "reserve" -> 10 [] a = "alice" -> 35 [] a = "bob" -> 21 [] a = "carol" -> 14
           [] a = "sponsor" -> observation.balances[a] [] OTHER -> 0]
    /\ observation.allocator.claimed = 70 /\ observation.allocator.count = 3
    /\ observation.allocator.liability = 0

TerminalOperationClosed(observation) == observation.allocator.operation = 5

TerminalStateAccepted(observation, source, b) ==
    /\ source.files["capture"] = source.files["manifest"]
    /\ observation.number >= LatestReceiptBlock(b)
    /\ AnchoredByCheck(observation, b)
    /\ TerminalScalars(observation)
    /\ TerminalOperationClosed(observation)

------------------------------------------------------------------------------
(* The report and the trusted pin.                                          *)

\* The files the report hashes; the live check only with an observation.
ReportedFiles(source, b, observation) ==
    [source |-> source, receipts |-> b.receipts, runtime |-> b.runtime, capture |-> b.capture,
     check |-> IF observation = Nothing THEN Nothing ELSE b.check]

Report(source, b, observation) ==
    [files |-> ReportedFiles(source, b, observation), observation |-> observation]

VerifyReport(source, b, observation, pin) ==
    /\ Reconstruct(source, b)
    /\ observation # Nothing => TerminalStateAccepted(observation, source, b)
    /\ pin # Nothing => Report(source, b, observation) = pin

VerificationStatus(mode) ==
    IF mode = "verify" THEN "verified_within_profile" ELSE "inspection_unanchored"
==============================================================================
