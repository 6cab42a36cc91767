---------------------------- MODULE LiveChainCheck ----------------------------
(***************************************************************************)
(* verify_live_chain_context and the command line of pro28_receipts.py: a  *)
(* bundle is compared with one live endpoint, request by request, while    *)
(* the chain behind it may move.  Any failed comparison or request ends    *)
(* the command.  The Groth16 reference check runs on an Anvil of its own.  *)
(***************************************************************************)
EXTENDS ReceiptReconstruction

CONSTANTS Sources,         \* retained source bundles the replay may start from
          ReceiptOptions,  \* option sets of pro28_receipts.py
          MaxRuns,         \* bound: commands run
          MaxPolls         \* bound: probes for the verifier's Anvil (100 in the code)

VARIABLES source,       \* what the bundle under examination was copied from
          bundle,       \* its files, Nothing before the replay creates it
          observation,  \* a terminal-state observation, or Nothing
          accepted,     \* observations accepted so far (history)
          pin,          \* report an operator keeps from an inspection
          tool,         \* the running command
          runs,
          published,    \* observation files: of the token and of the allocator
          anvil,        \* the node of the last proof check
          proof         \* status of the running command's proof_report

checkVars == <<source, bundle, observation, accepted, pin, runs, published, anvil, proof>>
proofVars == <<anvil, proof>>

Idle == [job |-> "idle", pc |-> "idle"]

\* A node is "none", "starting", "ready" or "dead"; it has the pinned code or
\* not; said is its answer to the verifier call, orphan that its command was
\* killed (both history, said for as long as its command runs).
NoAnvil == [state |-> "none", pinned |-> FALSE, said |-> "silent", orphan |-> FALSE]

\* The steps of a command that has started a node.
ProverSteps == {"poll", "install", "call", "answered", "terminate"}

NodeLeft == [NoAnvil EXCEPT !.state = anvil.state, !.orphan = anvil.orphan]

CheckInit ==
    /\ source \in Sources
    /\ bundle = Nothing /\ observation = Nothing /\ accepted = {} /\ pin = Nothing
    /\ tool = Idle /\ runs = 0
    /\ published = [token |-> Nothing, allocator |-> Nothing]
    /\ anvil = NoAnvil /\ proof = "none"

\* The command goes on as t, or ends with a failure.
Proceed(ok, t) == tool' = IF ok THEN t ELSE Idle

Rest == Tail(tool.todo)
Here == tool.todo[1]

------------------------------------------------------------------------------
(* verify_live_chain_context.                                               *)

Ascending(S) == [i \in 1..Cardinality(S) |-> CHOOSE n \in S : Cardinality({m \in S : m <= n}) = i]

ObservedNumbers(b) == {b.runtime.number} \cup {b.receipts[t].number : t \in DOMAIN b.receipts}

ExpectedHashes(b, n) ==
    {b.receipts[t].id : t \in {t \in DOMAIN b.receipts : b.receipts[t].number = n}}
    \cup {b.runtime.id : x \in {y \in {1} : n = b.runtime.number}}

\* Only version 2 metadata records the chain; it binds the anchor by number.
LiveEvidence(b) ==
    /\ b.capture.genesis # Nothing
    /\ b.capture.fetchedAt = b.runtime.number

\* The fingerprint of chain id and genesis, which is what names a chain.
SameChain(b) == b.capture.genesis = BlockByNumber(0)

\* Chain id, genesis and head.  The head is read this once.
ReadHead ==
    /\ tool.pc = "head"
    /\ Proceed(/\ LiveEvidence(bundle)
               /\ SameChain(bundle)
               /\ \A n \in ObservedNumbers(bundle) : n <= HeadNumber,
               [tool EXCEPT !.pc = "header", !.latest = HeadNumber,
                            !.todo = Ascending(ObservedNumbers(bundle))])
    /\ UNCHANGED <<chainVars, checkVars>>

ReadHeader ==
    /\ tool.pc = "header"
    /\ Proceed(/\ Cardinality(ExpectedHashes(bundle, Here)) = 1
               /\ Here <= HeadNumber
               /\ BlockByNumber(Here) \in ExpectedHashes(bundle, Here),
               [tool EXCEPT !.pc = "parent"])
    /\ UNCHANGED <<chainVars, checkVars>>

Confirmed(latest) ==
    \A n \in ObservedNumbers(bundle) : latest - n + 1 >= tool.options.confirmations

ReadParent ==
    /\ tool.pc = "parent"
    /\ LET header == CHOOSE h \in ExpectedHashes(bundle, Here) : TRUE
           linked == Here = 0 \/ (Here - 1 <= HeadNumber
                                  /\ blocks[header].parent = BlockByNumber(Here - 1))
       IN IF Rest # <<>>
          THEN Proceed(linked, [tool EXCEPT !.pc = "header", !.todo = Rest])
          ELSE Proceed(linked /\ Confirmed(tool.latest), [tool EXCEPT !.pc = "receipt", !.todo = Plan])
    /\ UNCHANGED <<chainVars, checkVars>>

\* The live receipt, then the transactions of its block, then the transaction.
RetainedAt(tx, b) == bundle.receipts[tx] = [number |-> Height(b), id |-> b]

LiveReceipt ==
    /\ tool.pc = "receipt"
    /\ Proceed(OnChain(Here) /\ RetainedAt(Here, Location(Here)), [tool EXCEPT !.pc = "blocktxs"])
    /\ UNCHANGED <<chainVars, checkVars>>

LiveBlockTxs ==
    /\ tool.pc = "blocktxs"
    /\ LET n == bundle.receipts[Here].number
       IN Proceed(n <= HeadNumber /\ blocks[BlockByNumber(n)].tx = Here, [tool EXCEPT !.pc = "livetx"])
    /\ UNCHANGED <<chainVars, checkVars>>

LiveTransaction ==
    /\ tool.pc = "livetx"
    /\ Proceed(OnChain(Here) /\ Location(Here) = bundle.receipts[Here].id,
               IF Rest # <<>> THEN [tool EXCEPT !.pc = "receipt", !.todo = Rest]
               ELSE [tool EXCEPT !.pc = "reference"])
    /\ UNCHANGED <<chainVars, checkVars>>

RuntimeItems == <<"token", "proxy", "slot", "implementation">>

\* getBlockByHash may also answer for a block that is no longer canonical.
BlockReference ==
    /\ tool.pc = "reference"
    /\ Proceed(bundle.runtime.id \in DOMAIN blocks, [tool EXCEPT !.pc = "anchored", !.todo = RuntimeItems])
    /\ UNCHANGED <<chainVars, checkVars>>

\* The block whose state answers a read: the named one, as long as it is
\* canonical (EIP-1898); 0 when the node refuses.
PinnedBlock(block) == IF block.id \in Canonical THEN block.id ELSE 0

(* mutant: the state is read by block number *)
NumberedBlock(block) == IF block.number <= HeadNumber THEN BlockByNumber(block.number) ELSE 0

AnchorRef(block) == PinnedBlock(block)

AnchoredRead ==
    /\ tool.pc = "anchored"
    /\ LET b == AnchorRef(bundle.runtime)
       IN Proceed(b # 0 /\ IdentityAt(b, Here) = "v1", [tool EXCEPT !.pc = "latest", !.view = Canonical])
    /\ UNCHANGED <<chainVars, checkVars>>

LiveReport ==
    [anchor |-> bundle.runtime, latest |-> tool.latest, anchors |-> ReceiptAnchors(bundle), view |-> tool.view]

\* What each command does once the context check has passed.
AfterLiveCheck == [receipts  |-> IF tool.options.groth16 THEN "prover" ELSE "finish",
                   replay    |-> "writeCheck",
                   token     |-> "txblock",
                   allocator |-> "snapblock"][tool.job]

LatestRead ==
    /\ tool.pc = "latest"
    /\ Proceed(IdentityAt(ChainHead, Here) = "v1",
               IF Rest # <<>> THEN [tool EXCEPT !.pc = "anchored", !.todo = Rest]
               ELSE [tool EXCEPT !.pc = AfterLiveCheck, !.report = LiveReport, !.todo = tool.then])
    /\ UNCHANGED <<chainVars, checkVars>>

\* The process is killed, at any step, or a request fails or the command raises
\* outside the prover's steps, which handle that themselves.  What the command
\* had in memory is lost, and a node it has started goes on running.
CommandDies ==
    /\ tool.pc # "idle"
    /\ tool' = Idle
    /\ anvil' = IF tool.pc \in ProverSteps THEN [NodeLeft EXCEPT !.orphan = TRUE] ELSE NodeLeft
    /\ proof' = "none"
    /\ UNCHANGED <<chainVars, source, bundle, observation, accepted, pin, runs, published>>

LiveCheckNext ==
    \/ ReadHead \/ ReadHeader \/ ReadParent \/ LiveReceipt \/ LiveBlockTxs \/ LiveTransaction
    \/ BlockReference \/ AnchoredRead \/ LatestRead

\* A command about to check the bundle: todo afterwards is "then".
Command(job, options, then) ==
    [job |-> job, pc |-> "head", options |-> options, todo |-> <<>>, then |-> then, latest |-> 0,
     view |-> {}, report |-> Nothing, held |-> 0, polls |-> 0, seen |-> <<>>, before |-> Nothing, rows |-> <<>>]

NoOptions == [rpc |-> TRUE, terminal |-> FALSE, groth16 |-> FALSE, verify |-> FALSE, confirmations |-> 0]

\* --write refuses to overwrite, --verify compares with what was written.
Publish(job, rows) ==
    /\ published' = IF ~tool.options.verify /\ published[job] = Nothing
                    THEN [published EXCEPT ![job] = rows] ELSE published
    /\ tool' = Idle

CanRun == tool = Idle /\ runs < MaxRuns /\ bundle # Nothing

------------------------------------------------------------------------------
(* The command line of pro28_receipts.py.                                   *)

\* The offline part runs before the first request.
StartReceipts ==
    /\ CanRun
    /\ \E options \in ReceiptOptions :
         LET seen == IF options.terminal THEN observation ELSE Nothing
             ok == VerifyReport(source, bundle, seen, IF options.verify THEN pin ELSE Nothing)
             begun == Command("receipts", options, <<>>)
         IN /\ options.terminal => observation # Nothing
            /\ options.verify => pin # Nothing
            /\ Proceed(ok, [begun EXCEPT !.pc = IF options.rpc THEN "head"
                                                ELSE IF options.groth16 THEN "prover" ELSE "finish"])
            /\ accepted' = IF ok /\ seen # Nothing THEN accepted \cup {seen} ELSE accepted
    /\ runs' = runs + 1
    /\ UNCHANGED <<chainVars, source, bundle, observation, pin, published, proofVars>>

\* The reports are written last: the check replaces the retained one, and an
\* operator may keep the digest of what an inspection printed.
FinishReceipts ==
    /\ tool.pc = "finish"
    /\ bundle' = IF tool.report = Nothing THEN bundle ELSE [bundle EXCEPT !.check = tool.report]
    /\ pin' = IF VerificationStatus(IF tool.options.verify THEN "verify" ELSE "inspect") = "inspection_unanchored"
              THEN Report(source, bundle, IF tool.options.terminal THEN observation ELSE Nothing)
              ELSE pin
    /\ tool' = Idle /\ proof' = "none" /\ anvil' = NodeLeft
    /\ UNCHANGED <<chainVars, source, observation, accepted, runs, published>>

\* External: eth_calls at a canonical block, retained as a file.
ObserveTerminalState ==
    /\ tool = Idle /\ bundle # Nothing /\ observation = Nothing
    /\ \E b \in {ChainHead} \cup (Canonical \cap {bundle.runtime.id}) :
         observation' = [number |-> Height(b), id |-> b, balances |-> BalancesAt(b),
                         allocator |-> AllocatorAt(b)]
    /\ UNCHANGED <<chainVars, source, bundle, accepted, pin, tool, runs, published, proofVars>>

------------------------------------------------------------------------------
(* verify_groth16_reference.                                                *)

ProofVars == <<chainVars, source, bundle, observation, accepted, pin, runs, published>>

\* cast or anvil may be missing, or not start.  A node that an earlier command
\* left behind has another port and plays no part.
StartAnvil ==
    /\ tool.pc = "prover"
    /\ \/ anvil' = [NoAnvil EXCEPT !.state = "starting"] /\ tool' = [tool EXCEPT !.pc = "poll"]
          /\ UNCHANGED proof
       \/ proof' = "unsupported" /\ tool' = [tool EXCEPT !.pc = "finish"] /\ UNCHANGED anvil
    /\ UNCHANGED ProofVars

AnvilReady ==
    /\ anvil.state = "starting" /\ anvil' = [anvil EXCEPT !.state = "ready"]
    /\ UNCHANGED <<ProofVars, tool, proof>>

AnvilDies ==
    /\ anvil.state \in {"starting", "ready"} /\ anvil' = [anvil EXCEPT !.state = "dead"]
    /\ UNCHANGED <<ProofVars, tool, proof>>

\* VerificationUnavailable: the command goes on after the finally block.
Unavailable == proof' = "unsupported" /\ tool' = [tool EXCEPT !.pc = "terminate"]

\* EvidenceError: it ends after the finally block, with no report.
Refused == UNCHANGED proof /\ tool' = [tool EXCEPT !.pc = "terminate"]

\* A probe that fails is repeated; the node it reaches must be of chain 31337.
PollAnvil ==
    /\ tool.pc = "poll"
    /\ \/ (anvil.state = "dead" \/ tool.polls = MaxPolls) /\ Unavailable
       \/ /\ anvil.state # "dead" /\ tool.polls < MaxPolls
          /\ tool' = [tool EXCEPT !.polls = @ + 1] /\ UNCHANGED proof
       \/ /\ anvil.state = "ready" /\ tool.polls < MaxPolls
          /\ UNCHANGED proof
          /\ \E next \in {"install", "terminate"} : tool' = [tool EXCEPT !.pc = next]
    /\ UNCHANGED <<ProofVars, anvil>>

(* mutant: the code that was installed is not read back *)
InstallVerifierUnchecked ==
    /\ tool.pc = "install"
    /\ \/ Unavailable /\ UNCHANGED anvil
       \/ /\ anvil.state = "ready"
          /\ \E pinned \in BOOLEAN : anvil' = [anvil EXCEPT !.pinned = pinned]
          /\ tool' = [tool EXCEPT !.pc = "call"] /\ UNCHANGED proof
    /\ UNCHANGED ProofVars

\* Either request may fail with the node alive or dead.  The code read back may
\* not be the code that was sent.
InstallVerifier ==
    /\ tool.pc = "install"
    /\ \/ Unavailable /\ UNCHANGED anvil
       \/ /\ anvil.state = "ready"
          /\ \E pinned \in BOOLEAN :
                /\ anvil' = [anvil EXCEPT !.pinned = pinned]
                /\ IF pinned THEN tool' = [tool EXCEPT !.pc = "call"] /\ UNCHANGED proof ELSE Refused
    /\ UNCHANGED ProofVars

\* External: the pinned code returns nothing for a valid proof only; an account
\* with other code, or none, may do so for any.  Any call may fail.
AnvilAnswers ==
    /\ tool.pc = "call" /\ anvil.state = "ready" /\ anvil.said = "silent"
    /\ \E answer \in {"accepted", "error", "data"} :
          /\ anvil.pinned /\ answer = "accepted" => source.proofValid
          /\ anvil' = [anvil EXCEPT !.said = answer]
    /\ UNCHANGED <<ProofVars, tool, proof>>

\* No answer, a cut connection or a timeout, with the node alive or dead, is no
\* verdict; nor is unexpected data.
CallVerifier ==
    /\ tool.pc = "call"
    /\ \/ Unavailable
       \/ anvil.said = "accepted" /\ proof' = "verified" /\ tool' = [tool EXCEPT !.pc = "terminate"]
       \/ anvil.said = "data" /\ Refused
       \/ anvil.said = "error" /\ tool' = [tool EXCEPT !.pc = "answered"] /\ UNCHANGED proof
    /\ UNCHANGED <<ProofVars, anvil>>

\* An error counts only while the node is still running.
AnsweredError ==
    /\ tool.pc = "answered"
    /\ IF anvil.state = "dead" THEN Unavailable
       ELSE proof' = "not_verified" /\ tool' = [tool EXCEPT !.pc = "terminate"]
    /\ UNCHANGED <<ProofVars, anvil>>

\* The finally block, then the report or exit status 1.
TerminateAnvil ==
    /\ tool.pc = "terminate"
    /\ \/ /\ proof # "none"
          /\ anvil' = [anvil EXCEPT !.state = "none"] /\ tool' = [tool EXCEPT !.pc = "finish"]
       \/ /\ proof = "none"
          /\ anvil' = [NodeLeft EXCEPT !.state = "none"] /\ tool' = Idle
    /\ UNCHANGED <<ProofVars, proof>>

ReceiptsNext ==
    \/ StartReceipts \/ FinishReceipts \/ ObserveTerminalState
    \/ StartAnvil \/ AnvilReady \/ AnvilDies \/ PollAnvil \/ InstallVerifier \/ AnvilAnswers
    \/ CallVerifier \/ AnsweredError \/ TerminateAnvil
==============================================================================
