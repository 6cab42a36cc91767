---------------------------- MODULE CaptureReplay -----------------------------
(***************************************************************************)
(* replay_pro28_local_capture.py: the retained signed transactions are     *)
(* sent to a fresh Anvil one by one, the receipts and the code are fetched *)
(* from it, and a bundle is written as a copy of the source in which one   *)
(* file after the other is replaced; it ends with the live check.          *)
(***************************************************************************)
EXTENDS LiveChainCheck

\* The source names blocks of another chain, and its metadata no chain.
SourceBlock(k) == [number |-> k, id |-> 0 - k]
SourceBundle ==
    [receipts |-> [t \in PlanTxs |-> SourceBlock(CHOOSE k \in 1..Len(Plan) : Plan[k] = t)],
     runtime |-> SourceBlock(Len(Plan)),
     capture |-> [genesis |-> Nothing, fetchedAt |-> Len(Plan)],
     check |-> Nothing]

Replayed(tx) == tool.seen[CHOOSE k \in 1..Len(Plan) : Plan[k] = tx]

\* Only on a fresh chain and into a directory that does not exist.
StartReplay ==
    /\ tool = Idle /\ runs < MaxRuns
    /\ bundle = Nothing /\ HeadNumber = 0
    /\ tool' = [Command("replay", NoOptions, <<>>) EXCEPT !.pc = "send", !.todo = Plan]
    /\ runs' = runs + 1
    /\ UNCHANGED <<chainVars, source, bundle, observation, accepted, pin, published, proofVars>>

\* The envelope rebuilt from the retained fields hashes to the retained hash.
EnvelopeMatches(tx) == tx \notin source.broken

SendTransaction ==
    /\ tool.pc = "send"
    /\ Proceed(EnvelopeMatches(Here), [tool EXCEPT !.pc = "await"])
    /\ IF EnvelopeMatches(Here) THEN MineSent(Here) /\ UNCHANGED moves ELSE UNCHANGED chainVars
    /\ UNCHANGED checkVars

\* A transaction that waits for its nonce never gets a receipt.
AwaitReceipt ==
    /\ tool.pc = "await"
    /\ Proceed(OnChain(Here),
               [tool EXCEPT !.pc = "fetch",
                            !.seen = Append(@, [number |-> Height(Location(Here)), id |-> Location(Here)])])
    /\ UNCHANGED <<chainVars, checkVars>>

FetchTransaction ==
    /\ tool.pc = "fetch"
    /\ Proceed(OnChain(Here), IF Rest # <<>> THEN [tool EXCEPT !.pc = "send", !.todo = Rest]
                              ELSE [tool EXCEPT !.pc = "capturehead"])
    /\ UNCHANGED <<chainVars, checkVars>>

ReadCaptureHead ==
    /\ tool.pc = "capturehead"
    /\ tool' = [tool EXCEPT !.pc = "runtime", !.held = ChainHead]
    /\ UNCHANGED <<chainVars, checkVars>>

RuntimeObservations ==
    /\ tool.pc = "runtime"
    /\ Proceed(tool.held \in Canonical /\ \A item \in {"token", "proxy"} : IdentityAt(tool.held, item) = "v1",
               [tool EXCEPT !.pc = "create"])
    /\ UNCHANGED <<chainVars, checkVars>>

CreateOutput ==
    /\ tool.pc = "create"
    /\ bundle' = SourceBundle
    /\ tool' = [tool EXCEPT !.pc = "broadcast", !.todo = GROUPS]
    /\ UNCHANGED <<chainVars, source, observation, accepted, pin, runs, published, proofVars>>

WriteBroadcast ==
    /\ tool.pc = "broadcast"
    /\ bundle' = [bundle EXCEPT !.receipts = [t \in PlanTxs |-> IF GroupOf(t) = Here THEN Replayed(t) ELSE @[t]]]
    /\ tool' = IF Rest # <<>> THEN [tool EXCEPT !.todo = Rest] ELSE [tool EXCEPT !.pc = "writeruntime"]
    /\ UNCHANGED <<chainVars, source, observation, accepted, pin, runs, published, proofVars>>

WriteRuntime ==
    /\ tool.pc = "writeruntime"
    /\ bundle' = [bundle EXCEPT !.runtime = [number |-> Height(tool.held), id |-> tool.held]]
    /\ tool' = [tool EXCEPT !.pc = "writecapture"]
    /\ UNCHANGED <<chainVars, source, observation, accepted, pin, runs, published, proofVars>>

\* The genesis was read before the first transaction; no replacement reaches it.
WriteCapture ==
    /\ tool.pc = "writecapture"
    /\ LET written == [bundle EXCEPT !.capture = [genesis |-> BlockByNumber(0), fetchedAt |-> bundle.runtime.number]]
       IN bundle' = written /\ Proceed(Reconstruct(source, written), [tool EXCEPT !.pc = "head"])
    /\ UNCHANGED <<chainVars, source, observation, accepted, pin, runs, published, proofVars>>

WriteLiveCheck ==
    /\ tool.pc = "writeCheck"
    /\ bundle' = [bundle EXCEPT !.check = tool.report]
    /\ tool' = Idle
    /\ UNCHANGED <<chainVars, source, observation, accepted, pin, runs, published, proofVars>>

ReplayNext ==
    \/ StartReplay \/ SendTransaction \/ AwaitReceipt \/ FetchTransaction \/ ReadCaptureHead
    \/ RuntimeObservations \/ CreateOutput \/ WriteBroadcast \/ WriteRuntime \/ WriteCapture
    \/ WriteLiveCheck
==============================================================================
