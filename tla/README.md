# Verification of the Protocol Robustness Framework

TLA+ models of the framework's stateful core, TLC runs on small instances and
TLAPS proofs for every instance. Paths are relative to the repository root;
`RS` stands for `src/resolver_sim` and `SEW` for
`protocols_src/resolver_sim/protocols/sew`. `PROJECT.json` maps each definition
to the lines it stands for and lists hazards, runs, mutants, findings and
theorems.

## 1. The system

The repository is a Clojure framework that replays protocol scenarios, runs
benchmarks over them (locally or on several workers) and publishes the results
with evidence, and a set of Python commands (`scripts/forensic`, here `FO`) that
seal the evidence of a run, verify it, compare runs of several parties and check
evidence taken from a local Ethereum node. Most of its lines are pure: encodings,
hashes, validation of immutable documents, arithmetic, reports. The parts below
keep state that several threads, processes or parties change, or judge evidence
that several processes wrote.

| Component | State | Operations | Who interleaves | What makes it correct |
|---|---|---|---|---|
| Finalization lane (`RS/execution/finalization_lane.clj`) | one atom per lane: lifecycle, contributor and phase counters, finalizer ticket, outcome | `open`, `begin-contributor!`, `end-contributor!`, `record-executor-dispatch!`, `record-quiesced!`, `close-execution!`, `finalize-lane!` | contributors, executor phases, closers, competing finalizers, the caller's write-fn | closure drains; one finalizer; the recorded outcome is what was written |
| Execution realization (`RS/execution/realization.clj`) | one atom: lifecycle, phase counters, `emitted?` | `freeze!`, `finalize!`, `emit!`, `complete!`, `complete-after-authority!` | executing thread, reconciling thread, sink that throws | nothing is projected that the authority did not publish; one delivery |
| Pro-rata finalization (`RS/pro_rata/finalization.clj`) | none of its own; sequences lane, realization and store | `finalize-application-bound!`, `reconcile-local-projection!` | processes that share the store, crashes | fence read early stays the fence that is checked late |
| Publication store (`RS/pro_rata/postgres_publication_store.clj`, `publication.clj`) | head and version per conflict key, append-only orderings | one serializable transaction with bounded retries | other processes, serialization failures, lost acknowledgements | linear history, every ordering succeeds its predecessor |
| Chunk coordination (`RS/benchmark/distributed/coordination.clj`) | PostgreSQL run and chunk rows: status, fence, owner, lease end, result | `register-run!`, `claim-chunk!`, `complete-chunk!`, `mark-run-execution-complete!`, `fail-run!` | workers that crash, repeat and delay calls; the database clock | a fence names one lease; an acknowledged result stands; a run ends |
| Local coordinator (`RS/benchmark/distributed/local_coordinator.clj`) | one atom of runs, chunks and leases per local key | the same, without `fail-run!` | threads whose `swap!` functions rerun | no lost update; key capacity; answers match the atom |
| Sew escrow protocol (`SEW.clj`, `SEW/lifecycle.clj`, `state_machine.clj`, `resolution.clj`, `accounting.clj`, `types.clj`, `authority.clj`) | the world map: escrows, pending and superseded rulings, custody positions, claims, stakes, capacities | one event per operation, a keeper for timed actions | sender, recipient, challengers, resolvers, governance, keeper, block time | principal paid once to the right party; appeal windows, refusals and levels respected; disputes end |
| Forensic runner (`FO/run.py`, `preflight.py`) | run directories, the lock file, hardened trees | preflight, lock, sealed writes in order, verification, hardening, retention | other runner processes, interrupts, ids that collide | one run per directory; a success is a whole bundle; hardened files stay; every run ends |
| Bundle verification (`FO/verify.py`, `validate.py`, `validate_sew.py`) | none; judges a directory | `verify_run` and its checks, a depth-first cycle search, protocol validation | whatever happened to the directory since it was sealed | exact verdict on evidence graphs; accepted bundles are intact and support themselves |
| Runner mailbox and consensus (`FO/mailbox.py`, `consensus.py`, `signatures.py`, `identity.py`) | a directory of messages, consensus outputs | init, publish, sign, consensus, validate | publishers, coordinators, editors of the directory, processes that die | a certificate rests on distinct runners; a validated vote is what its key holder signed |
| Quorum and reproduction (`FO/quorum.py`, `reproduce.py`) | executions in progress, the checkout | repeated execution, pre-check, comparison, verdict | the checkout is edited, executions time out | a confirmed repetition has no unexplained difference |
| Local-chain evidence (`FO/pro28_receipts.py`, `pro29_token_accounting.py`, `pro30_allocator_state.py`, `replay_pro28_local_capture.py`) | the retained bundle, written reports, a throw-away node | reconstruct, live check, terminal observation, proof check, token and allocator capture, replay | the node mines and reorganises between requests, requests fail, the node dies | what is written was true of one chain |
| Receipt inclusion (`FO/ethereum_receipt_inclusion.py`) | none; judges a case | `verify_case`: trust context, headers, transaction, receipt, two trie walks | parts of a case taken from other blocks, tries and indices | a verified receipt is in its block under the pinned anchor; honest cases pass |
| In-memory publication store, budget permits, result store, session server, resubmission, custody daemon, checkpoint witness locks | see PROJECT.json | | | planned |
| Allocation engine, yield runtime, Sew bonds and slashing | numeric, sequential | | | planned or out of scope, see section 8 |
| Evidence, hashing, reports, CLI, stochastic simulation | none, or I/O | | | not modelled |

Interactions: a benchmark's workers claim and complete chunks; an execution
opens a lane and a realization, runs its executor phases, and publishes through
`finalize-application-bound!`, which elects a finalizer in the lane, commits in
PostgreSQL inside the lane's write-fn, and only then finalizes and emits the
realization. The Sew protocol is a deterministic function of the world map that
the replay engine and the session server apply one event at a time. The forensic
runner seals what an execution exported; `verify.py` and the comparison commands
read what it sealed, and the mailbox carries its roots between parties.

Hard behaviours: compare-and-set loops with side effects, state read before a
step and used after it, transactions whose answer is lost, crashes between a
durable commit and its local projection, leases that expire under a running
worker, timeouts that compete with rulings, and long event sequences of an
escrow; file trees written by one process while another lists, prunes or reads
them; verdicts put together from many requests to a node that moves on in between.

## 2. Modules

| Module | Models | State |
|---|---|---|
| `LaneOps` | the lane record and its operations as functions with guards, used by two state machines | none |
| `FinalizationLane` | one lane under concurrent threads | lane, workers, phases, finalizers, durable writes |
| `PublicationHistory` | abstract: a linear publication history | the history |
| `ProRataFinalization` | processes with lane and realization publishing into one store; composes `LaneOps`, realization, finalization and store | store head and version, per-process program counters and values |
| `FencedChunks` | abstract: what a chunk coordinator promises | run, chunks, statuses, fences, results |
| `ChunkCoordination` | the PostgreSQL coordinator and its workers | rows, expired leases, live workers, every claim and acknowledgement given |
| `LocalCoordinator` | the in-memory coordinator, with `claim-chunk!` split at its compare-and-set | the atom, calls in progress, the clock, answers |
| `EscrowLifecycle` | abstract: what an escrow promises its parties | state and payments |
| `SewDispute` | the Sew protocol | the part of the world map named above |
| `ForensicRun` | concurrent runner processes on one output directory | run directories with the owner of each group of files, lock, process positions, retention lists |
| `EvidenceDag` | building the evidence inventory (`run.py`) and checking it (`verify.py`), the recursive search as a stack of frames | search stack and colours |
| `ForceAuthEvidence` | force-authorisation events as the Sew protocol emits and exports them, and the validator's rules | the event history |
| `BundleVerification` | sealing, one damage, and `verify_run` with all its checks; composes the two above | the bundle, options, phase, report |
| `RunComparison` | summaries, agreement, certificates, field quorums and the classification of reproduction differences, as operators | none |
| `RunnerMailbox` | publishers, coordinators and validation on one mailbox | message files, positions, outputs; history of signatures and readable submissions |
| `RepeatedExecution` | quorum and reproduce on a checkout that changes | jobs, checkout, verdict |
| `ComparisonTools` | composes the two | |
| `LocalChain` | external: the node, its blocks, transactions, reorganisations and state at a block | blocks, head |
| `ReceiptReconstruction` | offline reconstruction and the terminal observation, as operators | none |
| `LiveChainCheck` | the commands of `pro28_receipts.py`, request by request, and the Groth16 check on its own node | command in progress, bundle, reports, the node |
| `CaptureReplay`, `TokenAccounting`, `AllocatorState` | the replay command and the two captures, request by request | the same command record |
| `ChainEvidence` | composes chain and commands, and states what the outputs mean | |
| `ReceiptInclusion` | `verify_case` on a small chain with a fork, its tries built by reference | the case, the walk |
| `MC*` | constants for TLC | |
| `*_proofs` | theorems | |

How a step of the code becomes an action:

* **Atoms.** A `swap!` or compare-and-set loop with a pure function is one
  action. Where the function has side effects that survive a retry
  (`claim-chunk!` of the local coordinator) the read, the application and the
  compare-and-set are three actions. Between `finalize-lane!`'s election and its
  outcome lies the caller's write-fn, so these are separate actions.
* **Transactions.** A PostgreSQL transaction that commits is one action: the
  publication runs at serializable isolation on a locked partition row, and the
  coordinator's operations lock the run row and the chunk row they change. A
  transaction that fails, is retried, or commits without its answer arriving is
  an action of its own.
* **Roots.** A hash root is the value it commits: a head root is the sequence of
  orderings below it. Validation of immutable bodies is one Boolean input.
* **Events.** An event of the Sew protocol maps a world to a world or to an
  error that leaves the world as it was; the error is the action being disabled.
  One action includes everything the handler does, archiving, clearing of
  claims, capacity and finalization included.
* **Files and requests.** A file that is written whole is one step; a file that is
  rewritten in place (a submission being signed) is truncated in between. A
  directory listing and each read of a file in it are separate steps. A JSON-RPC
  request is one step, and the chain may move between any two.
* **Hashes and signatures.** A hash is the content it was taken of, a signature the
  pair of content and key; a trie node's hash is the node.
* **History variables.** `written`, `authored`, `claims`, `acks`, `ruling`,
  `rulings`, `withdrawn`, `signed`, `readable`, `settled`, `asked`, `accepted`, `doomed`
  and the node's `said` and `orphan` record what happened; of these only the claims a worker holds, the rulings bound and
  `withdrawn` appear in guards, where the code or a bound has them.

The Sew snapshot modelled is the one with direct resolvers: no resolution module,
bonds and reversal slashes zero, no yield module, no resolver frozen, protocol
not paused. In it `escalate-dispute` and `challenge-resolution` have the same
guard and effect, except for who may call them. `finalize` also takes the
minimum with the token's total held; that never binds, because a workflow's own
position is a part of the total, so the model keeps the position only.

Constants that are bounds: `MaxLanes`, `MaxPhases` (ProRataFinalization),
`MaxFence` (ChunkCoordination), `MaxClock`, `MaxCalls` (LocalCoordinator),
`MaxTime`, `MaxRulings` (SewDispute), `MaxTime` (ForensicRun), `MaxEvents`
(BundleVerification), `MaxPublications`, `MaxEdits`, `MaxSource`
(ComparisonTools), `MaxMoves`, `MaxRuns` (ChainEvidence). `RecursionLimit` stands
for the interpreter's stack, `MaxPolls` for the hundred polls of the node and
`MaxAncestry` for 8192 headers. The others are parameters of the code.

## 3. Runs that pass

| Run | Instance | What it shows |
|---|---|---|
| `lane` | 2 contributors, 2 phases, 2 finalizers, 2 roots, `java.lang.Error` possible | a closed lane is drained, one finalizer writes, the outcome is truthful, an elected finalizer ends the lane |
| `publication` | 2 processes, one of which opens two lanes, 1 executor phase, 2 attempts, 4 orderings, lost acknowledgements, crashes | authorised projection, one delivery, lane agrees with store, refinement of `PublicationHistory` (linear history, every step a proper successor); a commit in progress ends |
| `chunks` | 2 workers, 2 chunks, 2 results, fences to 3 | unique leases, durable acknowledgements, refinement of `FencedChunks` (terminal runs frozen, completion whole); a run ends although workers crash |
| `local_chunks` | 2 threads with 2 claims each, 2 chunks, 1 key of capacity 1, leases of one tick | key capacity, no completion by a phantom lease, refinement |
| `sew_dispute` | 1 escrow, 3 levels, 3 rulings, window 2, timeout 3, fallback resolvers, auto-cancel | refusal final, appeal window honoured, refinement of `EscrowLifecycle` (paid once, in full, to the right party), every dispute ends |
| `sew_operations` | 2 escrows, 1 level, 2 resolvers of capacity 1, partial releases, custom resolvers, rotations, auto-release, agreed cancels, a capacity change | counters equal the open disputes; parts and remainder add up (the same refinement) |
| `forensic_run` | 2 processes, 2 seconds (ids collide or not), 1 run kept | unmixed directories, whole successes, hardened files stay, every run ends |
| `bundle_verification` | all evidence graphs of 3 nodes with up to 2 parents and each irregular directory, histories of up to 4 events over 2 ids and 2 scenarios, one damage of any kind, each option | exact graph verdict, verdict on honest histories, soundness of what is accepted |
| `comparison_tools` | 2 runners, 3 publications, 1 edit, 1 coordinator with `--threshold 1` or the default, 3 registries; 3 executions, thresholds 2, 3 and the default, 1 source edit, a source tree that cannot be hashed | quorum of distinct runners, settled runners counted, validated votes, repeated results |
| `live_chain` | 3 runs of commands, 1 move of the chain (foreign block or reorganisation), good and damaged source bundles, commands killed at any step, a proof node that dies, hangs, holds other code or answers with an error or data | live check and terminal observation of one chain, adjoining token rows, snapshots at boundaries, honest proof verdict |
| `receipt_inclusion` | six headers with a fork, blocks of 1, 2, 3, 129 and 130 transactions, cases and proof nodes mixed from all of them | verified means included; honest cases of supported transactions are never refused |

Why the bounds are enough. Two processes, workers or threads are the smallest
number that race, and no guard of the code compares more than two of them; the
safety of the lane and of the coordinator is proved for any number. A process
that opens a second lane retries after a failure or a crash, while the other
process races both of its lanes. The four orderings are a first
publication, a proper successor, one whose state does not join and one whose
index skips, which are the branches of the successor rule. Fences to 3 give a
lease, its take-over, and a take-over of that while both old claims are still
used. Three levels of a dispute give a first, a middle and a final round. Sew
times are single ticks apart, so equality, one before and one after each deadline
all occur. Partial releases run at one dispute level, where no ruling is ever
superseded, and `CapacityCounts` is about resolvers whose capacity was not set
again; section 5 says why. Two resolvers alternate up the ladder, so an
escalation always moves the dispute. `sew_dispute` has no outside challenger: a
challenge by a third party differs from one by a party only in whose cooldown it
starts. Two runner processes collide on a directory, and one kept run makes every
pass of retention select. A path longer than `RecursionLimit`, a shared
descendant and a cycle all exist among three files. Four events hold a grant, an
execution, a second one and a revocation. Two runners are a quorum, and a third
publication is a repetition. One move of the chain, between any two
requests of a command, is what it takes to mix two chains in one output; two moves
are not explored, and a block once left is not adopted again. Index 128 is the first
with a two-byte key; blocks of 129 and 130 transactions make the two shapes of its
trie.

Deadlock checking is on where a verdict must always come (`bundle_verification`,
`receipt_inclusion`, with a stutter after the verdict). It is off in the other
runs: lanes, runs and escrows legitimately end, and bounded clocks stop. The
liveness properties cover the systems that must not stop early.

Each property of each passing run has a mutant: an edit of a mapped definition
that a slip in the code could make (a guard dropped, a missing reset, one off, a
missing compare) and under which TLC finds the property violated. Mutants stand
before the definition they change, marked as such.

## 4. Fairness

* `FinalizationLane!FairSpec`: a running thread's write-fn returns and its
  outcome is recorded. Nothing is assumed of contributors or other finalizers.
  `ElectedTerminates` excepts an `Error` of the write-fn, which `catch
  Exception` lets pass and which does leave the lane FINALIZING (section 5).
* `ProRataFinalization!FairSpec`: the executing thread takes steps. The database
  may fail it, its answers may be lost and the process may crash at any step.
* `ChunkCoordination!FairSpec`: live workers claim and complete, the coordinator
  looks for completion, and the lease of a dead worker expires (the database
  clock runs). One worker survives. The lease of a live worker may expire
  `MaxFence` times and then outlasts its work; without that, a lease shorter than
  every computation never completes anything, in the code too.
* `SewDispute!FairSpec`: block time passes, the keeper calls
  `automate-timed-actions` on every workflow, which is what that event is for, and
  somebody sends the public `auto-cancel-disputed` event when it applies; why the
  keeper alone is not enough is in section 5. The rulings of a
  workflow are finite in the model (`MaxRulings`). The code has no such bound: a
  resolver who submits new rulings for ever keeps a dispute open for ever; the
  hazard list says so.
* `ForensicRun`: a process that can take a step takes one; waiting for the lock is
  such a step once the lock is free. Each process makes one run, so a waiter is
  not overtaken for ever. A process may raise, be interrupted or die at any step
  instead; the operating system releases the lock of a dead holder.

## 5. Where text and code differ

One run states what a docstring says and finds a behaviour of the code that does
not do it: `sew_recovery_tie`. The docstring of `eligible-superseded-pending` says
the most recently superseded ruling is recovered; `take-last` turns the vector
into a list, later rulings go to the front, and on equal times the oldest is
recovered. Quotes and lines are in PROJECT.json.

Other differences between text and code that the models follow the code on, and
that limit what the passing runs say. Lane, publication, chunks:

* "On write-fn throw or rejection, transitions to ABORTED — publishes nothing"
  (`finalization_lane.clj:269`): a commit whose acknowledgement is lost throws an
  `SQLException` that is not retried (`postgres_publication_store.clj:54`); the
  lane aborts and its ordering is the head. `LaneAgreesWithStore` therefore speaks
  of aborts by rejection only.
* `reconcile-local-projection!` is "intended for the crash window after durable
  commit" (`pro_rata/finalization.clj:54`), but accepts only the current head:
  once another process has published a successor it refuses.
* A test asserts that a refused claim is unleased (`local_coordinator_test.clj:93`).
  The refusal is set inside the `swap!` function and not cleared
  (`local_coordinator.clj:118`), so a refusal from a failed compare-and-set attempt
  is answered although the retry leased a chunk, until the lease expires.

* `finalize-lane!` catches `Exception`; an `Error` of the write-fn leaves the lane
  FINALIZING with its ticket taken (`finalization_lane.clj:269` and `:308`).

Sew:

* After an escalation and a refusal, the keeper's first priority retries an
  archived ruling that execution refuses (`resolution.clj:1693` does not look at
  the refusal), so it never reaches the auto-cancel that
  `resolution.clj:1283` promises; only a direct event closes the escrow.
* At the sixth superseded ruling the newest is discarded, not the oldest
  (`resolution.clj:1463` and `:1491`), by the same reversal of the list.
* Escalation, challenge and rotation do not ask whether the new resolver is at
  capacity, so `current-active` can exceed `max-concurrent`, which
  `invariants.clj:2135` excludes. `CapacityCounts` is about exactness, not the
  limit.
* `set-resolver-capacity` writes `current-active` zero during open disputes
  (`types.clj:590`, against `invariants.clj:2136`). `CapacityCounts` therefore
  speaks of resolvers whose capacity was not set again.
* Archiving a ruling clears the workflow's principal claims
  (`resolution.clj:798`), which erases a partial release the recipient has not
  withdrawn. `partial-release` is a public function of `lifecycle.clj` that
  `sew.clj` does not dispatch to, so no event reaches this today. This is why
  `sew_operations` has one dispute level.

Forensic runs and bundles:

* `docs/forensic/FORENSIC_HARDENING.md:216` says a change to a field under a
  self-referential hash is detected; the mismatch is a warning (`verify.py:377`)
  which the aggregate (1073–1084) counts as a pass, and the signature is checked
  against the recorded hash. `AcceptedIsIntact` says what remains.
* Removing the optional inventory skips the graph check; EDN nodes that do not
  parse are passed over beside others that do; an attestation with an unknown
  claim-result is not hashed; dropping an execute event only warns.
* The root that `run.py` writes has no protocol descriptor, so its own bundles are
  never validated semantically; a descriptor that is not a map counts as absent,
  against `validate.py:23`.
* Honest histories the Sew validator refuses: pending, re-executed, superseded,
  related claims, revoked after use, only granted, one id in two scenarios
  (`HonestVerdict`). A witness without force authorisations makes it crash.
* Retention runs outside the lock ("doesn't need it", `run.py:978`) and can select
  a run that is still writing, whose sealed writes then recreate the directory;
  `SuccessIsWhole` excepts selected runs. A hardened tree is not removed for an
  ordinary user although "removed old run" is printed.

Mailbox, quorum, reproduction:

* `_deep_get` splits its path at slashes, so a flat Clojure root, whose keys contain
  them, has an empty summary and consensus is inconclusive; its exit code is
  published as 0.
* `deduplicate_submissions` keeps the latest of equivocating messages where its
  docstring (`mailbox.py:355`) excludes them, and where
  `RUNNER_MAILBOX_VALIDATION_SPEC_V1.md:138` prefers the signed one.
* A hash or registry-key mismatch adds no failed check
  (`RUNNER_SIGNATURE_SPEC_V1.md:141`), so a vote signed with a key that is
  registered to another runner is not refused, even where that key was revoked;
  `ValidatedVotes` speaks of the key registered to the voter. A signed certificate always fails
  validation; a disagreement report stays when a later round agrees; concurrent
  coordinators can leave a certificate and a node of different rounds; agreement
  is per field, so different fields may have different quorums; a second `init`
  after a crash in the first fails.
* `consensus.py --threshold` takes any number: with 1, a single runner confirms a
  round, and nothing refuses 0 or less. The default is two, or all participants
  but one if that is more. `CertifiedQuorum` counts distinct runners against the threshold in
  the certificate and says what that is by default.
* A source tree that cannot be hashed has the hash `unknown` (`reproduce.py:58`),
  which is compared like any other: a recorded hash then counts as drifted.
* `quorum.py:138` confirms a field below the threshold when all that have it
  agree. `reproduce.py:41` says snapshot hashes are added as core fields; nothing
  adds them. The source hash recorded is the pre-check's.

Chain evidence:

* Offline reconstruction does not compare the blocks of receipts, nor bind the
  activation group to the operation, so a half-written replay output passes
  `inspect` and only the live check rejects it. Confirmations are counted from a
  head that is read once. The pin of a terminal observation breaks when the live
  check is written again.
* Claims in adjacent blocks are refused by the allocator capture; the token capture
  accepts blocks without transfers that were mined again under other hashes. A
  missing block in one request raises `AttributeError` (`pro28_receipts.py:596`).
  A proof check that is killed leaves its node running, since only the `finally` at
  `pro28_receipts.py:388` stops it; `ProofVerdictHonest` says that this is the only
  way. The node's port is chosen before the node binds it; that another process
  takes it in between is not modelled.
* Receipt inclusion refuses honest cases with transactions of type 1 or 3 and
  unprotected legacy ones; the "remaining" test at a leaf never decides, because
  RLP-encoded indices are prefix-free; nodes shorter than a hash do not occur
  with receipts.

## 6. Proofs

All theorems are checked by TLAPS from the named assumptions of the modules they
are about, for every value of the constants: any number of threads, processes,
chunks, escrows, runners, files and events, any bound on clocks and retries. Every
run's module extends these assumptions, so TLC evaluates them. They say that
bounds and parameters are numbers, that sets whose size the code counts are finite
(threads, chunks, runners, escrows, scenarios, claims, the files of a directory), and
that the value that stands for "nothing" is no value. A few say more: the two parties
of an escrow are different and no resolvers, and it has at most one automatic time; every
dispute level has a resolver; the keys of an identity registry are different, as `_by_key`
keeps one entry per key; the fields an original of a reproduction has are present;
file names are ordered and the parents of an evidence node are a list.

Each safety property is proved through an inductive invariant, the conjunction of
the property and the named facts that make it inductive.

**`FinalizationLane_proofs`.** `LaneTypeOK`, `ClosureDrains`,
`FinalizerCardinality`, `TerminalOutcomeTruthful`, `ClosureMonotone`. The
inductive invariant `LaneInv` adds two facts the runs do not state.
`CountsMatch`: the three counters are the cardinalities of the sets of threads
they count. `close-execution!` compares numbers; that comparing
`executor-backed` with `quiesced` means every dispatched phase has quiesced
follows because the quiesced phases are a subset of the dispatched ones and equal
in number (`SameSizeSubset`). `FinalizerPositions`: a thread is inside the
write only while the lane is FINALIZING, and nothing is written before; this ties
the recorded outcome to the write.

**`ProRataFinalization_proofs`.** `ProjectionAuthorised`, `EmissionOnce`,
`LaneStoreAgreement`, and `ImplementsHistory`, that the store implements
`PublicationHistory`. `FinalizationInv` says of each process: the position of the
executing thread fixes the lifecycle of its lane, and the answer it holds says what
its transaction did (`ThreadPositions`); whatever projects does so for a published
ordering (`Authorised`); the lane never denies a write (`LaneRecordsWrite`); the
right to call the sink is held by at most one of the two threads, and by none once
it was used (`DeliveryToken`). A process only reads the store that others extend, so
one lemma says that a step of one process keeps the facts of the others: published
orderings stay published.

**`ChunkCoordination_proofs`.** `FenceUnique`, `AcknowledgementDurable`,
`CompletionWhole`, `TerminalFrozen`, and `ImplementsFencedChunks`, that the
transactions implement the abstract coordinator. The inductive invariant
`ChunkInv` adds `RowsCarryResults` (a completed row has a result, a registered run
has chunks). The argument for acknowledgements: a completion is accepted only
while the row is leased, so the first acknowledgement of a chunk fixes its
result; replays are acknowledged only if they name that result; no operation
takes a row out of `completed`.

**`LocalCoordinator_proofs`.** `CapacityHeld`, `AcceptanceUnderHeldToken`, and
`LocalImplementsFencedChunks`: of the three steps of a racing claim only the won
compare-and-set is visible, as a lease. `LocalInv` relates what a `swap!` function
computed to the state it was computed from (`SwapReady`): the lease it would write is
of a claimable chunk, below capacity, with the next fence. Time that passed between
the read and the compare-and-set only expires leases, so the capacity computed then
still bounds the usage now.

**`ForensicBundles_proofs`**, the runner. `BundlesUnmixed`, `SuccessWhole`,
`HardenedUntouched`. `ForensicInv` adds that the writing process holds the lock (`LockHeld`), that its
directory holds nothing but its own files and is not hardened (`OwnFiles`), that
retention works on directories it has marked (`VictimsDoomed`), and what a run
whose closing verification passed has on disk until it ends (`SuccessSoFar`).
The lock alone does not suffice, since retention runs outside it; that a
removed directory that a late write recreates is still not mixed rests on `OwnFiles`.

**`SewDispute_proofs`.** `RefusalFinal`, `AppealWindow`, `NoOverpayment`,
`CapacityExact`, `ImplementsLifecycle`. The many events change a workflow in one
of eight ways (created, contested, ruled, noted, released in part, withdrawn from,
handed over, settled); `StepEffect` shows that every step is one of these on one
workflow and leaves the others alone, and the other proofs go by effect. `SewInv`:
a pending ruling belongs to an open dispute below the final round (`PendingOpen`),
an escrow has a resolver (`Assigned`), the custody position is the amount minus what
was released (`CustodyCovers`), and what was paid and is owed is at most that
(`NeverOverpaid`; at most, because archiving erases claims, section 5). For the same
reason `ImplementsLifecycle` assumes `NothingErased`: no partial releases, or one
dispute level, or no appeal window, each of which rules the erasure out; the
first is how `sew.clj` uses the protocol. `CapacityExact` assumes that the configured
capacity is none of those that `set-resolver-capacity` may set, so that the limit tells
whether it was called; the count changes by one with the set of open disputes of
a resolver, and that set is finite.

**`ComparisonTools_proofs`.** `QuorumCertified`, `SettledCounted`, `VotesValidated`,
`ExecutionsSound`, and `ToolsSound` for the composition. `MailboxInv`: a publisher
writes only the file of its own message (`OwnFile`), whose name is new because the
publications are counted (`NewestFile`), so a file at rest stays complete until a
round reads it, and a settled runner has been read or has such a file left
(`RoundCovers`); a certificate agrees with the threshold it was asked for, given or
by default, and each of its fields has that many runners (`QuorumOf`: the votes are
one per runner, so counting votes counts runners); a signature in a file was made by its key's holder, whatever was
done to the body afterwards (`SignaturesMade`). That the latest submission of a runner
exists is a least-element argument on the time left (well-foundedness of the natural
numbers), since the maximum of a set is a choice. `ExecInv` says that the
pre-check comes before the first execution and a conclusion after the last.

**`ForensicBundles_proofs`**, the verifier. `EvidenceSound`, `AcceptedIntact`. The
argument is about the checks: a required check that failed is in the aggregated set,
so an accepted bundle passed each of them, and each lemma says what that means
(`AllPresent`, `ClaimsIntact`, `AttestationsIntact`, `AnchoredAndSigned`,
`SewChecked`, `PassedIsSound`). `BundleInv` keeps the shape of a bundle through
sealing and every damage; nothing else about its past is used.

`DagVerdictHolds` and `HonestVerdictHolds` are the converse too: which untouched
bundles are accepted. They rest on two more invariants.

* `SearchOK`, for the depth-first search over any finite graph in any order. The
  nested calls are a path whose nodes are the grey ones (`StackOK`); a successor a
  call has looked at is finished or being searched (`LookedAt`); the black nodes
  can be numbered along the edges. A grey successor refutes every numbering
  (`BackEdge`, by the first call on the path whose number is too small), and a node that
  turns black is put before all others (`RankAdded`). At the end all nodes are black,
  so `cyclic` is exactly the absence of a numbering (`SearchExact`); when the stack
  overflows, it is the long path (`OverflowPath`). What remains is about counting
  (`DagErrors`): as many edges as parents means no parent twice, as many files as EDN
  files means no others, and the least number belongs to a root.
* `HistoryInv`: records, consumptions and events agree. Every event follows the only
  grant of its authorisation (`GrantedFirst`, `GrantedOnce`), what is consumed was
  executed (`ExecutedTold`), what is recorded as consumed is so for all its claims
  (`ConsumedWhole`), a revoked record has its event and conversely (`RecordsTold`).
  `PassedIsAccepted` and `AcceptedPasses` compare the four groups of checks of
  `validate_sew.py` with what happened.

**`ForensicBundles_proofs`**, inclusion. `VerifiedIsIncluded`, `HonestAccepted`, for
any chain with forks, any lists of up to 65536 transactions and any trie. The tries
are sets of (path, value) pairs, so no recursion is needed: after n nibbles of the
key of an index, the walk stands at the set of entries whose keys share those n nibbles
(`NodeAt`, `OnPath`), and every branch, extension and leaf step keeps it there
(`BranchStep`, `PairStep`). Since keys of different indices differ
(`KeyInjective`: RLP and nibbles lose nothing), the walk can only end at the entry
of its index. `Ancestors`, a recursive function, is shown to be the least set closed
under parent links by a witness (`AncestorsDef`); the assumptions are that headers are
numbered from their parents, that a block has as many receipts as transactions, and that the
limits are numbers.

**`ChainEvidence_proofs`.** `ChecksAnchored`, `TokenRowsAdjoin`, `SnapshotBoundaries`,
`ProofVerdict`; no assumption on the constants. `EvidenceInv` has a part for the
chain (`World`), one for the proof check (`ProofOK`, `AnvilOK`) and one for whatever
command runs (`ToolOK`): what its requests have established so far. The chain moves
between any two requests; what makes two answers fit together is that a replaced
block never becomes canonical again, so that a hash found canonical before and after
was so throughout. A live check therefore has its receipts on one chain at the head
it confirmed (`ReceiptsBelow`, `Settled`, `OneChain`). The sweep of the token capture
finds blocks by number and reads them by hash; `RowPhase` says that each row
follows its predecessor, and `AllMoved` that the retained transfers up to it are
its balances. `AnvilOK` says what is known at each step of the proof check: from
the read-back on, the node holds the pinned code; an error was answered before it is
looked at; no report exists before the end; and a node that runs outside the check is
an orphan. `ProofOK` says that what pinned code accepted is valid, so that the two
verdicts rest on answers and not on the absence of one.

Only model-checked: the liveness properties, since fairness is outside the prover.
They are `ElectedTerminates`, `FinalizationEnds`, `RunEnds`, `DisputesSettle` and
`RunsEnd`. Every safety property that a run checks and that holds is proved.

## 7. Plan

Done: inventory, lane, publication, both coordinators, the dispute core of Sew,
the forensic runner, bundle verification, the comparison commands, chain evidence
and receipt inclusion; the proofs of section 6. The order was set by what would be
worst if wrong: the authoritative publication and its lane first, then the results
it publishes, then the protocol the framework studies.

Next, extending the model:

1. Sew bonds, fraud and reversal slashes and their appeals, resolver freezing, as
   an extension of `SewDispute`; conservation of bonds and stakes.
2. Resubmission: admission reservations, the PostgreSQL chain, receipt
   obligations and workers that retry; an abstract exactly-once receipt log.
3. Durable files: checkpoint witness locks (`endorse-checkpoint!` under
   concurrent endorsers and a crash before the directory sync), the custody
   daemon's mirror and disablement across restarts.
4. In one JVM: `Realization.complete!`, budget permits and `ordered-bounded-mapv`,
   the result store, the in-memory publication store, session stepping.
5. The allocation engine and kernel as operators against a reference definition
   (conservation, order independence, remainder rule) over small inputs.

Proofs: all safety properties of the modules are proved (section 6). A new
component gets its inductive invariant and theorems with its runs.

## 8. Not modelled

* Sew: bonds, fraud and reversal slashes, resolution modules and authenticated
  rulings, force authorisation, overflow resolvers, yield, pause, the circuit
  breaker and frozen resolvers. The timeout slash is modelled on integers; the
  code takes the minimum through doubles, which differs above 2^53.
* Realization: `complete!` and the contents of observations.
* Publication: the validation of bindings and prerequisites, pure functions of
  immutable bodies, is one Boolean; readers see the head only.
* Coordination: claims that name the wrong roots, refused by pure comparison
  before any write, and the re-registration of an identical run.
* Forensic commands: file contents beyond what a check reads, `isolation_checks.py`,
  mailbox announcements, commitments, error reports, export and import, the
  fresh-run and run-dirs modes of consensus, key files, and the size limits of
  inclusion cases. A SIGKILL is the death of a process between two steps.
* The node of the chain models is external; blocks once left are not adopted again,
  the polling of a receipt is one step, and the amounts and filler transactions of
  the 41 retained ones are chosen.
* Components listed as `not_modelled` in PROJECT.json, each with its reason.

## 9. Running

    tlc -workers 2 -config FinalizationLane.cfg MCFinalizationLane
    tlapm FinalizationLane_proofs.tla

PROJECT.json names the module and configuration of every run.
