------------------------- MODULE ProRataFinalization -------------------------
(***************************************************************************)
(* Authoritative finalization of completed pro-rata applications.            *)
(*                                                                         *)
(* Each process runs one execution at a time with its own finalization lane *)
(* (LaneOps) and its own realization (execution/realization.clj), and       *)
(* finishes it with finalize-application-bound! (pro_rata/finalization.clj): *)
(* read the fence, freeze, close the lane, be elected, publish in PostgreSQL *)
(* (pro_rata/postgres_publication_store.clj), record the outcome in the     *)
(* lane, project locally, emit.  A second thread of the process may call     *)
(* reconcile-local-projection! at any time.  The processes share only the    *)
(* store.  A process may crash at any step and lose lane and realization;    *)
(* the acknowledgement of a committed transaction may be lost.               *)
(*                                                                         *)
(* The publication head commits its whole chain of predecessors, so a head   *)
(* root is represented by the sequence of orderings it commits.  An ordering *)
(* stands for the ordering and the application binding published with it.   *)
(***************************************************************************)
EXTENDS LaneOps, Sequences, FiniteSets

CONSTANTS Procs,        \* processes that execute and finalize
          Orderings,    \* identities of the orderings the callers build
          Body,         \* Orderings -> [prev, before, after, index]
          MaxLanes,     \* bound: Procs -> lanes (generations) a process opens
          MaxPhases,    \* bound: executor-backed phases of one execution
          MaxAttempts,  \* max-transaction-attempts
          LostAcks      \* TRUE: a commit acknowledgement can be lost

ASSUME FinalizationConstants ==
  /\ MaxLanes \in [Procs -> Nat] /\ MaxPhases \in Nat /\ MaxAttempts \in Nat \ {0}
  /\ LostAcks \in BOOLEAN
  /\ NoValue \notin Orderings
  /\ Body \in [Orderings -> [prev : Orderings \cup {NoValue}, before : STRING,
                             after : STRING, index : Nat]]

VARIABLES
  log,        \* store: the orderings the authoritative head commits
  version,    \* store: store_version of the partition row
  pc,         \* position of the executing thread
  gen,        \* lanes opened by the process so far
  cand,       \* the ordering this execution wants published
  lane,       \* the lane atom
  real,       \* the realization atom
  fence,      \* expected parent root and store version, read before the lane
  attempts,   \* failed transaction attempts
  reply,      \* what commit! answered
  rpc,        \* position of the reconciling thread
  delivered,  \* observations handed to the sink by this realization
  authored    \* history: this lane's transaction advanced the head

procVars == <<pc, gen, cand, lane, real, fence, attempts, reply, rpc, delivered, authored>>
vars == <<log, version, procVars>>

History == INSTANCE PublicationHistory WITH history <- log

-----------------------------------------------------------------------------
(* The realization atom. *)
OpenRealization ==
  [lifecycle |-> "open", executor_backed |-> 0, quiesced |-> 0, emitted |-> FALSE]

(* finalize!: frozen, and every executor-backed phase quiesced. *)
CanFinalize(r) == r.lifecycle = "frozen" /\ r.executor_backed = r.quiesced

FinalizeRealization(r) == [r EXCEPT !.lifecycle = "finalized"]

(* mutant: emit! does not look at emitted? *)
CanEmitAgain(r) == r.lifecycle = "finalized"

(* emit!'s claim: the CAS of emitted? decides who calls the sink.  A runtime
   profile root and a sink are configured; without either nothing is emitted. *)
CanEmit(r) == r.lifecycle = "finalized" /\ ~r.emitted

NoFence == [parent |-> << >>, version |-> 0]

Init ==
  /\ log = << >> /\ version = 0
  /\ pc = [p \in Procs |-> "idle"]
  /\ gen = [p \in Procs |-> 0]
  /\ cand = [p \in Procs |-> NoValue]
  /\ lane = [p \in Procs |-> OpenLane(0, NoValue, TRUE)]
  /\ real = [p \in Procs |-> OpenRealization]
  /\ fence = [p \in Procs |-> NoFence]
  /\ attempts = [p \in Procs |-> 0]
  /\ reply = [p \in Procs |-> "none"]
  /\ rpc = [p \in Procs |-> "idle"]
  /\ delivered = [p \in Procs |-> 0]
  /\ authored = [p \in Procs |-> FALSE]

Goto(p, from, to) == pc[p] = from /\ pc' = [pc EXCEPT ![p] = to]

-----------------------------------------------------------------------------
(* Execution. *)

(* The caller opens a lane for the head it sees and a fresh realization, and
   builds the ordering to publish; a retry after a failure may carry an
   ordering that is already published. *)
Open(p) ==
  /\ pc[p] \in {"idle", "done", "raised"} /\ rpc[p] = "idle"
  /\ gen[p] < MaxLanes[p]
  /\ pc' = [pc EXCEPT ![p] = "executing"]
  /\ gen' = [gen EXCEPT ![p] = @ + 1]
  /\ \E o \in Orderings : cand' = [cand EXCEPT ![p] = o]
  /\ lane' = [lane EXCEPT ![p] = OpenLane(gen'[p], log, TRUE)]
  /\ real' = [real EXCEPT ![p] = OpenRealization]
  /\ fence' = [fence EXCEPT ![p] = NoFence]
  /\ attempts' = [attempts EXCEPT ![p] = 0]
  /\ reply' = [reply EXCEPT ![p] = "none"]
  /\ delivered' = [delivered EXCEPT ![p] = 0]
  /\ authored' = [authored EXCEPT ![p] = FALSE]
  /\ UNCHANGED <<log, version, rpc>>

(* run-claimant-tasks! on the executing thread: dispatch and quiescence are
   recorded in the lane first and then in the realization.  A pool that does
   not terminate throws before anything is recorded as quiesced. *)
RunPhase(p) ==
  /\ pc[p] = "executing"
  /\ lane[p].executor_backed < MaxPhases
  /\ \E terminated \in BOOLEAN :
       /\ lane' = [lane EXCEPT ![p] = IF terminated THEN RecordQuiesced(RecordDispatch(@))
                                                     ELSE RecordDispatch(@)]
       /\ real' = [real EXCEPT ![p].executor_backed = @ + 1,
                               ![p].quiesced = IF terminated THEN @ + 1 ELSE @]
       /\ pc' = IF terminated THEN pc ELSE [pc EXCEPT ![p] = "raised"]
  /\ UNCHANGED <<log, version, gen, cand, fence, attempts, reply, rpc, delivered, authored>>

-----------------------------------------------------------------------------
(* finalize-application-bound!. *)

(* Commitments and fence are read before the lane is touched; an invalid basis
   or a head that moved since the lane was opened throws. *)
ReadFence(p) ==
  /\ pc[p] = "executing"
  /\ \/ /\ log = lane[p].expected_parent_root
        /\ fence' = [fence EXCEPT ![p] = [parent |-> log, version |-> version]]
        /\ pc' = [pc EXCEPT ![p] = "fenced"]
     \/ \* the basis is invalid, or the head is not the lane's parent
        /\ pc' = [pc EXCEPT ![p] = "raised"]
        /\ UNCHANGED fence
  /\ UNCHANGED <<log, version, gen, cand, lane, real, attempts, reply, rpc, delivered, authored>>

Freeze(p) ==
  /\ Goto(p, "fenced", "frozen")
  /\ real' = [real EXCEPT ![p].lifecycle = "frozen"]
  /\ UNCHANGED <<log, version, gen, cand, lane, fence, attempts, reply, rpc, delivered, authored>>

Close(p) ==
  /\ Goto(p, "frozen", "closed")
  /\ CanClose(lane[p])
  /\ lane' = [lane EXCEPT ![p] = CloseExecution(@)]
  /\ UNCHANGED <<log, version, gen, cand, real, fence, attempts, reply, rpc, delivered, authored>>

ElectFinalizer(p) ==
  /\ Goto(p, "closed", "committing")
  /\ FinalizePreconditions(lane[p], fence[p].parent, TRUE)
  /\ lane' = [lane EXCEPT ![p] = Elect(@, p)]
  /\ UNCHANGED <<log, version, gen, cand, real, fence, attempts, reply, rpc, delivered, authored>>

(* mutant: the successor rule forgets that the state roots must join *)
DecisionNoContinuity(p) ==
  CASE fence[p].parent # log            -> "contention"
    [] fence[p].version # version       -> "contention"
    [] History!LastOf(log) = cand[p]    -> "idempotent"
    [] Body[cand[p]].prev # History!LastOf(log) \/ Body[cand[p]].index # Len(log) + 1
                                        -> "rejected"
    [] OTHER                            -> "committed"

(* One serializable transaction on the locked partition row: the order of the
   checks is the order of the code's cond. *)
Decision(p) ==
  CASE fence[p].parent # log            -> "contention"
    [] fence[p].version # version       -> "contention"
    [] History!LastOf(log) = cand[p]    -> "idempotent"
    [] ~History!Succeeds(log, cand[p])  -> "rejected"
    [] OTHER                            -> "committed"

Commit(p) ==
  /\ IF Decision(p) = "committed"
     THEN /\ log' = Append(log, cand[p])
          /\ version' = version + 1
          /\ authored' = [authored EXCEPT ![p] = TRUE]
     ELSE UNCHANGED <<log, version, authored>>

(* The transaction ran and its answer arrived. *)
Publish(p) ==
  /\ Goto(p, "committing", "answered")
  /\ Commit(p)
  /\ reply' = [reply EXCEPT ![p] = Decision(p)]
  /\ attempts' = [attempts EXCEPT ![p] = 0]
  /\ UNCHANGED <<gen, cand, lane, real, fence, rpc, delivered>>

(* The transaction ran and the connection broke before its answer arrived: an
   SQLException with neither retryable state, so commit! throws. *)
PublishLostAck(p) ==
  /\ LostAcks
  /\ Goto(p, "committing", "answered")
  /\ Commit(p)
  /\ reply' = [reply EXCEPT ![p] = "threw"]
  /\ attempts' = [attempts EXCEPT ![p] = 0]
  /\ UNCHANGED <<gen, cand, lane, real, fence, rpc, delivered>>

(* The transaction rolled back: a serialization failure is retried up to
   max-transaction-attempts, any other error is thrown at once. *)
PublishFails(p) ==
  /\ pc[p] = "committing"
  /\ \E retryable \in BOOLEAN :
       IF retryable /\ attempts[p] + 1 < MaxAttempts
       THEN /\ attempts' = [attempts EXCEPT ![p] = @ + 1]
            /\ UNCHANGED <<pc, reply>>
       ELSE /\ pc' = [pc EXCEPT ![p] = "answered"]
            /\ reply' = [reply EXCEPT ![p] = "threw"]
            /\ attempts' = [attempts EXCEPT ![p] = 0]
  /\ UNCHANGED <<log, version, gen, cand, lane, real, fence, rpc, delivered, authored>>

(* The fence and the answer are locals, out of scope once the outcome is
   recorded. *)
ReturnFromCommit(p) ==
  /\ fence' = [fence EXCEPT ![p] = NoFence]
  /\ reply' = [reply EXCEPT ![p] = "none"]

(* mutant: every answer that is not an exception finalizes the lane *)
RecordOutcomeTruthy(p) ==
  /\ pc[p] = "answered"
  /\ lane' = [lane EXCEPT ![p] = IF reply[p] = "threw" THEN RecordAborted(@, "write-threw")
                                                       ELSE RecordCommitted(@, reply[p])]
  /\ pc' = [pc EXCEPT ![p] = IF reply[p] = "committed" THEN "projecting" ELSE "raised"]
  /\ ReturnFromCommit(p)
  /\ UNCHANGED <<log, version, gen, cand, real, attempts, rpc, delivered, authored>>

(* mutant: the outcome of an idempotent answer is never recorded *)
RecordOutcomeNoIdempotent(p) ==
  /\ pc[p] = "answered" /\ reply[p] # "idempotent"
  /\ lane' = [lane EXCEPT ![p] =
                IF reply[p] = "committed" THEN RecordCommitted(@, reply[p])
                ELSE RecordAborted(@, IF reply[p] = "threw" THEN "write-threw"
                                                            ELSE "write-rejected")]
  /\ pc' = [pc EXCEPT ![p] = IF reply[p] = "committed" THEN "projecting" ELSE "raised"]
  /\ ReturnFromCommit(p)
  /\ UNCHANGED <<log, version, gen, cand, real, attempts, rpc, delivered, authored>>

(* finalize-lane!'s swap!, and how complete-after-authority! goes on. *)
RecordOutcome(p) ==
  /\ pc[p] = "answered"
  /\ lane' = [lane EXCEPT ![p] =
                IF reply[p] \in {"committed", "idempotent"} THEN RecordCommitted(@, reply[p])
                ELSE RecordAborted(@, IF reply[p] = "threw" THEN "write-threw"
                                                            ELSE "write-rejected")]
  /\ pc' = [pc EXCEPT ![p] = CASE reply[p] = "committed"  -> "projecting"
                               [] reply[p] = "idempotent" -> "done"
                               [] OTHER                   -> "raised"]
  /\ ReturnFromCommit(p)
  /\ UNCHANGED <<log, version, gen, cand, real, attempts, rpc, delivered, authored>>

(* finalize! of the realization by the executing thread; a realization that the
   reconciling thread finalized first makes it throw. *)
Project(p) ==
  /\ pc[p] = "projecting"
  /\ IF CanFinalize(real[p])
     THEN /\ real' = [real EXCEPT ![p] = FinalizeRealization(@)]
          /\ pc' = [pc EXCEPT ![p] = "emitting"]
     ELSE /\ pc' = [pc EXCEPT ![p] = "raised"]
          /\ UNCHANGED real
  /\ UNCHANGED <<log, version, gen, cand, lane, fence, attempts, reply, rpc, delivered, authored>>

(* emit!: claim emitted?, and only then call the sink. *)
ClaimEmission(p) ==
  /\ pc[p] = "emitting"
  /\ IF CanEmit(real[p])
     THEN /\ real' = [real EXCEPT ![p].emitted = TRUE]
          /\ pc' = [pc EXCEPT ![p] = "delivering"]
     ELSE /\ pc' = [pc EXCEPT ![p] = "done"]
          /\ UNCHANGED real
  /\ UNCHANGED <<log, version, gen, cand, lane, fence, attempts, reply, rpc, delivered, authored>>

(* The sink is called once, and may throw instead of accepting. *)
Deliver(p) ==
  /\ pc[p] = "delivering"
  /\ \/ delivered' = [delivered EXCEPT ![p] = @ + 1] /\ pc' = [pc EXCEPT ![p] = "done"]
     \/ UNCHANGED delivered /\ pc' = [pc EXCEPT ![p] = "raised"]
  /\ UNCHANGED <<log, version, gen, cand, lane, real, fence, attempts, reply, rpc, authored>>

-----------------------------------------------------------------------------
(* reconcile-local-projection! by another thread of the process. *)

(* mutant: reconciliation takes any authoritative head for its own *)
AuthorityExists(p) == log # << >> /\ cand[p] = cand[p]

(* The authority must be the caller's own ordering, which it is only while that
   ordering is the head. *)
AuthorityMatches(p) == History!LastOf(log) = cand[p]

ReconcileRead(p) ==
  /\ rpc[p] = "idle" /\ cand[p] # NoValue /\ pc[p] # "idle"
  /\ AuthorityMatches(p)
  /\ rpc' = [rpc EXCEPT ![p] = CASE real[p].lifecycle = "frozen"    -> "finalizing"
                                 [] real[p].lifecycle = "finalized" -> "emitting"
                                 [] OTHER                           -> "idle"]
  /\ UNCHANGED <<log, version, pc, gen, cand, lane, real, fence, attempts, reply, delivered, authored>>

ReconcileFinalize(p) ==
  /\ rpc[p] = "finalizing"
  /\ IF CanFinalize(real[p])
     THEN /\ real' = [real EXCEPT ![p] = FinalizeRealization(@)]
          /\ rpc' = [rpc EXCEPT ![p] = "emitting"]
     ELSE /\ rpc' = [rpc EXCEPT ![p] = "idle"]
          /\ UNCHANGED real
  /\ UNCHANGED <<log, version, pc, gen, cand, lane, fence, attempts, reply, delivered, authored>>

ReconcileClaim(p) ==
  /\ rpc[p] = "emitting"
  /\ IF CanEmit(real[p])
     THEN /\ real' = [real EXCEPT ![p].emitted = TRUE]
          /\ rpc' = [rpc EXCEPT ![p] = "delivering"]
     ELSE /\ rpc' = [rpc EXCEPT ![p] = "idle"]
          /\ UNCHANGED real
  /\ UNCHANGED <<log, version, pc, gen, cand, lane, fence, attempts, reply, delivered, authored>>

ReconcileDeliver(p) ==
  /\ rpc[p] = "delivering"
  /\ \/ delivered' = [delivered EXCEPT ![p] = @ + 1]
     \/ UNCHANGED delivered
  /\ rpc' = [rpc EXCEPT ![p] = "idle"]
  /\ UNCHANGED <<log, version, pc, gen, cand, lane, real, fence, attempts, reply, authored>>

(* The process dies: both threads, the lane and the realization are gone; a
   transaction in flight is rolled back. *)
Crash(p) ==
  /\ pc[p] \notin {"idle", "done", "raised"}
  /\ pc' = [pc EXCEPT ![p] = "idle"]
  /\ rpc' = [rpc EXCEPT ![p] = "idle"]
  /\ lane' = [lane EXCEPT ![p] = OpenLane(0, NoValue, TRUE)]
  /\ real' = [real EXCEPT ![p] = OpenRealization]
  /\ cand' = [cand EXCEPT ![p] = NoValue]
  /\ delivered' = [delivered EXCEPT ![p] = 0]
  /\ authored' = [authored EXCEPT ![p] = FALSE]
  /\ fence' = [fence EXCEPT ![p] = NoFence]
  /\ attempts' = [attempts EXCEPT ![p] = 0]
  /\ reply' = [reply EXCEPT ![p] = "none"]
  /\ UNCHANGED <<log, version, gen>>

Execute(p) == Open(p) \/ RunPhase(p) \/ ReadFence(p)

Finalize(p) ==
  \/ Freeze(p) \/ Close(p) \/ ElectFinalizer(p)
  \/ Publish(p) \/ PublishLostAck(p) \/ PublishFails(p)
  \/ RecordOutcome(p) \/ Project(p) \/ ClaimEmission(p) \/ Deliver(p)

Reconcile(p) ==
  ReconcileRead(p) \/ ReconcileFinalize(p) \/ ReconcileClaim(p) \/ ReconcileDeliver(p)

Next == \E p \in Procs : Execute(p) \/ Finalize(p) \/ Reconcile(p) \/ Crash(p)

Spec == Init /\ [][Next]_vars

(* The executing thread keeps running, and so do the retries of the
   transaction; nothing is assumed of the environment: the answer may be lost
   and the process may crash. *)
FairSpec == Spec /\ \A p \in Procs : WF_vars(Finalize(p))

-----------------------------------------------------------------------------
Published == {log[i] : i \in DOMAIN log}

(* complete-after-authority! and reconcile-local-projection! project locally
   only what is durable: a finalized or emitted realization belongs to an
   ordering that is in the authoritative history, even if its lane aborted. *)
ProjectionIsAuthorised ==
  \A p \in Procs :
    real[p].lifecycle = "finalized" \/ real[p].emitted \/ delivered[p] > 0 =>
      cand[p] \in Published

(* emit! delivers an observation at most once per realization although the
   executing and the reconciling thread may both reach it. *)
DeliveredOnce == \A p \in Procs : delivered[p] <= 1

(* The lane's terminal state agrees with the store: FINALIZED only for a
   published ordering, ABORTED by rejection only if this lane wrote nothing. *)
LaneAgreesWithStore ==
  \A p \in Procs :
    /\ lane[p].lifecycle = "finalized" => cand[p] \in Published
    /\ lane[p].lifecycle = "aborted" /\ lane[p].abort_reason = "write-rejected" => ~authored[p]
    /\ authored[p] => lane[p].lifecycle \in {"finalizing"} \cup TerminalLaneStates

(* The store of this system implements the abstract publication history. *)
RefinesHistory == History!Spec

(* An elected finalization ends: the bounded retries stop, the outcome is
   recorded and the local projection is done or reported as failed, unless the
   process crashes. *)
FinalizationEnds ==
  \A p \in Procs : pc[p] = "committing" ~> pc[p] \in {"idle", "done", "raised"}

=============================================================================
