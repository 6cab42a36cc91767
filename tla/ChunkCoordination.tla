-------------------------- MODULE ChunkCoordination --------------------------
(***************************************************************************)
(* The PostgreSQL control plane of distributed benchmark chunks              *)
(* (benchmark/distributed/coordination.clj) for one run.  Every operation is *)
(* one transaction under the run row's lock (shared for claims and           *)
(* completions, exclusive for the terminal transitions) and the chunk row's. *)
(* SKIP LOCKED lets concurrent claims pass over a chunk that is being        *)
(* claimed, so a claim may take any claimable chunk.                         *)
(*                                                                         *)
(* Workers crash, answers of complete-chunk! are lost and calls are repeated *)
(* or arrive late: a worker may complete with any claim it was ever given,   *)
(* and two executions of a chunk may produce different results.              *)
(***************************************************************************)
EXTENDS Integers, FiniteSets

CONSTANTS NoValue,
          Chunks,      \* chunk identities
          Workers,     \* worker processes
          Results,     \* result roots
          MaxFence     \* bound: the lease of a live worker expires only below it

ASSUME CoordinationConstants ==
  /\ MaxFence \in Nat /\ IsFiniteSet(Workers)
  /\ NoValue \notin Results
  /\ NoValue \notin Workers

VARIABLES run,         \* coordination_status of the run row
          chunks,      \* the registered chunk set
          status,      \* chunk rows: status
          fence,       \* chunk rows: fence
          result,      \* chunk rows: accepted result root
          owner,       \* chunk rows: worker_id
          expired,     \* chunk rows: lease_expires_at <= the database clock
          alive,       \* workers that have not crashed
          claims,      \* every claim ever answered: worker, chunk, fence
          acks         \* every acceptance ever answered: chunk, result

rows == <<run, chunks, status, fence, result, owner>>
vars == <<rows, expired, alive, claims, acks>>

Abstract == INSTANCE FencedChunks

Init ==
  /\ Abstract!Init
  /\ owner = [c \in Chunks |-> NoValue]
  /\ expired = [c \in Chunks |-> FALSE]
  /\ alive = Workers /\ claims = {} /\ acks = {}

(* The first registration fixes the chunk set; an exact retry verifies it and
   another set is a conflict, neither of which writes. *)
RegisterRun(s) ==
  /\ run = "absent"
  /\ run' = "dispatching" /\ chunks' = s
  /\ UNCHANGED <<status, fence, result, owner, expired, alive, claims, acks>>

(* mutant: an expired lease is never offered again *)
ClaimableUnexpired(c) == status[c] = "pending"

(* mutant: a completed chunk, which has no lease any more, is offered again *)
ClaimableCompleted(c) == status[c] # "leased" \/ expired[c]

Claimable(c) == status[c] = "pending" \/ (status[c] = "leased" /\ expired[c])

(* mutant: the fence is not advanced when an expired lease is taken over *)
ClaimChunkSameFence(w, c) ==
  /\ run = "dispatching" /\ w \in alive /\ c \in chunks
  /\ Claimable(c)
  /\ status' = [status EXCEPT ![c] = "leased"]
  /\ owner' = [owner EXCEPT ![c] = w]
  /\ fence' = [fence EXCEPT ![c] = IF @ = 0 THEN 1 ELSE @]
  /\ expired' = [expired EXCEPT ![c] = FALSE]
  /\ claims' = claims \cup {[worker |-> w, chunk |-> c, fence |-> fence'[c]]}
  /\ UNCHANGED <<run, chunks, result, alive, acks>>

ClaimChunk(w, c) ==
  /\ run = "dispatching" /\ w \in alive /\ c \in chunks
  /\ Claimable(c)
  /\ status' = [status EXCEPT ![c] = "leased"]
  /\ owner' = [owner EXCEPT ![c] = w]
  /\ fence' = [fence EXCEPT ![c] = @ + 1]
  /\ expired' = [expired EXCEPT ![c] = FALSE]
  /\ claims' = claims \cup {[worker |-> w, chunk |-> c, fence |-> fence[c] + 1]}
  /\ UNCHANGED <<run, chunks, result, alive, acks>>

(* complete-chunk!'s cond for a completion that names the right roots. *)
Accepts(k) ==
  /\ run = "dispatching"
  /\ status[k.chunk] = "leased"
  /\ fence[k.chunk] = k.fence
  /\ owner[k.chunk] = k.worker
  /\ ~expired[k.chunk]

(* mutant: a replay for a completed chunk is acknowledged whatever it carries *)
ReplayAny(k, r) ==
  /\ run # "failed"
  /\ status[k.chunk] = "completed"
  /\ fence[k.chunk] = k.fence

Replay(k, r) ==
  /\ run # "failed"
  /\ status[k.chunk] = "completed"
  /\ fence[k.chunk] = k.fence
  /\ result[k.chunk] = r

CompleteChunk(k, r) ==
  /\ k.worker \in alive
  /\ \/ /\ Accepts(k)
        /\ status' = [status EXCEPT ![k.chunk] = "completed"]
        /\ result' = [result EXCEPT ![k.chunk] = r]
        /\ owner' = [owner EXCEPT ![k.chunk] = NoValue]
        /\ expired' = [expired EXCEPT ![k.chunk] = FALSE]
     \/ /\ Replay(k, r)
        /\ UNCHANGED <<status, result, owner, expired>>
  /\ acks' = acks \cup {[chunk |-> k.chunk, result |-> r]}
  /\ UNCHANGED <<run, chunks, fence, alive, claims>>

AllCompleted == \A c \in chunks : status[c] = "completed"

MarkRunExecutionComplete ==
  /\ run = "dispatching" /\ AllCompleted
  /\ run' = "execution-complete"
  /\ UNCHANGED <<chunks, status, fence, result, owner, expired, alive, claims, acks>>

FailRun ==
  /\ run = "dispatching"
  /\ run' = "failed"
  /\ UNCHANGED <<chunks, status, fence, result, owner, expired, alive, claims, acks>>

(* The database clock passes the end of a lease.  That a live worker's lease
   stops expiring at MaxFence stands for leases that in the end outlast the
   work. *)
LeaseExpires(c) ==
  /\ status[c] = "leased" /\ ~expired[c]
  /\ owner[c] \in alive => fence[c] < MaxFence
  /\ expired' = [expired EXCEPT ![c] = TRUE]
  /\ UNCHANGED <<run, chunks, status, fence, result, owner, alive, claims, acks>>

(* A worker dies with its claims; one worker survives. *)
WorkerCrash(w) ==
  /\ w \in alive /\ alive # {w}
  /\ alive' = alive \ {w}
  /\ UNCHANGED <<rows, expired, claims, acks>>

Work(w) ==
  \/ \E c \in Chunks : ClaimChunk(w, c)
  \/ \E k \in claims, r \in Results : k.worker = w /\ CompleteChunk(k, r)

Next ==
  \/ \E s \in (SUBSET Chunks) \ {{}} : RegisterRun(s)
  \/ \E w \in Workers : Work(w) \/ WorkerCrash(w)
  \/ MarkRunExecutionComplete \/ FailRun
  \/ \E c \in Chunks : LeaseExpires(c)

Spec == Init /\ [][Next]_vars

(* Live workers claim what is claimable and complete the lease they hold; the
   coordinator looks for completion.  Time passes: the lease of a dead worker
   expires. *)
FairSpec ==
  /\ Spec
  /\ \A w \in Workers, c \in Chunks :
       /\ WF_vars(ClaimChunk(w, c))
       /\ WF_vars(\E k \in claims, r \in Results :
                    k.worker = w /\ k.chunk = c /\ Accepts(k) /\ CompleteChunk(k, r))
  /\ WF_vars(MarkRunExecutionComplete)
  /\ \A c \in Chunks : WF_vars(owner[c] \notin alive /\ LeaseExpires(c))

-----------------------------------------------------------------------------
(* The rows hold the statuses the schema and the other operations know, fences
   are naturals and only given claims and results are recorded. *)
TypeOK ==
  /\ run \in {"absent", "dispatching", "execution-complete", "failed"}
  /\ chunks \subseteq Chunks
  /\ status \in [Chunks -> {"pending", "leased", "completed"}]
  /\ fence \in [Chunks -> Nat]
  /\ result \in [Chunks -> Results \cup {NoValue}]
  /\ owner \in [Chunks -> Workers \cup {NoValue}]
  /\ expired \in [Chunks -> BOOLEAN]
  /\ alive \subseteq Workers
  /\ claims \subseteq [worker : Workers, chunk : Chunks, fence : Nat]
  /\ acks \subseteq [chunk : Chunks, result : Results]

(* A fence identifies one lease of one worker: no two workers were ever given
   the same chunk under the same fence, and the row's owner holds the latest. *)
FenceIdentifiesLease ==
  /\ \A j, k \in claims : j.chunk = k.chunk /\ j.fence = k.fence => j.worker = k.worker
  /\ \A k \in claims : k.fence <= fence[k.chunk]
  /\ \A c \in Chunks : status[c] = "leased" =>
       [worker |-> owner[c], chunk |-> c, fence |-> fence[c]] \in claims

(* Everyone who was told that a result was accepted, by an acceptance or by an
   idempotent replay after a lost answer, was told of the one result the run
   keeps: two workers never both believe different results stand. *)
AcknowledgedResultStands ==
  \A a \in acks : status[a.chunk] = "completed" /\ result[a.chunk] = a.result

(* An execution-complete run has an accepted result for every registered
   chunk. *)
CompleteRunIsWhole ==
  run = "execution-complete" =>
    chunks # {} /\ \A c \in chunks : status[c] = "completed" /\ result[c] \in Results

(* Nothing is leased or accepted once the run is terminal, whatever leases are
   outstanding. *)
TerminalRunIsFrozen ==
  [][(run \in {"execution-complete", "failed"}) => UNCHANGED rows]_vars

(* The control plane implements the abstract coordinator. *)
RefinesFencedChunks == Abstract!Spec

(* A registered run ends although workers crash and leases expire: it is
   execution-complete or was failed. *)
RunEnds == run = "dispatching" ~> run \in {"execution-complete", "failed"}
=============================================================================
