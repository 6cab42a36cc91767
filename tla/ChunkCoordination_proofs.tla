---------------------- MODULE ChunkCoordination_proofs ----------------------
(***************************************************************************)
(* Proofs about ChunkCoordination for any numbers of workers, chunks and     *)
(* results, and any bound on live expiries.  The inductive invariant adds to *)
(* the checked ones that a completed row carries a result and that a         *)
(* registered run has chunks.                                                *)
(***************************************************************************)
EXTENDS ChunkCoordination, TLAPS

RowsCarryResults ==
  /\ \A c \in Chunks : status[c] = "completed" => result[c] \in Results
  /\ run # "absent" => chunks # {}

ChunkInv ==
  /\ TypeOK
  /\ FenceIdentifiesLease
  /\ AcknowledgedResultStands
  /\ CompleteRunIsWhole
  /\ RowsCarryResults

(* Before registration there are no rows, claims or acknowledgements. *)
LEMMA ChunkInit == Init => ChunkInv
  BY CoordinationConstants
  DEF Init, Abstract!Init, ChunkInv, TypeOK, FenceIdentifiesLease,
      AcknowledgedResultStands, CompleteRunIsWhole, RowsCarryResults

(* Every operation keeps the type of the rows and of the messages. *)
LEMMA TypeStep == TypeOK /\ [Next]_vars => TypeOK'
<1> SUFFICES ASSUME TypeOK, [Next]_vars PROVE TypeOK'
  OBVIOUS
<1> USE CoordinationConstants DEF TypeOK
<1>1. ASSUME NEW s \in (SUBSET Chunks) \ {{}}, RegisterRun(s) PROVE TypeOK'
  BY <1>1 DEF RegisterRun
<1>2. ASSUME NEW w \in Workers, NEW c \in Chunks, ClaimChunk(w, c) PROVE TypeOK'
  <2>1. fence[c] + 1 \in Nat
    OBVIOUS
  <2>2. [worker |-> w, chunk |-> c, fence |-> fence[c] + 1]
          \in [worker : Workers, chunk : Chunks, fence : Nat]
    BY <2>1
  <2> QED
    BY <1>2, <2>1, <2>2 DEF ClaimChunk
<1>3. ASSUME NEW k \in claims, NEW r \in Results, CompleteChunk(k, r) PROVE TypeOK'
  <2>1. k.chunk \in Chunks
    OBVIOUS
  <2>2. [chunk |-> k.chunk, result |-> r] \in [chunk : Chunks, result : Results]
    BY <2>1
  <2> QED
    BY <1>3, <2>1, <2>2 DEF CompleteChunk
<1>4. ASSUME NEW w \in Workers, WorkerCrash(w) PROVE TypeOK'
  BY <1>4 DEF WorkerCrash, rows
<1>5. ASSUME MarkRunExecutionComplete \/ FailRun PROVE TypeOK'
  BY <1>5 DEF MarkRunExecutionComplete, FailRun
<1>6. ASSUME NEW c \in Chunks, LeaseExpires(c) PROVE TypeOK'
  BY <1>6 DEF LeaseExpires
<1>7. ASSUME UNCHANGED vars PROVE TypeOK'
  BY <1>7 DEF vars, rows
<1> QED
  BY <1>1, <1>2, <1>3, <1>4, <1>5, <1>6, <1>7 DEF Next, Work

(* A fence is given out once: a claim takes the successor of the row's fence,
   which no earlier claim exceeds. *)
LEMMA FenceStep == ChunkInv /\ [Next]_vars => FenceIdentifiesLease'
<1> SUFFICES ASSUME ChunkInv, [Next]_vars PROVE FenceIdentifiesLease'
  OBVIOUS
<1> USE DEF FenceIdentifiesLease
<1>0. TypeOK /\ FenceIdentifiesLease
  BY DEF ChunkInv
<1>1. ASSUME NEW s \in (SUBSET Chunks) \ {{}}, RegisterRun(s) PROVE FenceIdentifiesLease'
  BY <1>0, <1>1 DEF RegisterRun
<1>2. ASSUME NEW w \in Workers, NEW c \in Chunks, ClaimChunk(w, c)
      PROVE  FenceIdentifiesLease'
  <2> DEFINE new == [worker |-> w, chunk |-> c, fence |-> fence[c] + 1]
  <2>1. /\ claims' = claims \cup {new} /\ owner' = [owner EXCEPT ![c] = w]
        /\ fence' = [fence EXCEPT ![c] = @ + 1]
        /\ status' = [status EXCEPT ![c] = "leased"]
    BY <1>2 DEF ClaimChunk
  <2>2. \A k \in claims : k.chunk \in Chunks /\ k.fence \in Nat /\ k.fence <= fence[k.chunk]
    BY <1>0 DEF TypeOK
  <2>3. fence \in [Chunks -> Nat] /\ owner \in [Chunks -> Workers \cup {NoValue}]
          /\ status \in [Chunks -> {"pending", "leased", "completed"}]
    BY <1>0 DEF TypeOK
  <2>4. \A k \in claims : ~(k.chunk = c /\ k.fence = fence[c] + 1)
    BY <2>2, <2>3
  <2>5. \A j, k \in claims' : j.chunk = k.chunk /\ j.fence = k.fence => j.worker = k.worker
    BY <1>0, <2>1, <2>4
  <2>6. \A k \in claims' : k.fence <= fence'[k.chunk]
    <3> SUFFICES ASSUME NEW k \in claims' PROVE k.fence <= fence'[k.chunk]
      OBVIOUS
    <3>1. CASE k \in claims
      <4>1. k.chunk \in Chunks /\ k.fence \in Nat /\ k.fence <= fence[k.chunk]
        BY <2>2, <3>1
      <4>2. fence'[k.chunk] = fence[k.chunk] \/ fence'[k.chunk] = fence[k.chunk] + 1
        BY <2>1, <2>3, <4>1
      <4> QED
        BY <2>3, <4>1, <4>2
    <3>2. CASE k = new
      BY <2>1, <2>3, <3>2
    <3> QED
      BY <2>1, <3>1, <3>2
  <2>7. ASSUME NEW d \in Chunks, status'[d] = "leased"
        PROVE  [worker |-> owner'[d], chunk |-> d, fence |-> fence'[d]] \in claims'
    <3>1. CASE d = c
      BY <2>1, <2>3, <3>1
    <3>2. CASE d # c
      BY <1>0, <2>1, <2>3, <2>7, <3>2
    <3> QED
      BY <3>1, <3>2
  <2> QED
    BY <2>5, <2>6, <2>7
<1>3. ASSUME NEW k \in claims, NEW r \in Results, CompleteChunk(k, r)
      PROVE  FenceIdentifiesLease'
  <2>1. UNCHANGED <<fence, claims>>
    BY <1>3 DEF CompleteChunk
  <2>2. \A c \in Chunks : status'[c] = "leased" => status[c] = "leased" /\ owner'[c] = owner[c]
    BY <1>0, <1>3 DEF CompleteChunk, TypeOK
  <2> QED
    BY <1>0, <2>1, <2>2
<1>4. ASSUME NEW w \in Workers, WorkerCrash(w) PROVE FenceIdentifiesLease'
  BY <1>0, <1>4 DEF WorkerCrash, rows
<1>5. ASSUME MarkRunExecutionComplete \/ FailRun PROVE FenceIdentifiesLease'
  BY <1>0, <1>5 DEF MarkRunExecutionComplete, FailRun
<1>6. ASSUME NEW c \in Chunks, LeaseExpires(c) PROVE FenceIdentifiesLease'
  BY <1>0, <1>6 DEF LeaseExpires
<1>7. ASSUME UNCHANGED vars PROVE FenceIdentifiesLease'
  BY <1>0, <1>7 DEF vars, rows
<1> QED
  BY <1>1, <1>2, <1>3, <1>4, <1>5, <1>6, <1>7 DEF Next, Work

(* A completed row is never claimed again and takes no second result, so what
   was acknowledged stands and a complete run stays whole. *)
LEMMA ResultStep ==
  ChunkInv /\ [Next]_vars =>
    AcknowledgedResultStands' /\ CompleteRunIsWhole' /\ RowsCarryResults'
<1> SUFFICES ASSUME ChunkInv, [Next]_vars
             PROVE  AcknowledgedResultStands' /\ CompleteRunIsWhole' /\ RowsCarryResults'
  OBVIOUS
<1> DEFINE Goal == AcknowledgedResultStands' /\ CompleteRunIsWhole' /\ RowsCarryResults'
<1> USE DEF AcknowledgedResultStands, CompleteRunIsWhole, RowsCarryResults
<1>0. TypeOK /\ AcknowledgedResultStands /\ CompleteRunIsWhole /\ RowsCarryResults
  BY DEF ChunkInv
<1>1. ASSUME NEW s \in (SUBSET Chunks) \ {{}}, RegisterRun(s) PROVE Goal
  BY <1>0, <1>1 DEF RegisterRun
<1>2. ASSUME NEW w \in Workers, NEW c \in Chunks, ClaimChunk(w, c) PROVE Goal
  <2>1. status[c] # "completed" /\ run = "dispatching" /\ UNCHANGED <<run, chunks, result, acks>>
    BY <1>2 DEF ClaimChunk, Claimable
  <2>2. \A d \in Chunks : status[d] = "completed" <=> status'[d] = "completed"
    BY <1>0, <1>2, <2>1 DEF ClaimChunk, TypeOK
  <2>3. \A a \in acks : a.chunk \in Chunks
    BY <1>0 DEF TypeOK
  <2> QED
    BY <1>0, <2>1, <2>2, <2>3
<1>3. ASSUME NEW k \in claims, NEW r \in Results, CompleteChunk(k, r) PROVE Goal
  <2>1. /\ k.chunk \in Chunks /\ \A a \in acks : a.chunk \in Chunks
        /\ status \in [Chunks -> {"pending", "leased", "completed"}]
        /\ result \in [Chunks -> Results \cup {NoValue}] /\ chunks \subseteq Chunks
    BY <1>0 DEF TypeOK
  <2>2. acks' = acks \cup {[chunk |-> k.chunk, result |-> r]} /\ UNCHANGED <<run, chunks>>
    BY <1>3 DEF CompleteChunk
  <2>3. CASE Accepts(k)
    <3>1. /\ status[k.chunk] # "completed" /\ run = "dispatching"
      BY <2>3 DEF Accepts
    <3>2. /\ status' = [status EXCEPT ![k.chunk] = "completed"]
          /\ result' = [result EXCEPT ![k.chunk] = r]
      BY <1>3, <2>3 DEF CompleteChunk, Accepts, Replay
    <3>3. \A a \in acks : a.chunk # k.chunk
      BY <1>0, <3>1
    <3>4. AcknowledgedResultStands'
      BY <1>0, <2>1, <2>2, <3>2, <3>3
    <3> QED
      BY <1>0, <2>1, <2>2, <3>1, <3>2, <3>4
  <2>4. CASE Replay(k, r)
    <3>1. UNCHANGED <<status, result>>
      BY <1>3, <2>4 DEF CompleteChunk, Accepts, Replay
    <3> QED
      BY <1>0, <2>1, <2>2, <2>4, <3>1 DEF Replay
  <2> QED
    BY <1>3, <2>3, <2>4 DEF CompleteChunk
<1>4. ASSUME NEW w \in Workers, WorkerCrash(w) PROVE Goal
  BY <1>0, <1>4 DEF WorkerCrash, rows
<1>5. ASSUME MarkRunExecutionComplete PROVE Goal
  BY <1>0, <1>5 DEF MarkRunExecutionComplete, AllCompleted, TypeOK
<1>6. ASSUME FailRun PROVE Goal
  BY <1>0, <1>6 DEF FailRun
<1>7. ASSUME NEW c \in Chunks, LeaseExpires(c) PROVE Goal
  BY <1>0, <1>7 DEF LeaseExpires
<1>8. ASSUME UNCHANGED vars PROVE Goal
  BY <1>0, <1>8 DEF vars, rows
<1> QED
  BY <1>1, <1>2, <1>3, <1>4, <1>5, <1>6, <1>7, <1>8 DEF Next, Work

(* The inductive invariant of the control plane. *)
THEOREM ChunkInvariant == Spec => []ChunkInv
<1>1. ChunkInv /\ [Next]_vars => ChunkInv'
  BY TypeStep, FenceStep, ResultStep DEF ChunkInv
<1> QED
  BY ChunkInit, <1>1, PTL DEF Spec

(* No two workers ever hold the same fence of a chunk, however often leases
   expire and are taken over. *)
THEOREM FenceUnique == Spec => []FenceIdentifiesLease
<1>1. ChunkInv => FenceIdentifiesLease
  BY DEF ChunkInv
<1> QED
  BY ChunkInvariant, <1>1, PTL

(* Every acknowledgement ever given by complete-chunk! names the result that
   stands. *)
THEOREM AcknowledgementDurable == Spec => []AcknowledgedResultStands
<1>1. ChunkInv => AcknowledgedResultStands
  BY DEF ChunkInv
<1> QED
  BY ChunkInvariant, <1>1, PTL

(* An execution-complete run has an accepted result for each chunk. *)
THEOREM CompletionWhole == Spec => []CompleteRunIsWhole
<1>1. ChunkInv => CompleteRunIsWhole
  BY DEF ChunkInv
<1> QED
  BY ChunkInvariant, <1>1, PTL

(* fail-run! and mark-run-execution-complete! are final for outstanding
   leases. *)
THEOREM TerminalFrozen == Spec => TerminalRunIsFrozen
<1> DEFINE Frozen == (run \in {"execution-complete", "failed"}) => UNCHANGED rows
<1>1. [Next]_vars => [Frozen]_vars
  <2> SUFFICES ASSUME [Next]_vars, run \in {"execution-complete", "failed"}
               PROVE  UNCHANGED rows
    OBVIOUS
  <2>1. ASSUME NEW k \in claims, NEW r \in Results, CompleteChunk(k, r) PROVE UNCHANGED rows
    BY <2>1 DEF CompleteChunk, Accepts, rows
  <2>2. ASSUME NEW c \in Chunks, LeaseExpires(c) PROVE UNCHANGED rows
    BY <2>2 DEF LeaseExpires, rows
  <2>3. ASSUME NEW w \in Workers, WorkerCrash(w) PROVE UNCHANGED rows
    BY <2>3 DEF WorkerCrash
  <2> QED
    BY <2>1, <2>2, <2>3
    DEF Next, Work, RegisterRun, ClaimChunk, MarkRunExecutionComplete, FailRun, vars
<1> QED
  BY <1>1, PTL DEF Spec, TerminalRunIsFrozen

(* The transactions implement the abstract coordinator: each is a lease, an
   acceptance, a change of the run's status, or invisible. *)
THEOREM ImplementsFencedChunks == Spec => RefinesFencedChunks
<1>1. Init => Abstract!Init
  BY DEF Init
<1>2. ChunkInv /\ [Next]_vars => [Abstract!Next]_(Abstract!chunkVars)
  <2> SUFFICES ASSUME ChunkInv, [Next]_vars
               PROVE  Abstract!Next \/ UNCHANGED Abstract!chunkVars
    OBVIOUS
  <2>0. TypeOK
    BY DEF ChunkInv
  <2>1. ASSUME NEW s \in (SUBSET Chunks) \ {{}}, RegisterRun(s) PROVE Abstract!Next
    BY <2>1 DEF RegisterRun, Abstract!Next, Abstract!Register
  <2>2. ASSUME NEW w \in Workers, NEW c \in Chunks, ClaimChunk(w, c) PROVE Abstract!Next
    <3>1. Abstract!Lease(c)
      BY <2>2 DEF ClaimChunk, Claimable, Abstract!Lease
    <3> QED
      BY <3>1 DEF Abstract!Next
  <2>3. ASSUME NEW k \in claims, NEW r \in Results, CompleteChunk(k, r)
        PROVE  Abstract!Next \/ UNCHANGED Abstract!chunkVars
    <3>1. k.chunk \in Chunks
      BY <2>0 DEF TypeOK
    <3>2. Abstract!Accept(k.chunk, r) \/ UNCHANGED Abstract!chunkVars
      BY <2>3 DEF CompleteChunk, Accepts, Replay, Abstract!Accept, Abstract!chunkVars
    <3> QED
      BY <3>1, <3>2 DEF Abstract!Next
  <2>4. ASSUME NEW w \in Workers, WorkerCrash(w) PROVE UNCHANGED Abstract!chunkVars
    BY <2>4 DEF WorkerCrash, rows, Abstract!chunkVars
  <2>5. ASSUME MarkRunExecutionComplete PROVE Abstract!Next
    BY <2>5 DEF MarkRunExecutionComplete, AllCompleted, Abstract!Next, Abstract!Finish
  <2>6. ASSUME FailRun PROVE Abstract!Next
    BY <2>6 DEF FailRun, Abstract!Next, Abstract!Fail
  <2>7. ASSUME NEW c \in Chunks, LeaseExpires(c) PROVE UNCHANGED Abstract!chunkVars
    BY <2>7 DEF LeaseExpires, Abstract!chunkVars
  <2>8. ASSUME UNCHANGED vars PROVE UNCHANGED Abstract!chunkVars
    BY <2>8 DEF vars, rows, Abstract!chunkVars
  <2> QED
    BY <2>1, <2>2, <2>3, <2>4, <2>5, <2>6, <2>7, <2>8 DEF Next, Work
<1> QED
  BY ChunkInvariant, <1>1, <1>2, PTL DEF Spec, RefinesFencedChunks, Abstract!Spec
=============================================================================
