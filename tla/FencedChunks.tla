---------------------------- MODULE FencedChunks ----------------------------
(***************************************************************************)
(* What a fixed-chunk coordinator promises for one run, whichever topology   *)
(* it has: a chunk is leased under an ever larger fence, one result is       *)
(* accepted for it while it is leased and the run is dispatching, and the    *)
(* run ends complete only when every chunk has its result.                   *)
(***************************************************************************)
EXTENDS Integers

CONSTANTS NoValue,   \* nil
          Chunks,    \* chunk identities
          Results    \* result roots

VARIABLES run,       \* status of the run
          chunks,    \* the fixed set the run was registered with
          status,    \* Chunks -> pending, leased or completed
          fence,     \* Chunks -> number of leases granted
          result     \* Chunks -> the accepted result

chunkVars == <<run, chunks, status, fence, result>>

Init ==
  /\ run = "absent" /\ chunks = {}
  /\ status = [c \in Chunks |-> "pending"]
  /\ fence = [c \in Chunks |-> 0]
  /\ result = [c \in Chunks |-> NoValue]

Register ==
  /\ run = "absent" /\ run' = "dispatching"
  /\ chunks' \in (SUBSET Chunks) \ {{}}
  /\ UNCHANGED <<status, fence, result>>

Lease(c) ==
  /\ run = "dispatching" /\ c \in chunks /\ status[c] # "completed"
  /\ status' = [status EXCEPT ![c] = "leased"]
  /\ fence' = [fence EXCEPT ![c] = @ + 1]
  /\ UNCHANGED <<run, chunks, result>>

Accept(c, r) ==
  /\ run = "dispatching" /\ status[c] = "leased"
  /\ status' = [status EXCEPT ![c] = "completed"]
  /\ result' = [result EXCEPT ![c] = r]
  /\ UNCHANGED <<run, chunks, fence>>

Finish ==
  /\ run = "dispatching" /\ \A c \in chunks : status[c] = "completed"
  /\ run' = "execution-complete"
  /\ UNCHANGED <<chunks, status, fence, result>>

Fail ==
  /\ run = "dispatching" /\ run' = "failed"
  /\ UNCHANGED <<chunks, status, fence, result>>

Next ==
  \/ Register \/ Finish \/ Fail
  \/ \E c \in Chunks : Lease(c) \/ \E r \in Results : Accept(c, r)

Spec == Init /\ [][Next]_chunkVars
=============================================================================
