-------------------------- MODULE LocalCoordinator --------------------------
(***************************************************************************)
(* The in-memory fixed-chunk coordinator                                     *)
(* (benchmark/distributed/local_coordinator.clj) for one run: an atom that    *)
(* its callers change with swap!.                                            *)
(*                                                                         *)
(* claim-chunk! keeps two local atoms, claimed and refusal, which the swap!   *)
(* function sets as a side effect and which are not cleared when a failed    *)
(* compare-and-set runs the function again, so a claim is three steps: read   *)
(* the clock, apply the function to the state read, compare-and-set.  The     *)
(* other operations set their answer in every branch: their last attempt      *)
(* decides, and they are one step, except that complete-chunk! also reads     *)
(* the clock when it is called.                                              *)
(***************************************************************************)
EXTENDS Integers, FiniteSets, FiniteSetsExt

CONSTANTS NoValue,
          Chunks,     \* chunk ids, ordered (sort-by :chunk/id)
          Workers,    \* calling threads
          Results,    \* result roots
          Keys,       \* local key ids
          Capacity,   \* :local-key/capacity of every claim with a key
          Budget,     \* :local-key/budget of every claim with a key
          LeaseMs,    \* lease duration
          MaxClock,   \* bound: last instant of the clock
          MaxCalls    \* bound: calls of claim-chunk! by one worker

ASSUME LocalConstants ==
  /\ Chunks \subseteq Nat /\ IsFiniteSet(Chunks) /\ IsFiniteSet(Workers)
  /\ {Capacity, Budget, LeaseMs} \subseteq Nat \ {0}
  /\ {MaxClock, MaxCalls} \subseteq Nat
  /\ NoValue \notin Results \cup Keys

VARIABLES atom,     \* the coordinator's state for the run
          clock,    \* System/currentTimeMillis
          call,     \* per worker: the claim-chunk! call in progress
          calls,    \* per worker: claim-chunk! calls made
          uuids,    \* per worker: tokens generated
          claims,   \* every lease answered by claim-chunk!
          acks      \* answers :completed: the chunk and the token it was accepted under

vars == <<atom, clock, call, calls, uuids, claims, acks>>

NoLease == [chunk |-> 0, fence |-> 0, token |-> NoValue, expires |-> 0]

Idle == [pc |-> "idle", now |-> 0, key |-> NoValue, seen |-> NoValue,
         write |-> NoLease, claimed |-> NoLease, refusal |-> FALSE]

Init ==
  /\ atom = [run |-> "absent", chunks |-> {},
             status |-> [c \in Chunks |-> "pending"],
             fence |-> [c \in Chunks |-> 0],
             result |-> [c \in Chunks |-> NoValue],
             token |-> [c \in Chunks |-> NoValue],
             expires |-> [c \in Chunks |-> 0],
             key |-> [c \in Chunks |-> NoValue]]
  /\ clock = 0
  /\ call = [w \in Workers |-> Idle]
  /\ calls = [w \in Workers |-> 0]
  /\ uuids = [w \in Workers |-> 0]
  /\ claims = {} /\ acks = {}

Tick ==
  /\ clock < MaxClock /\ clock' = clock + 1
  /\ UNCHANGED <<atom, call, calls, uuids, claims, acks>>

RegisterRun(s) ==
  /\ atom.run = "absent"
  /\ atom' = [atom EXCEPT !.run = "dispatching", !.chunks = s]
  /\ UNCHANGED <<clock, call, calls, uuids, claims, acks>>

-----------------------------------------------------------------------------
(* claim-chunk! *)

Claimable(st, now) ==
  {c \in st.chunks : \/ st.status[c] = "pending"
                     \/ st.status[c] = "leased" /\ st.expires[c] <= now}

ActiveUsage(st, now, k) ==
  Cardinality({c \in st.chunks : st.status[c] = "leased" /\ st.expires[c] > now
                                 /\ st.key[c] = k})

(* mutant: the limit itself is still let through *)
OverCapacityOffByOne(st, now, k) ==
  k # NoValue /\ ActiveUsage(st, now, k) > Min({Capacity, Budget})

OverCapacity(st, now, k) ==
  k # NoValue /\ ActiveUsage(st, now, k) >= Min({Capacity, Budget})

ClaimStart(w, k) ==
  /\ call[w].pc = "idle" /\ calls[w] < MaxCalls
  /\ calls' = [calls EXCEPT ![w] = @ + 1]
  /\ call' = [call EXCEPT ![w] = [Idle EXCEPT !.pc = "reading", !.now = clock, !.key = k]]
  /\ UNCHANGED <<atom, clock, uuids, claims, acks>>

(* The swap! function applied to the state just read. *)
ClaimAttempt(w) ==
  LET me    == call[w]
      free  == Claimable(atom, me.now)
      c     == Min(free)
      token == <<w, uuids[w] + 1>>
      next  == [chunk |-> c, fence |-> atom.fence[c] + 1, token |-> token,
                expires |-> me.now + LeaseMs]
      read  == [me EXCEPT !.pc = "swapping", !.seen = atom, !.write = NoLease]
  IN  /\ me.pc = "reading"
      /\ \/ /\ atom.run # "dispatching"
            /\ call' = [call EXCEPT ![w] = read] /\ UNCHANGED uuids
         \/ /\ atom.run = "dispatching" /\ OverCapacity(atom, me.now, me.key)
            /\ call' = [call EXCEPT ![w] = [read EXCEPT !.refusal = TRUE]] /\ UNCHANGED uuids
         \/ /\ atom.run = "dispatching" /\ ~OverCapacity(atom, me.now, me.key)
            /\ free = {}
            /\ call' = [call EXCEPT ![w] = read] /\ UNCHANGED uuids
         \/ /\ atom.run = "dispatching" /\ ~OverCapacity(atom, me.now, me.key)
            /\ free # {}
            /\ call' = [call EXCEPT ![w] = [read EXCEPT !.write = next, !.claimed = next]]
            /\ uuids' = [uuids EXCEPT ![w] = @ + 1]
      /\ UNCHANGED <<atom, clock, calls, claims, acks>>

Leased(st, lease, k) ==
  [st EXCEPT !.status[lease.chunk] = "leased", !.fence[lease.chunk] = lease.fence,
             !.token[lease.chunk] = lease.token, !.expires[lease.chunk] = lease.expires,
             !.key[lease.chunk] = k]

(* mutant: reset! instead of compare-and-set *)
CasAlways(w) == call[w].seen # NoValue

Cas(w) == call[w].seen = atom

(* The compare-and-set, and on success the answer (or @refusal @claimed). *)
ClaimSwap(w) ==
  LET me == call[w] IN
  /\ me.pc = "swapping"
  /\ \/ /\ ~Cas(w)
        /\ call' = [call EXCEPT ![w].pc = "reading"]
        /\ UNCHANGED <<atom, claims>>
     \/ /\ Cas(w)
        /\ atom' = IF me.write = NoLease THEN atom ELSE Leased(me.seen, me.write, me.key)
        /\ call' = [call EXCEPT ![w] = Idle]
        /\ claims' = IF me.refusal \/ me.claimed = NoLease THEN claims
                     ELSE claims \cup {[lease |-> me.claimed, at |-> clock]}
  /\ UNCHANGED <<clock, calls, uuids, acks>>

-----------------------------------------------------------------------------
(* complete-chunk! *)

(* mutant: the fence alone is taken as proof of the lease *)
AcceptsFenceOnly(k, now) ==
  /\ atom.run = "dispatching"
  /\ atom.status[k.chunk] = "leased"
  /\ atom.fence[k.chunk] = k.fence
  /\ atom.expires[k.chunk] > now

Accepts(k, now) ==
  /\ atom.run = "dispatching"
  /\ atom.status[k.chunk] = "leased"
  /\ atom.fence[k.chunk] = k.fence
  /\ atom.token[k.chunk] = k.token
  /\ atom.expires[k.chunk] > now

(* A completed chunk acknowledges the same result from any caller, in any
   state of the run and without looking at fence or token. *)
Replay(k, r) == atom.status[k.chunk] = "completed" /\ atom.result[k.chunk] = r

(* The clock was read when the call began, some time after the claim was
   answered. *)
CompleteChunk(claim, r) ==
  LET k == claim.lease IN
  \E now \in claim.at..clock :
    /\ \/ /\ Accepts(k, now)
          /\ atom' = [atom EXCEPT !.status[k.chunk] = "completed", !.result[k.chunk] = r]
          /\ acks' = acks \cup {[chunk |-> k.chunk, token |-> k.token]}
       \/ /\ Replay(k, r)
          /\ UNCHANGED <<atom, acks>>
    /\ UNCHANGED <<clock, call, calls, uuids, claims>>

AllCompleted == \A c \in atom.chunks : atom.status[c] = "completed"

(* The run's own status is not looked at: a repeated call writes it again. *)
MarkRunExecutionComplete ==
  /\ atom.run # "absent" /\ AllCompleted
  /\ atom' = [atom EXCEPT !.run = "execution-complete"]
  /\ UNCHANGED <<clock, call, calls, uuids, claims, acks>>

Next ==
  \/ \E s \in (SUBSET Chunks) \ {{}} : RegisterRun(s)
  \/ \E w \in Workers :
       \/ \E k \in Keys \cup {NoValue} : ClaimStart(w, k)
       \/ ClaimAttempt(w) \/ ClaimSwap(w)
  \/ \E k \in claims, r \in Results : CompleteChunk(k, r)
  \/ MarkRunExecutionComplete
  \/ Tick

Spec == Init /\ [][Next]_vars

-----------------------------------------------------------------------------
Abstract == INSTANCE FencedChunks WITH
  run <- atom.run, chunks <- atom.chunks, status <- atom.status,
  fence <- atom.fence, result <- atom.result

(* At no instant do the unexpired leases of a local key exceed the smaller of
   its capacity and budget, although every claim counts them at the instant it
   was called and not at the instant it takes effect. *)
CapacityRespected ==
  \A k \in Keys : ActiveUsage(atom, clock, k) <= Min({Capacity, Budget})

(* A lease that is only in the answer of a claim whose compare-and-set failed
   carries the same fence as the lease that won, and still never completes a
   chunk: each accepted completion bore the token the atom holds. *)
AcceptedUnderHeldToken ==
  \A a \in acks : atom.token[a.chunk] = a.token

(* Concurrent claims do not overwrite each other, and the run completes only as
   a whole: the coordinator implements the abstract one. *)
RefinesFencedChunks == Abstract!Spec

=============================================================================
