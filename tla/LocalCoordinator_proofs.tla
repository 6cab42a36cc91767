------------------------ MODULE LocalCoordinator_proofs ------------------------
(***************************************************************************)
(* Proofs about LocalCoordinator for any finite set of chunks, any workers,  *)
(* keys, limits and lease duration.                                         *)
(*                                                                         *)
(* claim-chunk! decides on a state and an instant it read earlier.  What      *)
(* makes the decision good when the compare-and-set succeeds is that the      *)
(* state is then still the one it was computed from (SwapReady) and that      *)
(* leases only expire as the clock advances, so the usage counted earlier     *)
(* bounds the usage now.                                                     *)
(***************************************************************************)
EXTENDS LocalCoordinator, FiniteSetTheorems, WellFoundedInduction, TLAPS

Tokens == (Workers \X Nat) \cup {NoValue}

AtomState ==
  [ run     : {"absent", "dispatching", "execution-complete"},
    chunks  : SUBSET Chunks,
    status  : [Chunks -> {"pending", "leased", "completed"}],
    fence   : [Chunks -> Nat],
    result  : [Chunks -> Results \cup {NoValue}],
    token   : [Chunks -> Tokens],
    expires : [Chunks -> Nat],
    key     : [Chunks -> Keys \cup {NoValue}] ]

LeaseRecord == [chunk : Nat, fence : Nat, token : Tokens, expires : Nat]

CallState ==
  [ pc : {"idle", "reading", "swapping"}, now : Nat, key : Keys \cup {NoValue},
    seen : AtomState \cup {NoValue}, write : LeaseRecord, claimed : LeaseRecord,
    refusal : BOOLEAN ]

(* The type of the coordinator's state and of the calls in progress. *)
LocalTypeOK ==
  /\ atom \in AtomState /\ clock \in Nat
  /\ call \in [Workers -> CallState]
  /\ calls \in [Workers -> Nat] /\ uuids \in [Workers -> Nat]
  /\ claims \subseteq [lease : LeaseRecord, at : Nat]
  /\ acks \subseteq [chunk : Chunks, token : Tokens]

(* What the lease computed by the swap! function is, relative to the state it
   was computed from. *)
SwapReady(me) ==
  /\ me.pc # "idle" => me.now <= clock
  /\ me.pc = "swapping" => me.seen \in AtomState
  /\ me.pc = "swapping" /\ me.write # NoLease =>
       /\ me.seen.run = "dispatching" /\ ~OverCapacity(me.seen, me.now, me.key)
       /\ me.write.chunk \in Claimable(me.seen, me.now)
       /\ me.write.fence = me.seen.fence[me.write.chunk] + 1
  /\ me.claimed # NoLease => me.claimed.chunk \in Chunks

(* Only registered chunks leave "pending", and leases, answered or not, name
   chunks. *)
RowsRegistered ==
  /\ atom.run = "absent" => atom.chunks = {}
  /\ \A c \in Chunks : atom.status[c] # "pending" => c \in atom.chunks
  /\ \A k \in claims : k.lease.chunk \in Chunks

(* An accepted chunk is completed, hence never claimed again. *)
AcceptedIsCompleted ==
  \A a \in acks : atom.status[a.chunk] = "completed" /\ atom.token[a.chunk] = a.token

LocalInv ==
  /\ LocalTypeOK
  /\ \A w \in Workers : SwapReady(call[w])
  /\ RowsRegistered
  /\ AcceptedIsCompleted
  /\ CapacityRespected

-----------------------------------------------------------------------------
(* sort-by :chunk/id, first: a non-empty set of chunk ids has a least one. *)
LEMMA LeastChunk ==
  ASSUME NEW S \in SUBSET Nat, S # {}
  PROVE  Min(S) \in S
<1> DEFINE R == {ss \in Nat \X Nat : ss[1] < ss[2]}
<1>1. IsWellFoundedOn(R, Nat)
  BY NatLessThanWellFounded DEF OpToRel
<1>2. \E x \in S : \A y \in S : ~(<<y, x>> \in R)
  <2> HIDE DEF R
  <2> QED
    BY <1>1, WFMin
<1>3. \A x, y \in Nat : y < x => <<y, x>> \in R
  OBVIOUS
<1>4. \E x \in S : \A y \in S : x =< y
  <2> HIDE DEF R
  <2>1. PICK x \in S : \A y \in S : ~(<<y, x>> \in R)
    BY <1>2
  <2>2. ASSUME NEW y \in S PROVE x =< y
    <3>1. x \in Nat /\ y \in Nat /\ ~(y < x)
      BY <1>3, <2>1
    <3> QED
      BY <3>1
  <2> QED
    BY <2>2
<1> QED
  BY <1>4 DEF Min

(* The limit of a local key is a natural number. *)
LEMMA LimitType == Min({Capacity, Budget}) \in Nat
<1>1. Capacity \in Nat /\ Budget \in Nat
  BY LocalConstants
<1>2. \E x \in {Capacity, Budget} : \A y \in {Capacity, Budget} : x =< y
  BY <1>1
<1> QED
  BY <1>1, <1>2 DEF Min

(* The set that local-key-active-usage counts. *)
ActiveLeases(st, now, k) ==
  {c \in st.chunks : st.status[c] = "leased" /\ st.expires[c] > now /\ st.key[c] = k}

(* Usage is monotone in the set counted, and one more chunk adds at most one. *)
LEMMA UsageBounds ==
  ASSUME NEW S, NEW T \in SUBSET Chunks, NEW c, S \subseteq T \cup {c}
  PROVE  /\ Cardinality(S) \in Nat /\ Cardinality(T) \in Nat
         /\ Cardinality(S) <= Cardinality(T) + 1
         /\ S \subseteq T => Cardinality(S) <= Cardinality(T)
<1>1. IsFiniteSet(T)
  BY LocalConstants, FS_Subset
<1>2. IsFiniteSet(T \cup {c}) /\ Cardinality(T \cup {c}) <= Cardinality(T) + 1
  <2>1. Cardinality(T) \in Nat
    BY <1>1, FS_CardinalityType
  <2>2. /\ IsFiniteSet(T \cup {c})
        /\ Cardinality(T \cup {c}) = IF c \in T THEN Cardinality(T) ELSE Cardinality(T) + 1
    BY <1>1, FS_AddElement
  <2> QED
    BY <2>1, <2>2
<1>3. IsFiniteSet(S) /\ Cardinality(S) <= Cardinality(T \cup {c})
  BY <1>2, FS_Subset
<1>4. Cardinality(S) \in Nat /\ Cardinality(T) \in Nat /\ Cardinality(T \cup {c}) \in Nat
  BY <1>1, <1>2, <1>3, FS_CardinalityType
<1>5. S \subseteq T => Cardinality(S) <= Cardinality(T)
  BY <1>1, FS_Subset
<1> QED
  BY <1>2, <1>3, <1>4, <1>5

(* Usage can only fall when no lease becomes active: the clock advances, or
   chunks are completed or handed to other keys. *)
LEMMA CapacityKept ==
  ASSUME LocalTypeOK, CapacityRespected,
         \A k \in Keys : ActiveLeases(atom', clock', k) \subseteq ActiveLeases(atom, clock, k)
  PROVE  CapacityRespected'
<1> SUFFICES ASSUME NEW k \in Keys
             PROVE  ActiveUsage(atom', clock', k) <= Min({Capacity, Budget})
  BY DEF CapacityRespected
<1>1. ActiveLeases(atom, clock, k) \subseteq Chunks
  BY DEF LocalTypeOK, AtomState, ActiveLeases
<1>2. /\ ActiveUsage(atom, clock, k) = Cardinality(ActiveLeases(atom, clock, k))
      /\ ActiveUsage(atom', clock', k) = Cardinality(ActiveLeases(atom', clock', k))
  BY DEF ActiveUsage, ActiveLeases
<1>3. /\ ActiveUsage(atom', clock', k) \in Nat /\ ActiveUsage(atom, clock, k) \in Nat
      /\ ActiveUsage(atom', clock', k) <= ActiveUsage(atom, clock, k)
  BY <1>1, <1>2, UsageBounds
<1>4. ActiveUsage(atom, clock, k) <= Min({Capacity, Budget})
  BY DEF CapacityRespected
<1> QED
  BY <1>3, <1>4, LimitType

(* No run, no leases, no calls. *)
LEMMA LocalInit == Init => LocalInv
<1> SUFFICES ASSUME Init PROVE LocalInv
  OBVIOUS
<1>1. NoLease \in LeaseRecord
  BY DEF NoLease, LeaseRecord, Tokens
<1>2. Idle \in CallState
  BY <1>1 DEF Idle, CallState
<1>3. atom \in AtomState
  BY DEF Init, AtomState, Tokens
<1>4. LocalTypeOK
  BY <1>2, <1>3 DEF Init, LocalTypeOK
<1>5. ASSUME NEW w \in Workers PROVE SwapReady(call[w])
  <2>1. call[w] = Idle
    BY DEF Init
  <2> QED
    BY <2>1 DEF SwapReady, Idle
<1>6. RowsRegistered /\ AcceptedIsCompleted
  BY DEF Init, RowsRegistered, AcceptedIsCompleted
<1>7. CapacityRespected
  <2> SUFFICES ASSUME NEW k \in Keys
               PROVE  ActiveUsage(atom, clock, k) <= Min({Capacity, Budget})
    BY DEF CapacityRespected
  <2>1. {c \in atom.chunks : atom.status[c] = "leased" /\ atom.expires[c] > clock
                              /\ atom.key[c] = k} = {}
    BY DEF Init
  <2>2. ActiveUsage(atom, clock, k) = 0
    BY <2>1, FS_EmptySet DEF ActiveUsage
  <2> QED
    BY <2>2, LimitType
<1> QED
  BY <1>4, <1>5, <1>6, <1>7 DEF LocalInv

-----------------------------------------------------------------------------
(* A claim call begins: it only reads the clock. *)
LEMMA ClaimStartStep ==
  ASSUME LocalInv, NEW w \in Workers, NEW k \in Keys \cup {NoValue}, ClaimStart(w, k)
  PROVE  LocalInv'
<1>0. LocalTypeOK /\ SwapReady(call[w]) /\ RowsRegistered /\ AcceptedIsCompleted /\ CapacityRespected
  BY DEF LocalInv
<1> DEFINE started == [Idle EXCEPT !.pc = "reading", !.now = clock, !.key = k]
<1>1. /\ calls' = [calls EXCEPT ![w] = @ + 1] /\ call' = [call EXCEPT ![w] = started]
      /\ UNCHANGED <<atom, clock, uuids, claims, acks>>
  BY DEF ClaimStart
<1>2. started \in CallState
  BY <1>0 DEF Idle, NoLease, CallState, LeaseRecord, Tokens, LocalTypeOK
<1>3. SwapReady(started)
  BY <1>0 DEF SwapReady, Idle, LocalTypeOK
<1> HIDE DEF started
<1>4. calls' \in [Workers -> Nat]
  BY <1>0, <1>1 DEF LocalTypeOK
<1>5. LocalTypeOK'
  BY <1>0, <1>1, <1>2, <1>4 DEF LocalTypeOK
<1>6. ASSUME NEW v \in Workers PROVE SwapReady(call[v])'
  <2>1. call'[v] = IF v = w THEN started ELSE call[v]
    BY <1>0, <1>1 DEF LocalTypeOK
  <2> QED
    BY <1>1, <1>3, <2>1 DEF SwapReady, LocalInv
<1>7. RowsRegistered' /\ AcceptedIsCompleted' /\ CapacityRespected'
  BY <1>0, <1>1 DEF RowsRegistered, AcceptedIsCompleted, CapacityRespected
<1> QED
  BY <1>5, <1>6, <1>7 DEF LocalInv

(* The swap! function runs on the state it reads and writes nothing yet; what
   it computed is good for exactly that state. *)
LEMMA ClaimAttemptStep ==
  ASSUME LocalInv, NEW w \in Workers, ClaimAttempt(w)
  PROVE  LocalInv'
<1>0. LocalTypeOK /\ SwapReady(call[w]) /\ RowsRegistered /\ AcceptedIsCompleted /\ CapacityRespected
  BY DEF LocalInv
<1> DEFINE me   == call[w]
           free == Claimable(atom, me.now)
           c    == Min(free)
           next == [chunk |-> c, fence |-> atom.fence[c] + 1, token |-> <<w, uuids[w] + 1>>,
                    expires |-> me.now + LeaseMs]
           read == [me EXCEPT !.pc = "swapping", !.seen = atom, !.write = NoLease]
<1>1. /\ me.pc = "reading" /\ UNCHANGED <<atom, clock, calls, claims, acks>>
      /\ \/ call' = [call EXCEPT ![w] = read] /\ UNCHANGED uuids
         \/ call' = [call EXCEPT ![w] = [read EXCEPT !.refusal = TRUE]] /\ UNCHANGED uuids
         \/ /\ atom.run = "dispatching" /\ ~OverCapacity(atom, me.now, me.key) /\ free # {}
            /\ call' = [call EXCEPT ![w] = [read EXCEPT !.write = next, !.claimed = next]]
            /\ uuids' = [uuids EXCEPT ![w] = @ + 1]
  BY DEF ClaimAttempt
<1>2. /\ me \in CallState /\ atom \in AtomState /\ uuids[w] \in Nat
      /\ NoLease \in LeaseRecord /\ me.now \in Nat /\ LeaseMs \in Nat
  BY <1>0, LocalConstants DEF LocalTypeOK, CallState, NoLease, LeaseRecord, Tokens
<1>3. /\ read \in CallState /\ read.pc = "swapping" /\ read.now = me.now /\ read.key = me.key
      /\ read.seen = atom /\ read.write = NoLease /\ read.claimed = me.claimed
  BY <1>2 DEF CallState
<1>4. free \subseteq Chunks
  BY <1>2 DEF Claimable, AtomState
<1>5. free # {} => c \in free /\ c \in Chunks /\ c \in Nat
  BY <1>4, LocalConstants, LeastChunk
<1>6. free # {} => next \in LeaseRecord /\ next # NoLease
  <2> SUFFICES ASSUME free # {} PROVE next \in LeaseRecord /\ next # NoLease
    OBVIOUS
  <2>1. c \in Chunks /\ c \in Nat
    BY <1>5
  <2>2. atom.fence[c] + 1 \in Nat /\ atom.fence[c] + 1 # 0
    BY <1>2, <2>1 DEF AtomState
  <2>3. <<w, uuids[w] + 1>> \in Tokens /\ me.now + LeaseMs \in Nat
    BY <1>2 DEF Tokens
  <2> HIDE DEF c, me
  <2>4. next.fence # 0
    BY <2>2
  <2>5. next # NoLease
    BY <2>4 DEF NoLease
  <2> QED
    BY <2>1, <2>2, <2>3, <2>5 DEF LeaseRecord
<1>7. SwapReady(read) /\ SwapReady([read EXCEPT !.refusal = TRUE])
        /\ [read EXCEPT !.refusal = TRUE] \in CallState
  <2> HIDE DEF read, me
  <2>1. /\ me.now <= clock
        /\ me.claimed # NoLease => me.claimed.chunk \in Chunks
    BY <1>0, <1>1 DEF SwapReady, me
  <2>2. SwapReady(read)
    BY <1>2, <1>3, <2>1 DEF SwapReady
  <2> DEFINE refused == [read EXCEPT !.refusal = TRUE]
  <2>3. /\ refused \in CallState /\ refused.pc = "swapping" /\ refused.now = me.now
        /\ refused.seen = atom /\ refused.write = NoLease /\ refused.claimed = me.claimed
    BY <1>3 DEF CallState
  <2> HIDE DEF refused
  <2>4. SwapReady(refused)
    BY <1>2, <2>1, <2>3 DEF SwapReady
  <2> QED
    BY <2>2, <2>3, <2>4 DEF refused
<1>8. ASSUME atom.run = "dispatching", ~OverCapacity(atom, me.now, me.key), free # {}
      PROVE  /\ [read EXCEPT !.write = next, !.claimed = next] \in CallState
             /\ SwapReady([read EXCEPT !.write = next, !.claimed = next])
  <2>1. /\ next \in LeaseRecord /\ next.chunk = c /\ next.fence = atom.fence[c] + 1
        /\ c \in free /\ c \in Chunks /\ me.now <= clock
    BY <1>0, <1>1, <1>5, <1>6, <1>8 DEF SwapReady
  <2> DEFINE claiming == [read EXCEPT !.write = next, !.claimed = next]
  <2> HIDE DEF read, next, c
  <2>2. /\ claiming \in CallState /\ claiming.pc = "swapping" /\ claiming.now = me.now
        /\ claiming.key = me.key /\ claiming.seen = atom /\ claiming.write = next
        /\ claiming.claimed = next
    BY <1>3, <2>1 DEF CallState
  <2> HIDE DEF claiming
  <2>3. SwapReady(claiming)
    BY <1>2, <1>8, <2>1, <2>2 DEF SwapReady
  <2> QED
    BY <2>2, <2>3 DEF claiming
<1>9. PICK new \in CallState : SwapReady(new) /\ call' = [call EXCEPT ![w] = new]
  <2> HIDE DEF read, next, free, me
  <2> QED
    BY <1>1, <1>3, <1>7, <1>8
<1>10. uuids' \in [Workers -> Nat]
  <2>1. uuids' = uuids \/ uuids' = [uuids EXCEPT ![w] = @ + 1]
    BY <1>1
  <2> QED
    BY <1>0, <2>1 DEF LocalTypeOK
<1>11. LocalTypeOK'
  BY <1>0, <1>1, <1>9, <1>10 DEF LocalTypeOK
<1>12. ASSUME NEW v \in Workers PROVE SwapReady(call[v])'
  <2>1. call'[v] = IF v = w THEN new ELSE call[v]
    BY <1>0, <1>9 DEF LocalTypeOK
  <2>2. clock' = clock /\ SwapReady(call[v])
    BY <1>1 DEF LocalInv
  <2> QED
    BY <1>9, <2>1, <2>2 DEF SwapReady
<1>13. RowsRegistered' /\ AcceptedIsCompleted' /\ CapacityRespected'
  BY <1>0, <1>1 DEF RowsRegistered, AcceptedIsCompleted, CapacityRespected
<1> QED
  BY <1>11, <1>12, <1>13 DEF LocalInv

-----------------------------------------------------------------------------
(* What a successful claim writes. *)
LEMMA LeasedFields ==
  ASSUME NEW st \in AtomState, NEW l \in LeaseRecord, l.chunk \in Chunks,
         NEW k \in Keys \cup {NoValue}
  PROVE  /\ Leased(st, l, k) \in AtomState
         /\ Leased(st, l, k).run = st.run
         /\ Leased(st, l, k).chunks = st.chunks
         /\ Leased(st, l, k).result = st.result
         /\ \A c \in Chunks \ {l.chunk} :
              /\ Leased(st, l, k).status[c] = st.status[c]
              /\ Leased(st, l, k).token[c] = st.token[c]
              /\ Leased(st, l, k).expires[c] = st.expires[c]
              /\ Leased(st, l, k).key[c] = st.key[c]
         /\ Leased(st, l, k).status[l.chunk] = "leased" /\ Leased(st, l, k).key[l.chunk] = k
<1> DEFINE st2 == Leased(st, l, k)
<1>1. /\ st2.run = st.run /\ st2.chunks = st.chunks /\ st2.result = st.result
      /\ \A c \in Chunks \ {l.chunk} :
           /\ st2.status[c] = st.status[c] /\ st2.token[c] = st.token[c]
           /\ st2.expires[c] = st.expires[c] /\ st2.key[c] = st.key[c]
      /\ st2.status[l.chunk] = "leased" /\ st2.key[l.chunk] = k
  BY DEF Leased, AtomState
<1>2. /\ [st.status EXCEPT ![l.chunk] = "leased"] \in [Chunks -> {"pending", "leased", "completed"}]
      /\ [st.fence EXCEPT ![l.chunk] = l.fence] \in [Chunks -> Nat]
      /\ [st.token EXCEPT ![l.chunk] = l.token] \in [Chunks -> Tokens]
      /\ [st.expires EXCEPT ![l.chunk] = l.expires] \in [Chunks -> Nat]
      /\ [st.key EXCEPT ![l.chunk] = k] \in [Chunks -> Keys \cup {NoValue}]
  BY DEF AtomState, LeaseRecord
<1>3. st2 \in AtomState
  BY <1>2 DEF Leased, AtomState
<1> QED
  BY <1>1, <1>3

(* The compare-and-set of a claim that writes: the state is the one read, so
   the chunk is free and the key below its limit. *)
LEMMA LeaseTaken ==
  ASSUME LocalInv, NEW w \in Workers, ClaimSwap(w), Cas(w), call[w].write # NoLease
  PROVE  LET l == call[w].write IN
         /\ atom' = Leased(atom, l, call[w].key) /\ l \in LeaseRecord
         /\ atom.run = "dispatching" /\ l.chunk \in atom.chunks /\ l.chunk \in Chunks
         /\ atom.status[l.chunk] # "completed" /\ l.fence = atom.fence[l.chunk] + 1
         /\ ~OverCapacity(atom, call[w].now, call[w].key)
         /\ call[w].now <= clock /\ call[w].now \in Nat /\ call[w].key \in Keys \cup {NoValue}
<1>1. /\ call[w].pc = "swapping" /\ call[w].seen = atom
      /\ atom' = Leased(atom, call[w].write, call[w].key)
  BY DEF ClaimSwap, Cas
<1>2. SwapReady(call[w]) /\ call[w] \in CallState /\ atom \in AtomState
  BY DEF LocalInv, LocalTypeOK
<1>3. /\ atom.run = "dispatching" /\ ~OverCapacity(atom, call[w].now, call[w].key)
      /\ call[w].write.chunk \in Claimable(atom, call[w].now)
      /\ call[w].write.fence = atom.fence[call[w].write.chunk] + 1
      /\ call[w].now <= clock
  BY <1>1, <1>2 DEF SwapReady
<1>4. /\ call[w].write.chunk \in atom.chunks /\ call[w].write.chunk \in Chunks
      /\ atom.status[call[w].write.chunk] # "completed"
  BY <1>2, <1>3 DEF Claimable, AtomState
<1>5. /\ call[w].write \in LeaseRecord /\ call[w].now \in Nat
      /\ call[w].key \in Keys \cup {NoValue}
  BY <1>2 DEF CallState
<1> QED
  BY <1>1, <1>3, <1>4, <1>5

(* The claim counted usage at an earlier instant than now; nothing it counted
   then as expired is active now, so its own lease is the only addition. *)
LEMMA CapacityAtSwap ==
  ASSUME LocalInv, NEW w \in Workers, ClaimSwap(w), Cas(w), call[w].write # NoLease
  PROVE  CapacityRespected'
<1> DEFINE l == call[w].write
           now == call[w].now
<1>1. /\ atom' = Leased(atom, l, call[w].key) /\ l \in LeaseRecord /\ l.chunk \in Chunks
      /\ ~OverCapacity(atom, now, call[w].key)
      /\ now <= clock /\ now \in Nat /\ call[w].key \in Keys \cup {NoValue}
  BY LeaseTaken
<1>2. atom \in AtomState /\ clock \in Nat /\ clock' = clock
  BY DEF LocalInv, LocalTypeOK, ClaimSwap
<1> HIDE DEF l, now
<1>3. /\ atom'.chunks = atom.chunks /\ atom'.key[l.chunk] = call[w].key
      /\ \A c \in Chunks \ {l.chunk} :
           /\ atom'.status[c] = atom.status[c] /\ atom'.expires[c] = atom.expires[c]
           /\ atom'.key[c] = atom.key[c]
  BY <1>1, <1>2, LeasedFields
<1> SUFFICES ASSUME NEW k \in Keys
             PROVE  ActiveUsage(atom', clock', k) <= Min({Capacity, Budget})
  BY DEF CapacityRespected
<1>4. \A at \in Nat : ActiveLeases(atom, at, k) \subseteq Chunks
  BY <1>2 DEF ActiveLeases, AtomState
<1>5. CASE k = call[w].key
  <2>1. ActiveLeases(atom', clock, k) \subseteq ActiveLeases(atom, now, k) \cup {l.chunk}
    <3> SUFFICES ASSUME NEW c \in ActiveLeases(atom', clock, k), c # l.chunk
                 PROVE  c \in ActiveLeases(atom, now, k)
      OBVIOUS
    <3>1. c \in Chunks /\ c \in atom.chunks /\ atom.expires[c] \in Nat
      BY <1>2, <1>3 DEF ActiveLeases, AtomState
    <3>2. atom.status[c] = "leased" /\ atom.expires[c] > clock /\ atom.key[c] = k
      BY <1>3, <3>1 DEF ActiveLeases
    <3>3. atom.expires[c] > now
      BY <1>1, <1>2, <3>1, <3>2
    <3> QED
      BY <3>1, <3>2, <3>3 DEF ActiveLeases
  <2>2. ActiveUsage(atom', clock, k) = Cardinality(ActiveLeases(atom', clock, k))
    BY DEF ActiveUsage, ActiveLeases
  <2>3. ActiveUsage(atom, now, k) = Cardinality(ActiveLeases(atom, now, k))
    BY DEF ActiveUsage, ActiveLeases
  <2>4. /\ ActiveUsage(atom', clock, k) \in Nat /\ ActiveUsage(atom, now, k) \in Nat
        /\ ActiveUsage(atom', clock, k) <= ActiveUsage(atom, now, k) + 1
    BY <1>1, <1>4, <2>1, <2>2, <2>3, UsageBounds
  <2>5. ~(ActiveUsage(atom, now, k) >= Min({Capacity, Budget}))
    BY <1>1, <1>5, LocalConstants DEF OverCapacity
  <2> QED
    BY <1>2, <2>4, <2>5, LimitType
<1>6. CASE k # call[w].key
  <2>1. ActiveLeases(atom', clock, k) \subseteq ActiveLeases(atom, clock, k)
    <3> SUFFICES ASSUME NEW c \in ActiveLeases(atom', clock, k)
                 PROVE  c \in ActiveLeases(atom, clock, k)
      OBVIOUS
    <3>1. c \in Chunks /\ c \in atom.chunks /\ atom'.key[c] = k
      BY <1>2, <1>3 DEF ActiveLeases, AtomState
    <3>2. c # l.chunk
      BY <1>3, <1>6, <3>1
    <3> QED
      BY <1>3, <3>1, <3>2 DEF ActiveLeases
  <2>2. ActiveUsage(atom', clock, k) = Cardinality(ActiveLeases(atom', clock, k))
    BY DEF ActiveUsage, ActiveLeases
  <2>3. ActiveUsage(atom, clock, k) = Cardinality(ActiveLeases(atom, clock, k))
    BY DEF ActiveUsage, ActiveLeases
  <2>4. /\ ActiveUsage(atom', clock, k) \in Nat /\ ActiveUsage(atom, clock, k) \in Nat
        /\ ActiveUsage(atom', clock, k) <= ActiveUsage(atom, clock, k)
    BY <1>2, <1>4, <2>1, <2>2, <2>3, UsageBounds
  <2>5. ActiveUsage(atom, clock, k) <= Min({Capacity, Budget})
    BY DEF LocalInv, CapacityRespected
  <2> QED
    BY <1>2, <2>4, <2>5, LimitType
<1> QED
  BY <1>5, <1>6

(* The compare-and-set, lost or won. *)
LEMMA ClaimSwapStep ==
  ASSUME LocalInv, NEW w \in Workers, ClaimSwap(w)
  PROVE  LocalInv'
<1>0. LocalTypeOK /\ SwapReady(call[w]) /\ RowsRegistered /\ AcceptedIsCompleted /\ CapacityRespected
  BY DEF LocalInv
<1>1. /\ call[w].pc = "swapping" /\ UNCHANGED <<clock, calls, uuids, acks>>
      /\ call[w] \in CallState /\ atom \in AtomState
  BY <1>0 DEF ClaimSwap, LocalTypeOK
<1>2. CASE ~Cas(w)
  <2> DEFINE again == [call[w] EXCEPT !.pc = "reading"]
  <2>1. call' = [call EXCEPT ![w] = again] /\ UNCHANGED <<atom, claims>>
    BY <1>2 DEF ClaimSwap
  <2>2. /\ again \in CallState /\ again.pc = "reading" /\ again.now = call[w].now
        /\ again.claimed = call[w].claimed
    BY <1>1 DEF CallState
  <2> HIDE DEF again
  <2>3. SwapReady(again)
    BY <1>0, <1>1, <2>2 DEF SwapReady
  <2>4. LocalTypeOK'
    BY <1>0, <1>1, <2>1, <2>2 DEF LocalTypeOK
  <2>5. ASSUME NEW v \in Workers PROVE SwapReady(call[v])'
    <3>1. call'[v] = IF v = w THEN again ELSE call[v]
      BY <1>0, <2>1 DEF LocalTypeOK
    <3>2. SwapReady(call[v])
      BY DEF LocalInv
    <3> QED
      BY <1>1, <2>3, <3>1, <3>2 DEF SwapReady
  <2>6. RowsRegistered' /\ AcceptedIsCompleted' /\ CapacityRespected'
    BY <1>0, <1>1, <2>1 DEF RowsRegistered, AcceptedIsCompleted, CapacityRespected
  <2> QED
    BY <2>4, <2>5, <2>6 DEF LocalInv
<1>3. CASE Cas(w)
  <2>1. /\ call' = [call EXCEPT ![w] = Idle]
        /\ claims' = IF call[w].refusal \/ call[w].claimed = NoLease THEN claims
                     ELSE claims \cup {[lease |-> call[w].claimed, at |-> clock]}
    BY <1>3 DEF ClaimSwap
  <2>2. /\ claims' \subseteq [lease : LeaseRecord, at : Nat]
        /\ \A k \in claims' : k.lease.chunk \in Chunks
    <3>1. CASE claims' = claims
      BY <1>0, <3>1 DEF LocalTypeOK, RowsRegistered
    <3>2. CASE /\ call[w].claimed # NoLease
               /\ claims' = claims \cup {[lease |-> call[w].claimed, at |-> clock]}
      <4>1. /\ call[w].claimed \in LeaseRecord /\ call[w].claimed.chunk \in Chunks
            /\ clock \in Nat
        BY <1>0, <1>1, <3>2 DEF CallState, SwapReady, LocalTypeOK
      <4>2. [lease |-> call[w].claimed, at |-> clock] \in [lease : LeaseRecord, at : Nat]
        BY <4>1
      <4> QED
        BY <1>0, <3>2, <4>1, <4>2 DEF LocalTypeOK, RowsRegistered
    <3> QED
      BY <2>1, <3>1, <3>2
  <2>3. Idle \in CallState /\ SwapReady(Idle)'
    BY DEF Idle, NoLease, CallState, LeaseRecord, Tokens, SwapReady
  <2>4. ASSUME NEW v \in Workers PROVE SwapReady(call[v])'
    <3>1. call'[v] = IF v = w THEN Idle ELSE call[v]
      BY <1>0, <2>1 DEF LocalTypeOK
    <3>2. SwapReady(call[v])
      BY DEF LocalInv
    <3> QED
      BY <1>1, <2>3, <3>1, <3>2 DEF SwapReady
  <2>5. CASE call[w].write = NoLease
    <3>1. atom' = atom
      BY <1>3, <2>5 DEF ClaimSwap
    <3>2. LocalTypeOK'
      BY <1>0, <1>1, <2>1, <2>2, <2>3, <3>1 DEF LocalTypeOK
    <3>3. RowsRegistered' /\ AcceptedIsCompleted' /\ CapacityRespected'
      BY <1>0, <1>1, <2>2, <3>1 DEF RowsRegistered, AcceptedIsCompleted, CapacityRespected
    <3> QED
      BY <2>4, <3>2, <3>3 DEF LocalInv
  <2>6. CASE call[w].write # NoLease
    <3> DEFINE l == call[w].write
    <3>1. /\ atom' = Leased(atom, l, call[w].key) /\ l \in LeaseRecord
          /\ atom.run = "dispatching" /\ l.chunk \in atom.chunks /\ l.chunk \in Chunks
          /\ atom.status[l.chunk] # "completed" /\ call[w].key \in Keys \cup {NoValue}
      BY <1>3, <2>6, LeaseTaken
    <3> HIDE DEF l
    <3>2. /\ atom' \in AtomState /\ atom'.run = atom.run /\ atom'.chunks = atom.chunks
          /\ \A c \in Chunks \ {l.chunk} :
               atom'.status[c] = atom.status[c] /\ atom'.token[c] = atom.token[c]
      BY <1>1, <3>1, LeasedFields
    <3>3. LocalTypeOK'
      BY <1>0, <1>1, <2>1, <2>2, <2>3, <3>2 DEF LocalTypeOK
    <3>4. RowsRegistered'
      BY <1>0, <2>2, <3>1, <3>2 DEF RowsRegistered
    <3>5. AcceptedIsCompleted'
      <4> SUFFICES ASSUME NEW a \in acks
                   PROVE  atom'.status[a.chunk] = "completed" /\ atom'.token[a.chunk] = a.token
        BY <1>1 DEF AcceptedIsCompleted
      <4>1. /\ a.chunk \in Chunks /\ atom.status[a.chunk] = "completed"
            /\ atom.token[a.chunk] = a.token
        BY <1>0 DEF LocalTypeOK, AcceptedIsCompleted
      <4>2. a.chunk # l.chunk
        BY <3>1, <4>1
      <4> QED
        BY <3>2, <4>1, <4>2
    <3>6. CapacityRespected'
      BY <1>3, <2>6, CapacityAtSwap
    <3> QED
      BY <2>4, <3>3, <3>4, <3>5, <3>6 DEF LocalInv
  <2> QED
    BY <2>5, <2>6
<1> QED
  BY <1>2, <1>3

(* A completion is accepted only under the fence and the token the atom holds,
   or changes nothing. *)
LEMMA CompleteChunkStep ==
  ASSUME LocalInv, NEW claim \in claims, NEW r \in Results, CompleteChunk(claim, r)
  PROVE  LocalInv'
<1>0. LocalTypeOK /\ RowsRegistered /\ AcceptedIsCompleted /\ CapacityRespected
  BY DEF LocalInv
<1> DEFINE k == claim.lease
<1>1. /\ k \in LeaseRecord /\ k.chunk \in Chunks /\ atom \in AtomState /\ clock \in Nat
      /\ UNCHANGED <<clock, call, calls, uuids, claims>>
  BY <1>0 DEF LocalTypeOK, RowsRegistered, CompleteChunk
<1>2. \A w \in Workers : SwapReady(call[w])'
  BY <1>1 DEF LocalInv, SwapReady
<1>3. CASE UNCHANGED <<atom, acks>>
  BY <1>0, <1>1, <1>2, <1>3 DEF LocalInv, LocalTypeOK, RowsRegistered, AcceptedIsCompleted,
     CapacityRespected
<1>4. ASSUME NEW now, Accepts(k, now),
             atom' = [atom EXCEPT !.status[k.chunk] = "completed", !.result[k.chunk] = r],
             acks' = acks \cup {[chunk |-> k.chunk, token |-> k.token]}
      PROVE  LocalInv'
  <2>1. atom.status[k.chunk] = "leased" /\ atom.token[k.chunk] = k.token
    BY <1>4 DEF Accepts
  <2> HIDE DEF k
  <2>2. /\ atom'.run = atom.run /\ atom'.chunks = atom.chunks /\ atom'.token = atom.token
        /\ atom'.expires = atom.expires /\ atom'.key = atom.key
        /\ atom'.status = [atom.status EXCEPT ![k.chunk] = "completed"]
    BY <1>1, <1>4 DEF AtomState
  <2>3. atom' \in AtomState
    <3>1. /\ [atom.status EXCEPT ![k.chunk] = "completed"]
                \in [Chunks -> {"pending", "leased", "completed"}]
          /\ [atom.result EXCEPT ![k.chunk] = r] \in [Chunks -> Results \cup {NoValue}]
      BY <1>1 DEF AtomState
    <3> QED
      BY <1>1, <1>4, <3>1 DEF AtomState
  <2>4. [chunk |-> k.chunk, token |-> k.token] \in [chunk : Chunks, token : Tokens]
    BY <1>1 DEF LeaseRecord
  <2>5. LocalTypeOK'
    BY <1>0, <1>1, <1>4, <2>3, <2>4 DEF LocalTypeOK
  <2>6. RowsRegistered'
    BY <1>0, <1>1, <2>1, <2>2 DEF RowsRegistered, AtomState
  <2>7. AcceptedIsCompleted'
    <3> SUFFICES ASSUME NEW a \in acks'
                 PROVE  atom'.status[a.chunk] = "completed" /\ atom'.token[a.chunk] = a.token
      BY DEF AcceptedIsCompleted
    <3>1. CASE a \in acks
      <4>1. a.chunk \in Chunks
        BY <1>0, <3>1 DEF LocalTypeOK
      <4> QED
        BY <1>0, <1>1, <2>2, <3>1, <4>1 DEF AcceptedIsCompleted, AtomState
    <3>2. CASE a = [chunk |-> k.chunk, token |-> k.token]
      BY <1>1, <2>1, <2>2, <3>2 DEF AtomState
    <3> QED
      BY <1>4, <3>1, <3>2
  <2>8. ASSUME NEW key \in Keys
        PROVE  ActiveLeases(atom', clock', key) \subseteq ActiveLeases(atom, clock, key)
    BY <1>1, <2>2 DEF ActiveLeases, AtomState
  <2>9. CapacityRespected'
    BY <1>0, <2>8, CapacityKept
  <2> QED
    BY <1>2, <2>5, <2>6, <2>7, <2>9 DEF LocalInv
<1> QED
  BY <1>3, <1>4 DEF CompleteChunk

(* Registration, completion of the run and the passing of time. *)
LEMMA RunStep ==
  ASSUME LocalInv,
         \/ \E s \in (SUBSET Chunks) \ {{}} : RegisterRun(s)
         \/ MarkRunExecutionComplete \/ Tick \/ UNCHANGED vars
  PROVE  LocalInv'
<1>0. /\ LocalTypeOK /\ RowsRegistered /\ AcceptedIsCompleted /\ CapacityRespected
      /\ atom \in AtomState /\ clock \in Nat
  BY DEF LocalInv, LocalTypeOK
<1>1. ASSUME NEW s \in (SUBSET Chunks) \ {{}}, RegisterRun(s) PROVE LocalInv'
  <2>1. /\ atom.run = "absent" /\ atom' = [atom EXCEPT !.run = "dispatching", !.chunks = s]
        /\ UNCHANGED <<clock, call, calls, uuids, claims, acks>>
    BY <1>1 DEF RegisterRun
  <2>2. /\ atom' \in AtomState /\ atom'.run = "dispatching" /\ atom'.status = atom.status
        /\ atom'.token = atom.token
    BY <1>0, <2>1 DEF AtomState
  <2>3. LocalTypeOK' /\ \A w \in Workers : SwapReady(call[w])'
    BY <1>0, <2>1, <2>2 DEF LocalTypeOK, LocalInv, SwapReady
  <2>4. \A c \in Chunks : atom.status[c] = "pending"
    BY <1>0, <2>1 DEF RowsRegistered
  <2>5. RowsRegistered' /\ AcceptedIsCompleted'
    BY <1>0, <2>1, <2>2, <2>4 DEF RowsRegistered, AcceptedIsCompleted
  <2>6. ASSUME NEW k \in Keys
        PROVE  ActiveLeases(atom', clock', k) \subseteq ActiveLeases(atom, clock, k)
    BY <2>2, <2>4 DEF ActiveLeases, AtomState
  <2>7. CapacityRespected'
    BY <1>0, <2>6, CapacityKept
  <2> QED
    BY <2>3, <2>5, <2>7 DEF LocalInv
<1>2. CASE MarkRunExecutionComplete
  <2>1. /\ atom.run # "absent" /\ atom' = [atom EXCEPT !.run = "execution-complete"]
        /\ UNCHANGED <<clock, call, calls, uuids, claims, acks>>
    BY <1>2 DEF MarkRunExecutionComplete
  <2>2. /\ atom' \in AtomState /\ atom'.run = "execution-complete" /\ atom'.status = atom.status
        /\ atom'.token = atom.token /\ atom'.chunks = atom.chunks
        /\ atom'.expires = atom.expires /\ atom'.key = atom.key
    BY <1>0, <2>1 DEF AtomState
  <2>3. LocalTypeOK' /\ \A w \in Workers : SwapReady(call[w])'
    BY <1>0, <2>1, <2>2 DEF LocalTypeOK, LocalInv, SwapReady
  <2>4. RowsRegistered' /\ AcceptedIsCompleted'
    BY <1>0, <2>1, <2>2 DEF RowsRegistered, AcceptedIsCompleted
  <2>5. ASSUME NEW k \in Keys
        PROVE  ActiveLeases(atom', clock', k) \subseteq ActiveLeases(atom, clock, k)
    BY <2>1, <2>2 DEF ActiveLeases
  <2>6. CapacityRespected'
    BY <1>0, <2>5, CapacityKept
  <2> QED
    BY <2>3, <2>4, <2>6 DEF LocalInv
<1>3. CASE Tick
  <2>1. clock' = clock + 1 /\ UNCHANGED <<atom, call, calls, uuids, claims, acks>>
    BY <1>3 DEF Tick
  <2>2. LocalTypeOK' /\ RowsRegistered' /\ AcceptedIsCompleted'
    BY <1>0, <2>1 DEF LocalTypeOK, RowsRegistered, AcceptedIsCompleted
  <2>3. ASSUME NEW w \in Workers PROVE SwapReady(call[w])'
    <3>1. call[w] \in CallState /\ SwapReady(call[w]) /\ call'[w] = call[w]
      BY <1>0, <2>1 DEF LocalTypeOK, LocalInv
    <3>2. call[w].now \in Nat /\ (call[w].now <= clock => call[w].now <= clock')
      BY <1>0, <2>1, <3>1 DEF CallState
    <3> QED
      BY <3>1, <3>2 DEF SwapReady
  <2>4. ASSUME NEW k \in Keys
        PROVE  ActiveLeases(atom', clock', k) \subseteq ActiveLeases(atom, clock, k)
    BY <1>0, <2>1 DEF ActiveLeases, AtomState
  <2>5. CapacityRespected'
    BY <1>0, <2>4, CapacityKept
  <2> QED
    BY <2>2, <2>3, <2>5 DEF LocalInv
<1>4. CASE UNCHANGED vars
  <2>1. UNCHANGED <<atom, clock, call, calls, uuids, claims, acks>>
    BY <1>4 DEF vars
  <2>2. LocalTypeOK' /\ RowsRegistered' /\ AcceptedIsCompleted' /\ CapacityRespected'
    BY <1>0, <2>1 DEF LocalTypeOK, RowsRegistered, AcceptedIsCompleted, CapacityRespected
  <2>3. \A w \in Workers : SwapReady(call[w])'
    BY <2>1 DEF LocalInv, SwapReady
  <2> QED
    BY <2>2, <2>3 DEF LocalInv
<1> QED
  BY <1>1, <1>2, <1>3, <1>4

-----------------------------------------------------------------------------
(* The inductive invariant of the coordinator. *)
THEOREM LocalInvariant == Spec => []LocalInv
<1>1. LocalInv /\ [Next]_vars => LocalInv'
  BY ClaimStartStep, ClaimAttemptStep, ClaimSwapStep, CompleteChunkStep, RunStep DEF Next
<1> QED
  BY LocalInit, <1>1, PTL DEF Spec

(* claim-chunk! never lets the unexpired leases of a local key exceed its
   capacity or budget, however many claims race and however late a
   compare-and-set comes. *)
THEOREM CapacityHeld == Spec => []CapacityRespected
<1>1. LocalInv => CapacityRespected
  BY DEF LocalInv
<1> QED
  BY LocalInvariant, <1>1, PTL

(* complete-chunk! never accepts under a lease that only a failed
   compare-and-set produced. *)
THEOREM AcceptanceUnderHeldToken == Spec => []AcceptedUnderHeldToken
<1>1. LocalInv => AcceptedUnderHeldToken
  BY DEF LocalInv, AcceptedIsCompleted, AcceptedUnderHeldToken
<1> QED
  BY LocalInvariant, <1>1, PTL

(* The in-memory coordinator implements the abstract one: of all the steps of
   a racing claim only the won compare-and-set is visible, as a lease. *)
THEOREM LocalImplementsFencedChunks == Spec => RefinesFencedChunks
<1>1. Init => Abstract!Init
  BY DEF Init, Abstract!Init
<1>2. LocalInv /\ [Next]_vars => [Abstract!Next]_(Abstract!chunkVars)
  <2> SUFFICES ASSUME LocalInv, [Next]_vars
               PROVE  Abstract!Next \/ UNCHANGED Abstract!chunkVars
    OBVIOUS
  <2>0. atom \in AtomState
    BY DEF LocalInv, LocalTypeOK
  <2>1. ASSUME NEW s \in (SUBSET Chunks) \ {{}}, RegisterRun(s) PROVE Abstract!Next
    <3>1. Abstract!Register
      BY <2>0, <2>1 DEF RegisterRun, Abstract!Register, AtomState
    <3> QED
      BY <3>1 DEF Abstract!Next
  <2>2. ASSUME UNCHANGED atom PROVE UNCHANGED Abstract!chunkVars
    BY <2>2 DEF Abstract!chunkVars
  <2>3. ASSUME NEW w \in Workers, ClaimSwap(w)
        PROVE  Abstract!Next \/ UNCHANGED Abstract!chunkVars
    <3>1. CASE ~Cas(w) \/ call[w].write = NoLease
      <4>1. UNCHANGED atom
        BY <2>3, <3>1 DEF ClaimSwap
      <4> QED
        BY <2>2, <4>1
    <3>2. CASE Cas(w) /\ call[w].write # NoLease
      <4> DEFINE l == call[w].write
      <4>1. /\ atom' = Leased(atom, l, call[w].key)
            /\ atom.run = "dispatching" /\ l.chunk \in atom.chunks /\ l.chunk \in Chunks
            /\ atom.status[l.chunk] # "completed" /\ l.fence = atom.fence[l.chunk] + 1
        BY <2>3, <3>2, LeaseTaken
      <4> HIDE DEF l
      <4>2. /\ atom'.run = atom.run /\ atom'.chunks = atom.chunks /\ atom'.result = atom.result
            /\ atom'.status = [atom.status EXCEPT ![l.chunk] = "leased"]
            /\ atom'.fence = [atom.fence EXCEPT ![l.chunk] = @ + 1]
        BY <2>0, <4>1 DEF Leased, AtomState
      <4>3. Abstract!Lease(l.chunk)
        BY <4>1, <4>2 DEF Abstract!Lease
      <4> QED
        BY <4>1, <4>3 DEF Abstract!Next
    <3> QED
      BY <3>1, <3>2
  <2>4. ASSUME NEW claim \in claims, NEW r \in Results, CompleteChunk(claim, r)
        PROVE  Abstract!Next \/ UNCHANGED Abstract!chunkVars
    <3> DEFINE k == claim.lease
    <3>1. k.chunk \in Chunks
      BY DEF LocalInv, RowsRegistered
    <3>2. CASE UNCHANGED atom
      BY <2>2, <3>2
    <3>3. ASSUME NEW now, Accepts(k, now),
                 atom' = [atom EXCEPT !.status[k.chunk] = "completed", !.result[k.chunk] = r]
          PROVE  Abstract!Next
      <4>1. atom.run = "dispatching" /\ atom.status[k.chunk] = "leased"
        BY <3>3 DEF Accepts
      <4> HIDE DEF k
      <4>2. /\ atom'.run = atom.run /\ atom'.chunks = atom.chunks /\ atom'.fence = atom.fence
            /\ atom'.status = [atom.status EXCEPT ![k.chunk] = "completed"]
            /\ atom'.result = [atom.result EXCEPT ![k.chunk] = r]
        BY <2>0, <3>1, <3>3 DEF AtomState
      <4>3. Abstract!Accept(k.chunk, r)
        BY <4>1, <4>2 DEF Abstract!Accept
      <4> QED
        BY <3>1, <4>3 DEF Abstract!Next
    <3> QED
      BY <2>4, <3>2, <3>3 DEF CompleteChunk
  <2>5. ASSUME MarkRunExecutionComplete PROVE Abstract!Next \/ UNCHANGED Abstract!chunkVars
    <3>1. /\ atom.run # "absent" /\ AllCompleted
          /\ atom'.run = "execution-complete" /\ atom'.chunks = atom.chunks
          /\ atom'.status = atom.status /\ atom'.fence = atom.fence /\ atom'.result = atom.result
      BY <2>0, <2>5 DEF MarkRunExecutionComplete, AtomState
    <3>2. CASE atom.run = "dispatching"
      <4>1. Abstract!Finish
        BY <3>1, <3>2 DEF Abstract!Finish, AllCompleted
      <4> QED
        BY <4>1 DEF Abstract!Next
    <3>3. CASE atom.run = "execution-complete"
      BY <3>1, <3>3 DEF Abstract!chunkVars
    <3> QED
      BY <2>0, <3>1, <3>2, <3>3 DEF AtomState
  <2>6. ASSUME \/ \E w \in Workers : \/ \E k \in Keys \cup {NoValue} : ClaimStart(w, k)
                                     \/ ClaimAttempt(w)
               \/ Tick \/ UNCHANGED vars
        PROVE  UNCHANGED atom
    BY <2>6 DEF ClaimStart, ClaimAttempt, Tick, vars
  <2> QED
    BY <2>1, <2>2, <2>3, <2>4, <2>5, <2>6 DEF Next
<1> QED
  BY LocalInvariant, <1>1, <1>2, PTL DEF Spec, RefinesFencedChunks, Abstract!Spec
=============================================================================
