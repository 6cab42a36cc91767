--------------------- MODULE ProRataFinalization_proofs ---------------------
(***************************************************************************)
(* Proofs about ProRataFinalization for any processes, orderings and bounds. *)
(*                                                                         *)
(* The checked invariants speak of what a realization or a lane shows.  To   *)
(* be inductive they need what the two threads of a process are about to do: *)
(* the answer the executing thread holds (ThreadPositions), that everything   *)
(* past the answer rests on a published ordering (Authorised), and that the   *)
(* right to call the sink is one token, which the CAS of emitted? hands to    *)
(* one of the threads and which the delivery uses up (DeliveryToken).         *)
(***************************************************************************)
EXTENDS ProRataFinalization, TLAPS

LaneRecord ==
  [ lifecycle            : lane_states,
    generation           : Nat,
    expected_parent_root : Seq(Orderings) \cup {NoValue},
    requires_quiescence  : BOOLEAN,
    contributing_open    : Nat,
    executor_backed      : Nat,
    quiesced             : Nat,
    finalizer            : {NoValue} \cup [ id              : Procs,
                                            lane_generation : Nat,
                                            expected_parent : Seq(Orderings) \cup {NoValue} ],
    result               : {NoValue, "committed", "idempotent"},
    abort_reason         : {NoValue, "write-threw", "write-rejected"} ]

Realization ==
  [ lifecycle : {"open", "frozen", "finalized"}, executor_backed : Nat, quiesced : Nat,
    emitted : BOOLEAN ]

Positions ==
  {"idle", "executing", "fenced", "frozen", "closed", "committing", "answered",
   "projecting", "emitting", "delivering", "done", "raised"}

Answers == {"contention", "idempotent", "rejected", "committed", "threw"}

(* The type of the store row, of both threads and of what they hold. *)
FinalizationTypeOK ==
  /\ log \in Seq(Orderings) /\ version \in Nat
  /\ pc \in [Procs -> Positions] /\ gen \in [Procs -> Nat]
  /\ cand \in [Procs -> Orderings \cup {NoValue}]
  /\ lane \in [Procs -> LaneRecord] /\ real \in [Procs -> Realization]
  /\ fence \in [Procs -> [parent : Seq(Orderings), version : Nat]]
  /\ attempts \in [Procs -> Nat]
  /\ reply \in [Procs -> Answers \cup {"none"}]
  /\ rpc \in [Procs -> {"idle", "finalizing", "emitting", "delivering"}]
  /\ delivered \in [Procs -> Nat] /\ authored \in [Procs -> BOOLEAN]

(* Where the executing thread stands fixes the lifecycle of its lane, and the
   answer it holds says what its transaction did. *)
ThreadPositions(p) ==
  /\ pc[p] # "idle" => cand[p] \in Orderings
  /\ pc[p] \in {"executing", "fenced", "frozen"} => lane[p].lifecycle = "open"
  /\ pc[p] = "closed" => lane[p].lifecycle = "execution-closed"
  /\ pc[p] \in {"committing", "answered"} => lane[p].lifecycle = "finalizing"
  /\ pc[p] \in {"idle", "executing", "fenced", "frozen", "closed", "committing"} => ~authored[p]
  /\ pc[p] = "answered" => /\ reply[p] \in Answers
                           /\ reply[p] \in {"committed", "idempotent"} => cand[p] \in Published
                           /\ reply[p] \notin {"committed", "threw"} => ~authored[p]

(* Whatever projects or has projected locally does so for a published ordering. *)
Authorised(p) ==
  \/ pc[p] \in {"projecting", "emitting", "delivering"} \/ rpc[p] # "idle"
  \/ real[p].lifecycle = "finalized" \/ real[p].emitted \/ delivered[p] > 0
  \/ lane[p].lifecycle = "finalized" \/ authored[p]
  => cand[p] \in Published

(* The lane's record of a transaction that advanced the head. *)
LaneRecordsWrite(p) ==
  /\ authored[p] => lane[p].lifecycle \in {"finalizing"} \cup TerminalLaneStates
  /\ lane[p].lifecycle = "aborted" /\ lane[p].abort_reason = "write-rejected" => ~authored[p]

(* At most one of: the executing thread may call the sink, the reconciling
   thread may, the sink was called. *)
DeliveryToken(p) ==
  /\ pc[p] = "delivering" \/ rpc[p] = "delivering" \/ delivered[p] > 0 => real[p].emitted
  /\ pc[p] = "delivering" => rpc[p] # "delivering"
  /\ pc[p] = "delivering" \/ rpc[p] = "delivering" => delivered[p] = 0
  /\ delivered[p] <= 1

ProcInv(p) ==
  ThreadPositions(p) /\ Authorised(p) /\ LaneRecordsWrite(p) /\ DeliveryToken(p)

FinalizationInv == FinalizationTypeOK /\ \A p \in Procs : ProcInv(p)

-----------------------------------------------------------------------------
(* Facts about the operators. *)

(* The swap! functions of the lane keep it a lane and change only what their
   names say: the lifecycle and the outcome fields. *)
LEMMA LaneOpsType ==
  ASSUME NEW l \in LaneRecord
  PROVE  /\ RecordDispatch(l) \in LaneRecord /\ RecordDispatch(l).lifecycle = l.lifecycle
         /\ RecordQuiesced(l) \in LaneRecord /\ RecordQuiesced(l).lifecycle = l.lifecycle
         /\ CloseExecution(l) \in LaneRecord /\ CloseExecution(l).lifecycle = "execution-closed"
         /\ \A p \in Procs : Elect(l, p) \in LaneRecord /\ Elect(l, p).lifecycle = "finalizing"
         /\ \A r \in {"committed", "idempotent"} :
              RecordCommitted(l, r) \in LaneRecord /\ RecordCommitted(l, r).lifecycle = "finalized"
         /\ \A r \in {"write-threw", "write-rejected"} :
              /\ RecordAborted(l, r) \in LaneRecord /\ RecordAborted(l, r).lifecycle = "aborted"
              /\ RecordAborted(l, r).abort_reason = r
<1> USE DEF LaneRecord, lane_states
<1>1. RecordDispatch(l) \in LaneRecord /\ RecordDispatch(l).lifecycle = l.lifecycle
  BY DEF RecordDispatch
<1>2. RecordQuiesced(l) \in LaneRecord /\ RecordQuiesced(l).lifecycle = l.lifecycle
  BY DEF RecordQuiesced
<1>3. CloseExecution(l) \in LaneRecord /\ CloseExecution(l).lifecycle = "execution-closed"
  BY DEF CloseExecution
<1>4. \A p \in Procs : Elect(l, p) \in LaneRecord /\ Elect(l, p).lifecycle = "finalizing"
  BY DEF Elect
<1>5. \A r \in {"committed", "idempotent"} :
        RecordCommitted(l, r) \in LaneRecord /\ RecordCommitted(l, r).lifecycle = "finalized"
  BY DEF RecordCommitted
<1>6. \A r \in {"write-threw", "write-rejected"} :
        /\ RecordAborted(l, r) \in LaneRecord /\ RecordAborted(l, r).lifecycle = "aborted"
        /\ RecordAborted(l, r).abort_reason = r
  BY DEF RecordAborted
<1> QED
  BY <1>1, <1>2, <1>3, <1>4, <1>5, <1>6

(* The transitions of the realization keep it one and change one field each. *)
LEMMA RealizationOpsType ==
  ASSUME NEW r \in Realization
  PROVE  /\ [r EXCEPT !.lifecycle = "frozen"] \in Realization
         /\ [r EXCEPT !.lifecycle = "frozen"].lifecycle = "frozen"
         /\ [r EXCEPT !.lifecycle = "frozen"].emitted = r.emitted
         /\ FinalizeRealization(r) \in Realization
         /\ FinalizeRealization(r).emitted = r.emitted
         /\ [r EXCEPT !.emitted = TRUE] \in Realization
         /\ [r EXCEPT !.emitted = TRUE].emitted = TRUE
         /\ [r EXCEPT !.emitted = TRUE].lifecycle = r.lifecycle
  BY DEF Realization, FinalizeRealization

(* A lane opened for the current head is a lane, and open. *)
LEMMA OpenLaneType ==
  ASSUME NEW g \in Nat, NEW parent \in Seq(Orderings) \cup {NoValue}
  PROVE  OpenLane(g, parent, TRUE) \in LaneRecord /\ OpenLane(g, parent, TRUE).lifecycle = "open"
  BY DEF OpenLane, LaneRecord, lane_states

(* What the transaction does to the history: nothing is removed, and a
   committed candidate is in it. *)
LEMMA CommitGrows ==
  ASSUME log \in Seq(Orderings), version \in Nat, authored \in [Procs -> BOOLEAN],
         NEW p \in Procs, cand[p] \in Orderings, Commit(p)
  PROVE  /\ log' \in Seq(Orderings) /\ version' \in Nat /\ authored' \in [Procs -> BOOLEAN]
         /\ Published \subseteq Published'
         /\ Decision(p) = "committed" => cand[p] \in Published' /\ authored'[p]
         /\ Decision(p) # "committed" => authored'[p] = authored[p]
         /\ \A q \in Procs \ {p} : authored'[q] = authored[q]
<1>1. CASE Decision(p) = "committed"
  <2>1. /\ log' = Append(log, cand[p]) /\ version' = version + 1
        /\ authored' = [authored EXCEPT ![p] = TRUE]
    BY <1>1 DEF Commit
  <2>2. /\ DOMAIN log = 1..Len(log) /\ DOMAIN log' = 1..(Len(log) + 1)
        /\ Len(log) \in Nat /\ log'[Len(log) + 1] = cand[p]
        /\ \A i \in 1..Len(log) : log'[i] = log[i]
    BY <2>1
  <2>3. Published \subseteq Published' /\ cand[p] \in Published'
    BY <2>2 DEF Published
  <2> QED
    BY <1>1, <2>1, <2>3
<1>2. CASE Decision(p) # "committed"
  <2>1. UNCHANGED <<log, version, authored>>
    BY <1>2 DEF Commit
  <2> QED
    BY <1>2, <2>1 DEF Published
<1> QED
  BY <1>1, <1>2

(* The store's answers; "idempotent" is given only for the published head. *)
LEMMA DecisionAnswers ==
  ASSUME log \in Seq(Orderings), NEW p \in Procs, cand[p] \in Orderings
  PROVE  /\ Decision(p) \in {"contention", "idempotent", "rejected", "committed"}
         /\ Decision(p) = "idempotent" => cand[p] \in Published
         /\ Decision(p) = "committed" => History!Succeeds(log, cand[p])
<1>1. Decision(p) \in {"contention", "idempotent", "rejected", "committed"}
  BY DEF Decision
<1>2. Decision(p) = "idempotent" => History!LastOf(log) = cand[p]
  BY DEF Decision
<1>3. History!LastOf(log) = cand[p] => cand[p] \in Published
  <2> SUFFICES ASSUME History!LastOf(log) = cand[p] PROVE cand[p] \in Published
    OBVIOUS
  <2>1. log # << >>
    BY FinalizationConstants DEF History!LastOf
  <2>2. Len(log) \in DOMAIN log
    BY <2>1
  <2> QED
    BY <2>1, <2>2 DEF History!LastOf, Published
<1>4. Decision(p) = "committed" => History!Succeeds(log, cand[p])
  BY DEF Decision
<1> QED
  BY <1>1, <1>2, <1>3, <1>4

(* A process whose own state a step leaves alone keeps its invariant while the
   history grows. *)
Untouched(q) ==
  /\ pc'[q] = pc[q] /\ cand'[q] = cand[q] /\ lane'[q] = lane[q] /\ real'[q] = real[q]
  /\ reply'[q] = reply[q] /\ rpc'[q] = rpc[q] /\ delivered'[q] = delivered[q]
  /\ authored'[q] = authored[q]

LEMMA UntouchedKeeps ==
  ASSUME NEW q \in Procs, ProcInv(q), Untouched(q), Published \subseteq Published'
  PROVE  ProcInv(q)'
<1> USE DEF Untouched, ProcInv
<1>1. ThreadPositions(q)'
  BY DEF ThreadPositions
<1>2. Authorised(q)'
  BY DEF Authorised
<1>3. LaneRecordsWrite(q)' /\ DeliveryToken(q)'
  BY DEF LaneRecordsWrite, DeliveryToken
<1> QED
  BY <1>1, <1>2, <1>3

(* Idle processes and an empty history. *)
LEMMA FinalizationInit == Init => FinalizationInv
<1> SUFFICES ASSUME Init PROVE FinalizationInv
  OBVIOUS
<1>1. OpenLane(0, NoValue, TRUE) \in LaneRecord /\ OpenLane(0, NoValue, TRUE).lifecycle = "open"
  BY OpenLaneType
<1>2. FinalizationTypeOK
  <2>1. OpenRealization \in Realization /\ NoFence \in [parent : Seq(Orderings), version : Nat]
    BY DEF OpenRealization, Realization, NoFence
  <2>2. log \in Seq(Orderings) /\ version \in Nat
    BY DEF Init
  <2> QED
    BY <1>1, <2>1, <2>2 DEF Init, FinalizationTypeOK, Positions
<1>3. ASSUME NEW p \in Procs PROVE ProcInv(p)
  <2>1. /\ pc[p] = "idle" /\ rpc[p] = "idle" /\ delivered[p] = 0 /\ authored[p] = FALSE
        /\ lane[p].lifecycle = "open" /\ real[p].lifecycle = "open" /\ real[p].emitted = FALSE
    BY <1>1 DEF Init, OpenRealization
  <2> QED
    BY <2>1 DEF ProcInv, ThreadPositions, Authorised, LaneRecordsWrite, DeliveryToken
<1> QED
  BY <1>2, <1>3 DEF FinalizationInv

-----------------------------------------------------------------------------
(* A step of one process: types hold afterwards, the process keeps its
   invariant, the history has not shrunk, and nobody else was touched. *)
StepOf(p) ==
  /\ FinalizationTypeOK' /\ ProcInv(p)' /\ Published \subseteq Published'
  /\ \A q \in Procs \ {p} : Untouched(q)

LEMMA StepOfKeeps ==
  ASSUME FinalizationInv, NEW p \in Procs, StepOf(p) PROVE FinalizationInv'
  BY UntouchedKeeps DEF StepOf, FinalizationInv

(* Opening a lane, running an executor-backed phase and reading the fence. *)
LEMMA ExecuteStep ==
  ASSUME FinalizationInv, NEW p \in Procs, Execute(p) PROVE StepOf(p)
<1>0. FinalizationTypeOK /\ ProcInv(p)
  BY DEF FinalizationInv
<1>1. CASE Open(p)
  <2>1. PICK o \in Orderings : cand' = [cand EXCEPT ![p] = o]
    BY <1>1 DEF Open
  <2>2. /\ OpenRealization \in Realization /\ OpenRealization.lifecycle = "open"
        /\ OpenRealization.emitted = FALSE
        /\ NoFence \in [parent : Seq(Orderings), version : Nat]
    BY DEF OpenRealization, Realization, NoFence
  <2>3. gen' \in [Procs -> Nat] /\ gen'[p] \in Nat
    BY <1>0, <1>1 DEF Open, FinalizationTypeOK
  <2>4. /\ OpenLane(gen'[p], log, TRUE) \in LaneRecord
        /\ OpenLane(gen'[p], log, TRUE).lifecycle = "open"
    BY <1>0, <2>3, OpenLaneType DEF FinalizationTypeOK
  <2>5. FinalizationTypeOK'
    BY <1>0, <1>1, <2>1, <2>2, <2>3, <2>4 DEF Open, FinalizationTypeOK, Positions
  <2>6. /\ pc'[p] = "executing" /\ rpc'[p] = "idle" /\ cand'[p] = o
        /\ lane'[p].lifecycle = "open" /\ real'[p].lifecycle = "open"
        /\ real'[p].emitted = FALSE /\ delivered'[p] = 0 /\ authored'[p] = FALSE
    BY <1>0, <1>1, <2>1, <2>2, <2>4 DEF Open, FinalizationTypeOK
  <2>7. ProcInv(p)'
    BY <2>6 DEF ProcInv, ThreadPositions, Authorised, LaneRecordsWrite, DeliveryToken
  <2>8. Published \subseteq Published' /\ \A q \in Procs \ {p} : Untouched(q)
    BY <1>0, <1>1, <2>1 DEF Open, FinalizationTypeOK, Published, Untouched
  <2> QED
    BY <2>5, <2>7, <2>8 DEF StepOf
<1>2. CASE RunPhase(p)
  <2>1. PICK terminated \in BOOLEAN :
          /\ lane' = [lane EXCEPT ![p] = IF terminated THEN RecordQuiesced(RecordDispatch(@))
                                                        ELSE RecordDispatch(@)]
          /\ real' = [real EXCEPT ![p].executor_backed = @ + 1,
                                  ![p].quiesced = IF terminated THEN @ + 1 ELSE @]
          /\ pc' = IF terminated THEN pc ELSE [pc EXCEPT ![p] = "raised"]
    BY <1>2 DEF RunPhase
  <2>2. /\ pc[p] = "executing"
        /\ UNCHANGED <<log, version, gen, cand, fence, attempts, reply, rpc, delivered, authored>>
    BY <1>2 DEF RunPhase
  <2>3. lane' \in [Procs -> LaneRecord] /\ lane'[p].lifecycle = lane[p].lifecycle
    BY <1>0, <2>1, LaneOpsType DEF FinalizationTypeOK
  <2>4. /\ real' \in [Procs -> Realization]
        /\ real'[p].lifecycle = real[p].lifecycle /\ real'[p].emitted = real[p].emitted
    <3> DEFINE counted == [real[p] EXCEPT !.executor_backed = @ + 1,
                                          !.quiesced = IF terminated THEN @ + 1 ELSE @]
    <3>1. real' = [real EXCEPT ![p] = counted]
      BY <1>0, <2>1 DEF FinalizationTypeOK, Realization
    <3>2. real[p] \in Realization
      BY <1>0 DEF FinalizationTypeOK
    <3>3. /\ counted \in Realization
          /\ counted.lifecycle = real[p].lifecycle /\ counted.emitted = real[p].emitted
      <4> DEFINE n == IF terminated THEN real[p].quiesced + 1 ELSE real[p].quiesced
      <4>1. n \in Nat /\ real[p].executor_backed + 1 \in Nat
        BY <3>2 DEF Realization
      <4> HIDE DEF n
      <4>2. [real[p] EXCEPT !.executor_backed = @ + 1, !.quiesced = n] \in Realization
        BY <3>2, <4>1 DEF Realization
      <4> QED
        BY <3>2, <4>2 DEF Realization, n
    <3> HIDE DEF counted
    <3> QED
      BY <1>0, <3>1, <3>3 DEF FinalizationTypeOK
  <2>5. FinalizationTypeOK'
    BY <1>0, <2>1, <2>2, <2>3, <2>4 DEF FinalizationTypeOK, Positions
  <2>6. pc'[p] \in {"executing", "raised"}
    BY <1>0, <2>1, <2>2 DEF FinalizationTypeOK
  <2>7. Published' = Published
    BY <2>2 DEF Published
  <2>8. ProcInv(p)'
    BY <1>0, <2>2, <2>3, <2>4, <2>6, <2>7 DEF ProcInv, ThreadPositions, Authorised,
       LaneRecordsWrite, DeliveryToken
  <2>9. \A q \in Procs \ {p} : Untouched(q)
    BY <1>0, <2>1, <2>2 DEF FinalizationTypeOK, Untouched
  <2> QED
    BY <2>5, <2>7, <2>8, <2>9 DEF StepOf
<1>3. CASE ReadFence(p)
  <2>1. /\ pc[p] = "executing" /\ pc' \in {[pc EXCEPT ![p] = "fenced"], [pc EXCEPT ![p] = "raised"]}
        /\ fence' \in {fence, [fence EXCEPT ![p] = [parent |-> log, version |-> version]]}
        /\ UNCHANGED <<log, version, gen, cand, lane, real, attempts, reply, rpc, delivered, authored>>
    BY <1>3 DEF ReadFence
  <2>2. FinalizationTypeOK'
    <3>1. [parent |-> log, version |-> version] \in [parent : Seq(Orderings), version : Nat]
      BY <1>0 DEF FinalizationTypeOK
    <3>2. fence' \in [Procs -> [parent : Seq(Orderings), version : Nat]]
      BY <1>0, <2>1, <3>1 DEF FinalizationTypeOK
    <3>3. pc' \in [Procs -> Positions]
      BY <1>0, <2>1 DEF FinalizationTypeOK, Positions
    <3> QED
      BY <1>0, <2>1, <3>2, <3>3 DEF FinalizationTypeOK
  <2>3. pc'[p] \in {"fenced", "raised"} /\ Published' = Published
    BY <1>0, <2>1 DEF FinalizationTypeOK, Published
  <2>4. ProcInv(p)'
    BY <1>0, <2>1, <2>3 DEF ProcInv, ThreadPositions, Authorised, LaneRecordsWrite, DeliveryToken
  <2>5. \A q \in Procs \ {p} : Untouched(q)
    BY <1>0, <2>1 DEF FinalizationTypeOK, Untouched
  <2> QED
    BY <2>2, <2>3, <2>4, <2>5 DEF StepOf
<1> QED
  BY <1>1, <1>2, <1>3 DEF Execute

(* Freezing the realization, closing the lane and electing the finalizer. *)
LEMMA ElectStep ==
  ASSUME FinalizationInv, NEW p \in Procs, Freeze(p) \/ Close(p) \/ ElectFinalizer(p)
  PROVE  StepOf(p)
<1>0. FinalizationTypeOK /\ ProcInv(p)
  BY DEF FinalizationInv
<1> USE DEF Goto
<1>1. CASE Freeze(p)
  <2>1. /\ pc[p] = "fenced" /\ pc' = [pc EXCEPT ![p] = "frozen"]
        /\ real' = [real EXCEPT ![p].lifecycle = "frozen"]
        /\ UNCHANGED <<log, version, gen, cand, lane, fence, attempts, reply, rpc, delivered,
                       authored>>
    BY <1>1 DEF Freeze
  <2>2. /\ real' \in [Procs -> Realization] /\ real'[p].lifecycle = "frozen"
        /\ real'[p].emitted = real[p].emitted
    <3>1. real' = [real EXCEPT ![p] = [real[p] EXCEPT !.lifecycle = "frozen"]]
      BY <2>1
    <3> QED
      BY <1>0, <3>1, RealizationOpsType DEF FinalizationTypeOK
  <2>3. FinalizationTypeOK'
    BY <1>0, <2>1, <2>2 DEF FinalizationTypeOK, Positions
  <2>4. pc'[p] = "frozen" /\ Published' = Published
    BY <1>0, <2>1 DEF FinalizationTypeOK, Published
  <2>5. ProcInv(p)'
    BY <1>0, <2>1, <2>2, <2>4 DEF ProcInv, ThreadPositions, Authorised, LaneRecordsWrite,
       DeliveryToken
  <2>6. \A q \in Procs \ {p} : Untouched(q)
    BY <1>0, <2>1 DEF FinalizationTypeOK, Untouched
  <2> QED
    BY <2>3, <2>4, <2>5, <2>6 DEF StepOf
<1>2. CASE Close(p)
  <2>1. /\ pc[p] = "frozen" /\ pc' = [pc EXCEPT ![p] = "closed"]
        /\ lane' = [lane EXCEPT ![p] = CloseExecution(@)]
        /\ UNCHANGED <<log, version, gen, cand, real, fence, attempts, reply, rpc, delivered,
                       authored>>
    BY <1>2 DEF Close
  <2>2. lane' \in [Procs -> LaneRecord] /\ lane'[p].lifecycle = "execution-closed"
    BY <1>0, <2>1, LaneOpsType DEF FinalizationTypeOK
  <2>3. FinalizationTypeOK'
    BY <1>0, <2>1, <2>2 DEF FinalizationTypeOK, Positions
  <2>4. pc'[p] = "closed" /\ Published' = Published
    BY <1>0, <2>1 DEF FinalizationTypeOK, Published
  <2>5. ProcInv(p)'
    BY <1>0, <2>1, <2>2, <2>4 DEF ProcInv, ThreadPositions, Authorised, LaneRecordsWrite,
       DeliveryToken
  <2>6. \A q \in Procs \ {p} : Untouched(q)
    BY <1>0, <2>1 DEF FinalizationTypeOK, Untouched
  <2> QED
    BY <2>3, <2>4, <2>5, <2>6 DEF StepOf
<1>3. CASE ElectFinalizer(p)
  <2>1. /\ pc[p] = "closed" /\ pc' = [pc EXCEPT ![p] = "committing"]
        /\ lane' = [lane EXCEPT ![p] = Elect(@, p)]
        /\ UNCHANGED <<log, version, gen, cand, real, fence, attempts, reply, rpc, delivered,
                       authored>>
    BY <1>3 DEF ElectFinalizer
  <2>2. lane' \in [Procs -> LaneRecord] /\ lane'[p].lifecycle = "finalizing"
    <3>0. lane[p] \in LaneRecord
      BY <1>0 DEF FinalizationTypeOK
    <3>1. Elect(lane[p], p) \in LaneRecord /\ Elect(lane[p], p).lifecycle = "finalizing"
      BY <3>0, LaneOpsType
    <3> QED
      BY <1>0, <2>1, <3>1 DEF FinalizationTypeOK
  <2>3. FinalizationTypeOK'
    BY <1>0, <2>1, <2>2 DEF FinalizationTypeOK, Positions
  <2>4. pc'[p] = "committing" /\ Published' = Published
    BY <1>0, <2>1 DEF FinalizationTypeOK, Published
  <2>5. ProcInv(p)'
    BY <1>0, <2>1, <2>2, <2>4 DEF ProcInv, ThreadPositions, Authorised, LaneRecordsWrite,
       DeliveryToken
  <2>6. \A q \in Procs \ {p} : Untouched(q)
    BY <1>0, <2>1 DEF FinalizationTypeOK, Untouched
  <2> QED
    BY <2>3, <2>4, <2>5, <2>6 DEF StepOf
<1> QED
  BY <1>1, <1>2, <1>3

(* The transaction with its answer, with the answer lost, and rolled back: the
   answer never claims more than the transaction did. *)
LEMMA PublishStep ==
  ASSUME FinalizationInv, NEW p \in Procs, Publish(p) \/ PublishLostAck(p) \/ PublishFails(p)
  PROVE  StepOf(p)
<1>0. FinalizationTypeOK /\ ProcInv(p)
  BY DEF FinalizationInv
<1>1. pc[p] = "committing"
  BY DEF Publish, PublishLostAck, PublishFails, Goto
<1>2. cand[p] \in Orderings /\ ~authored[p] /\ lane[p].lifecycle = "finalizing"
  BY <1>0, <1>1 DEF ProcInv, ThreadPositions
<1>3. CASE Publish(p) \/ PublishLostAck(p)
  <2>1. /\ Commit(p) /\ pc' = [pc EXCEPT ![p] = "answered"]
        /\ reply' \in {[reply EXCEPT ![p] = Decision(p)], [reply EXCEPT ![p] = "threw"]}
        /\ attempts' = [attempts EXCEPT ![p] = 0]
        /\ UNCHANGED <<gen, cand, lane, real, fence, rpc, delivered>>
    BY <1>3 DEF Publish, PublishLostAck, Goto
  <2>2. /\ log' \in Seq(Orderings) /\ version' \in Nat /\ authored' \in [Procs -> BOOLEAN]
        /\ Published \subseteq Published'
        /\ Decision(p) = "committed" => cand[p] \in Published' /\ authored'[p]
        /\ Decision(p) # "committed" => authored'[p] = authored[p]
        /\ \A q \in Procs \ {p} : authored'[q] = authored[q]
    BY <1>0, <1>2, <2>1, CommitGrows DEF FinalizationTypeOK
  <2>3. /\ Decision(p) \in {"contention", "idempotent", "rejected", "committed"}
        /\ Decision(p) = "idempotent" => cand[p] \in Published
    BY <1>0, <1>2, DecisionAnswers DEF FinalizationTypeOK
  <2>4. FinalizationTypeOK'
    <3>1. reply' \in [Procs -> Answers \cup {"none"}]
      BY <1>0, <2>1, <2>3 DEF FinalizationTypeOK, Answers
    <3>2. pc' \in [Procs -> Positions] /\ attempts' \in [Procs -> Nat]
      BY <1>0, <2>1 DEF FinalizationTypeOK, Positions
    <3> QED
      BY <1>0, <2>1, <2>2, <3>1, <3>2 DEF FinalizationTypeOK
  <2>5. pc'[p] = "answered" /\ reply'[p] \in {Decision(p), "threw"}
    BY <1>0, <2>1 DEF FinalizationTypeOK
  <2>6. ThreadPositions(p)'
    BY <1>2, <2>1, <2>2, <2>3, <2>5 DEF ThreadPositions, Answers
  <2>7. Authorised(p)'
    BY <1>0, <1>2, <2>1, <2>2, <2>5 DEF ProcInv, Authorised
  <2>8. LaneRecordsWrite(p)' /\ DeliveryToken(p)'
    BY <1>0, <1>1, <1>2, <2>1, <2>5 DEF ProcInv, LaneRecordsWrite, DeliveryToken
  <2>9. \A q \in Procs \ {p} : Untouched(q)
    BY <1>0, <2>1, <2>2 DEF FinalizationTypeOK, Untouched
  <2> QED
    BY <2>2, <2>4, <2>6, <2>7, <2>8, <2>9 DEF StepOf, ProcInv
<1>4. CASE PublishFails(p)
  <2>1. UNCHANGED <<log, version, gen, cand, lane, real, fence, rpc, delivered, authored>>
    BY <1>4 DEF PublishFails
  <2>2. /\ attempts' \in {[attempts EXCEPT ![p] = @ + 1], [attempts EXCEPT ![p] = 0]}
        /\ \/ UNCHANGED <<pc, reply>>
           \/ pc' = [pc EXCEPT ![p] = "answered"] /\ reply' = [reply EXCEPT ![p] = "threw"]
    BY <1>4 DEF PublishFails
  <2>3. FinalizationTypeOK'
    <3>0. attempts \in [Procs -> Nat] /\ attempts[p] + 1 \in Nat
      BY <1>0 DEF FinalizationTypeOK
    <3>1. attempts' \in [Procs -> Nat]
      BY <2>2, <3>0
    <3>2. pc' \in [Procs -> Positions]
      BY <1>0, <2>2 DEF FinalizationTypeOK, Positions
    <3>3. reply' \in [Procs -> Answers \cup {"none"}]
      BY <1>0, <2>2 DEF FinalizationTypeOK, Answers
    <3> QED
      BY <1>0, <2>1, <3>1, <3>2, <3>3 DEF FinalizationTypeOK
  <2>4. pc'[p] = "committing" \/ (pc'[p] = "answered" /\ reply'[p] = "threw")
    BY <1>0, <1>1, <2>2 DEF FinalizationTypeOK
  <2>5. Published' = Published
    BY <2>1 DEF Published
  <2>6. ProcInv(p)'
    BY <1>0, <1>1, <1>2, <2>1, <2>4, <2>5 DEF ProcInv, ThreadPositions, Authorised,
       LaneRecordsWrite, DeliveryToken, Answers
  <2>7. \A q \in Procs \ {p} : Untouched(q)
    BY <1>0, <2>1, <2>2 DEF FinalizationTypeOK, Untouched
  <2> QED
    BY <2>3, <2>5, <2>6, <2>7 DEF StepOf
<1> QED
  BY <1>3, <1>4

(* Recording the outcome, projecting, claiming the emission and calling the
   sink on the executing thread. *)
LEMMA OutcomeStep ==
  ASSUME FinalizationInv, NEW p \in Procs,
         RecordOutcome(p) \/ Project(p) \/ ClaimEmission(p) \/ Deliver(p)
  PROVE  StepOf(p)
<1>0. FinalizationTypeOK /\ ProcInv(p)
  BY DEF FinalizationInv
<1>a. lane[p] \in LaneRecord /\ real[p] \in Realization
  BY <1>0 DEF FinalizationTypeOK
<1>b. /\ FinalizeRealization(real[p]) \in Realization
      /\ FinalizeRealization(real[p]).emitted = real[p].emitted
      /\ [real[p] EXCEPT !.emitted = TRUE] \in Realization
      /\ [real[p] EXCEPT !.emitted = TRUE].emitted = TRUE
  BY <1>a, RealizationOpsType
<1>1. CASE RecordOutcome(p)
  <2> DEFINE settled == reply[p] \in {"committed", "idempotent"}
             reason  == IF reply[p] = "threw" THEN "write-threw" ELSE "write-rejected"
             outcome == IF settled THEN RecordCommitted(lane[p], reply[p])
                                   ELSE RecordAborted(lane[p], reason)
             next    == CASE reply[p] = "committed"  -> "projecting"
                          [] reply[p] = "idempotent" -> "done"
                          [] OTHER                   -> "raised"
  <2>1. /\ pc[p] = "answered" /\ lane' = [lane EXCEPT ![p] = outcome]
        /\ pc' = [pc EXCEPT ![p] = next]
        /\ fence' = [fence EXCEPT ![p] = NoFence] /\ reply' = [reply EXCEPT ![p] = "none"]
        /\ UNCHANGED <<log, version, gen, cand, real, attempts, rpc, delivered, authored>>
    BY <1>1 DEF RecordOutcome, ReturnFromCommit
  <2>2. /\ outcome \in LaneRecord
        /\ settled => outcome.lifecycle = "finalized"
        /\ ~settled => outcome.lifecycle = "aborted" /\ outcome.abort_reason = reason
    BY <1>a, LaneOpsType
  <2>3. /\ next \in {"projecting", "done", "raised"}
        /\ next = "projecting" => reply[p] = "committed"
    OBVIOUS
  <2>4. NoFence \in [parent : Seq(Orderings), version : Nat]
    BY DEF NoFence
  <2>5. /\ reply[p] \in Answers
        /\ settled => cand[p] \in Published
        /\ reply[p] \notin {"committed", "threw"} => ~authored[p]
    BY <1>0, <2>1 DEF ProcInv, ThreadPositions
  <2>6. reason = "write-rejected" /\ ~settled => ~authored[p]
    BY <2>5
  <2> HIDE DEF outcome, next
  <2>7. FinalizationTypeOK'
    <3>1. lane' \in [Procs -> LaneRecord] /\ pc' \in [Procs -> Positions]
      BY <1>0, <2>1, <2>2, <2>3 DEF FinalizationTypeOK, Positions
    <3>2. reply' \in [Procs -> Answers \cup {"none"}]
      BY <1>0, <2>1 DEF FinalizationTypeOK
    <3>3. fence' \in [Procs -> [parent : Seq(Orderings), version : Nat]]
      BY <1>0, <2>1, <2>4 DEF FinalizationTypeOK
    <3> QED
      BY <1>0, <2>1, <3>1, <3>2, <3>3 DEF FinalizationTypeOK
  <2>8. pc'[p] = next /\ lane'[p] = outcome /\ Published' = Published
    BY <1>0, <2>1 DEF FinalizationTypeOK, Published
  <2>9. ThreadPositions(p)'
    BY <1>0, <2>1, <2>3, <2>8 DEF ProcInv, ThreadPositions
  <2>10. Authorised(p)'
    <3>1. CASE settled
      BY <2>1, <2>5, <2>8, <3>1 DEF Authorised
    <3>2. CASE ~settled
      <4>1. next # "projecting" /\ outcome.lifecycle # "finalized"
        BY <2>2, <2>3, <3>2
      <4> QED
        BY <1>0, <2>1, <2>3, <2>8, <4>1 DEF ProcInv, Authorised
    <3> QED
      BY <3>1, <3>2
  <2>11. LaneRecordsWrite(p)'
    BY <2>1, <2>2, <2>6, <2>8 DEF LaneRecordsWrite, TerminalLaneStates
  <2>12. DeliveryToken(p)'
    BY <1>0, <2>1, <2>3, <2>8 DEF ProcInv, DeliveryToken
  <2>13. \A q \in Procs \ {p} : Untouched(q)
    BY <1>0, <2>1 DEF FinalizationTypeOK, Untouched
  <2> QED
    BY <2>7, <2>8, <2>9, <2>10, <2>11, <2>12, <2>13 DEF StepOf, ProcInv
<1>2. CASE Project(p)
  <2>1. /\ pc[p] = "projecting"
        /\ \/ /\ real' = [real EXCEPT ![p] = FinalizeRealization(real[p])]
              /\ pc' = [pc EXCEPT ![p] = "emitting"]
           \/ real' = real /\ pc' = [pc EXCEPT ![p] = "raised"]
        /\ UNCHANGED <<log, version, gen, cand, lane, fence, attempts, reply, rpc, delivered,
                       authored>>
    BY <1>2 DEF Project
  <2>2. real' \in [Procs -> Realization] /\ real'[p].emitted = real[p].emitted
    <3>1. CASE real' = [real EXCEPT ![p] = FinalizeRealization(real[p])]
      BY <1>0, <1>b, <3>1 DEF FinalizationTypeOK
    <3>2. CASE real' = real
      BY <1>0, <3>2 DEF FinalizationTypeOK
    <3> QED
      BY <2>1, <3>1, <3>2
  <2>3. FinalizationTypeOK'
    BY <1>0, <2>1, <2>2 DEF FinalizationTypeOK, Positions
  <2>4. pc'[p] \in {"emitting", "raised"} /\ Published' = Published
    BY <1>0, <2>1 DEF FinalizationTypeOK, Published
  <2>5. cand[p] \in Published
    BY <1>0, <2>1 DEF ProcInv, Authorised
  <2>6. ProcInv(p)'
    BY <1>0, <2>1, <2>2, <2>4, <2>5 DEF ProcInv, ThreadPositions, Authorised, LaneRecordsWrite,
       DeliveryToken
  <2>7. \A q \in Procs \ {p} : Untouched(q)
    BY <1>0, <2>1 DEF FinalizationTypeOK, Untouched
  <2> QED
    BY <2>3, <2>4, <2>6, <2>7 DEF StepOf
<1>3. CASE ClaimEmission(p)
  <2>1. /\ pc[p] = "emitting"
        /\ \/ /\ ~real[p].emitted /\ pc' = [pc EXCEPT ![p] = "delivering"]
              /\ real' = [real EXCEPT ![p] = [real[p] EXCEPT !.emitted = TRUE]]
           \/ real' = real /\ pc' = [pc EXCEPT ![p] = "done"]
        /\ UNCHANGED <<log, version, gen, cand, lane, fence, attempts, reply, rpc, delivered,
                       authored>>
    BY <1>3 DEF ClaimEmission, CanEmit
  <2>2. /\ real' \in [Procs -> Realization] /\ pc' \in [Procs -> Positions]
        /\ \/ pc'[p] = "done" /\ real'[p] = real[p]
           \/ pc'[p] = "delivering" /\ real'[p].emitted /\ ~real[p].emitted
    <3>1. CASE /\ ~real[p].emitted /\ pc' = [pc EXCEPT ![p] = "delivering"]
               /\ real' = [real EXCEPT ![p] = [real[p] EXCEPT !.emitted = TRUE]]
      <4>1. real' \in [Procs -> Realization] /\ real'[p] = [real[p] EXCEPT !.emitted = TRUE]
        BY <1>0, <1>b, <3>1 DEF FinalizationTypeOK
      <4>2. pc' \in [Procs -> Positions] /\ pc'[p] = "delivering"
        BY <1>0, <3>1 DEF FinalizationTypeOK, Positions
      <4> QED
        BY <1>b, <3>1, <4>1, <4>2
    <3>2. CASE real' = real /\ pc' = [pc EXCEPT ![p] = "done"]
      BY <1>0, <3>2 DEF FinalizationTypeOK, Positions
    <3> QED
      BY <2>1, <3>1, <3>2
  <2>3. FinalizationTypeOK'
    BY <1>0, <2>1, <2>2 DEF FinalizationTypeOK
  <2>4. Published' = Published
    BY <2>1 DEF Published
  <2>5. cand[p] \in Published
    BY <1>0, <2>1 DEF ProcInv, Authorised
  <2>6. ThreadPositions(p)' /\ Authorised(p)' /\ LaneRecordsWrite(p)'
    BY <1>0, <2>1, <2>2, <2>4, <2>5 DEF ProcInv, ThreadPositions, Authorised, LaneRecordsWrite
  <2>7. DeliveryToken(p)'
    <3>1. delivered[p] \in Nat
      BY <1>0 DEF FinalizationTypeOK
    <3> QED
      BY <1>0, <2>1, <2>2, <3>1 DEF ProcInv, DeliveryToken
  <2>8. \A q \in Procs \ {p} : Untouched(q)
    BY <1>0, <2>1 DEF FinalizationTypeOK, Untouched
  <2> QED
    BY <2>3, <2>4, <2>6, <2>7, <2>8 DEF StepOf, ProcInv
<1>4. CASE Deliver(p)
  <2>1. /\ pc[p] = "delivering"
        /\ \/ delivered' = [delivered EXCEPT ![p] = @ + 1] /\ pc' = [pc EXCEPT ![p] = "done"]
           \/ delivered' = delivered /\ pc' = [pc EXCEPT ![p] = "raised"]
        /\ UNCHANGED <<log, version, gen, cand, lane, real, fence, attempts, reply, rpc, authored>>
    BY <1>4 DEF Deliver
  <2>2. /\ delivered[p] = 0 /\ real[p].emitted /\ rpc[p] # "delivering"
        /\ cand[p] \in Published
    BY <1>0, <2>1 DEF ProcInv, DeliveryToken, Authorised
  <2>3. FinalizationTypeOK'
    <3>1. delivered' \in [Procs -> Nat]
      BY <1>0, <2>1 DEF FinalizationTypeOK
    <3>2. pc' \in [Procs -> Positions]
      BY <1>0, <2>1 DEF FinalizationTypeOK, Positions
    <3> QED
      BY <1>0, <2>1, <3>1, <3>2 DEF FinalizationTypeOK
  <2>4. pc'[p] \in {"done", "raised"} /\ delivered'[p] \in {0, 1} /\ Published' = Published
    BY <1>0, <2>1, <2>2 DEF FinalizationTypeOK, Published
  <2>5. ThreadPositions(p)' /\ Authorised(p)' /\ LaneRecordsWrite(p)'
    BY <1>0, <2>1, <2>2, <2>4 DEF ProcInv, ThreadPositions, Authorised, LaneRecordsWrite
  <2>6. DeliveryToken(p)'
    BY <2>1, <2>2, <2>4 DEF DeliveryToken
  <2>7. \A q \in Procs \ {p} : Untouched(q)
    BY <1>0, <2>1 DEF FinalizationTypeOK, Untouched
  <2> QED
    BY <2>3, <2>4, <2>5, <2>6, <2>7 DEF StepOf, ProcInv
<1> QED
  BY <1>1, <1>2, <1>3, <1>4

(* The reconciling thread: it starts only on its own published head, and from
   there competes with the executing thread for the same realization. *)
LEMMA ReconcileStep ==
  ASSUME FinalizationInv, NEW p \in Procs, Reconcile(p) PROVE StepOf(p)
<1>0. FinalizationTypeOK /\ ProcInv(p)
  BY DEF FinalizationInv
<1>a. real[p] \in Realization /\ delivered[p] \in Nat
  BY <1>0 DEF FinalizationTypeOK
<1>b. /\ FinalizeRealization(real[p]) \in Realization
      /\ FinalizeRealization(real[p]).emitted = real[p].emitted
      /\ [real[p] EXCEPT !.emitted = TRUE] \in Realization
      /\ [real[p] EXCEPT !.emitted = TRUE].emitted = TRUE
  BY <1>a, RealizationOpsType
<1> DEFINE Threads == {"idle", "finalizing", "emitting", "delivering"}
<1>1. CASE ReconcileRead(p)
  <2> DEFINE next == CASE real[p].lifecycle = "frozen"    -> "finalizing"
                       [] real[p].lifecycle = "finalized" -> "emitting"
                       [] OTHER                           -> "idle"
  <2>1. /\ cand[p] # NoValue /\ History!LastOf(log) = cand[p] /\ rpc[p] = "idle"
        /\ rpc' = [rpc EXCEPT ![p] = next]
        /\ UNCHANGED <<log, version, pc, gen, cand, lane, real, fence, attempts, reply, delivered,
                       authored>>
    BY <1>1 DEF ReconcileRead, AuthorityMatches
  <2>2. next \in {"idle", "finalizing", "emitting"}
    OBVIOUS
  <2> HIDE DEF next
  <2>3. cand[p] \in Published
    <3>1. log \in Seq(Orderings) /\ log # << >>
      BY <1>0, <2>1 DEF FinalizationTypeOK, History!LastOf
    <3>2. Len(log) \in DOMAIN log
      BY <3>1
    <3> QED
      BY <2>1, <3>1, <3>2 DEF History!LastOf, Published
  <2>4. FinalizationTypeOK'
    BY <1>0, <2>1, <2>2 DEF FinalizationTypeOK
  <2>5. rpc'[p] = next /\ Published' = Published
    BY <1>0, <2>1 DEF FinalizationTypeOK, Published
  <2>6. ThreadPositions(p)' /\ Authorised(p)' /\ LaneRecordsWrite(p)' /\ DeliveryToken(p)'
    BY <1>0, <2>1, <2>2, <2>3, <2>5 DEF ProcInv, ThreadPositions, Authorised, LaneRecordsWrite,
       DeliveryToken
  <2>7. \A q \in Procs \ {p} : Untouched(q)
    BY <1>0, <2>1 DEF FinalizationTypeOK, Untouched
  <2> QED
    BY <2>4, <2>5, <2>6, <2>7 DEF StepOf, ProcInv
<1>2. CASE ReconcileFinalize(p)
  <2>1. /\ rpc[p] = "finalizing"
        /\ \/ /\ real' = [real EXCEPT ![p] = FinalizeRealization(real[p])]
              /\ rpc' = [rpc EXCEPT ![p] = "emitting"]
           \/ real' = real /\ rpc' = [rpc EXCEPT ![p] = "idle"]
        /\ UNCHANGED <<log, version, pc, gen, cand, lane, fence, attempts, reply, delivered,
                       authored>>
    BY <1>2 DEF ReconcileFinalize
  <2>2. real' \in [Procs -> Realization] /\ real'[p].emitted = real[p].emitted
    <3>1. CASE real' = [real EXCEPT ![p] = FinalizeRealization(real[p])]
      BY <1>0, <1>b, <3>1 DEF FinalizationTypeOK
    <3>2. CASE real' = real
      BY <1>0, <3>2 DEF FinalizationTypeOK
    <3> QED
      BY <2>1, <3>1, <3>2
  <2>3. rpc' \in [Procs -> Threads] /\ rpc'[p] \in {"emitting", "idle"}
    BY <1>0, <2>1 DEF FinalizationTypeOK
  <2>4. FinalizationTypeOK'
    BY <1>0, <2>1, <2>2, <2>3 DEF FinalizationTypeOK
  <2>5. cand[p] \in Published /\ Published' = Published
    BY <1>0, <2>1 DEF ProcInv, Authorised, Published
  <2>6. ThreadPositions(p)' /\ Authorised(p)' /\ LaneRecordsWrite(p)' /\ DeliveryToken(p)'
    BY <1>0, <2>1, <2>2, <2>3, <2>5 DEF ProcInv, ThreadPositions, Authorised, LaneRecordsWrite,
       DeliveryToken
  <2>7. \A q \in Procs \ {p} : Untouched(q)
    BY <1>0, <2>1 DEF FinalizationTypeOK, Untouched
  <2> QED
    BY <2>4, <2>5, <2>6, <2>7 DEF StepOf, ProcInv
<1>3. CASE ReconcileClaim(p)
  <2>1. /\ rpc[p] = "emitting"
        /\ \/ /\ ~real[p].emitted /\ rpc' = [rpc EXCEPT ![p] = "delivering"]
              /\ real' = [real EXCEPT ![p] = [real[p] EXCEPT !.emitted = TRUE]]
           \/ real' = real /\ rpc' = [rpc EXCEPT ![p] = "idle"]
        /\ UNCHANGED <<log, version, pc, gen, cand, lane, fence, attempts, reply, delivered,
                       authored>>
    BY <1>3 DEF ReconcileClaim, CanEmit
  <2>2. /\ real' \in [Procs -> Realization] /\ rpc' \in [Procs -> Threads]
        /\ \/ rpc'[p] = "idle" /\ real'[p] = real[p]
           \/ rpc'[p] = "delivering" /\ real'[p].emitted /\ ~real[p].emitted
    <3>1. CASE /\ ~real[p].emitted /\ rpc' = [rpc EXCEPT ![p] = "delivering"]
               /\ real' = [real EXCEPT ![p] = [real[p] EXCEPT !.emitted = TRUE]]
      <4>1. real' \in [Procs -> Realization] /\ real'[p] = [real[p] EXCEPT !.emitted = TRUE]
        BY <1>0, <1>b, <3>1 DEF FinalizationTypeOK
      <4>2. rpc' \in [Procs -> Threads] /\ rpc'[p] = "delivering"
        BY <1>0, <3>1 DEF FinalizationTypeOK
      <4> QED
        BY <1>b, <3>1, <4>1, <4>2
    <3>2. CASE real' = real /\ rpc' = [rpc EXCEPT ![p] = "idle"]
      BY <1>0, <3>2 DEF FinalizationTypeOK
    <3> QED
      BY <2>1, <3>1, <3>2
  <2>3. FinalizationTypeOK'
    BY <1>0, <2>1, <2>2 DEF FinalizationTypeOK
  <2>4. cand[p] \in Published /\ Published' = Published
    BY <1>0, <2>1 DEF ProcInv, Authorised, Published
  <2>5. ThreadPositions(p)' /\ Authorised(p)' /\ LaneRecordsWrite(p)'
    BY <1>0, <2>1, <2>4 DEF ProcInv, ThreadPositions, Authorised, LaneRecordsWrite
  <2>6. DeliveryToken(p)'
    BY <1>0, <1>a, <2>1, <2>2 DEF ProcInv, DeliveryToken
  <2>7. \A q \in Procs \ {p} : Untouched(q)
    BY <1>0, <2>1 DEF FinalizationTypeOK, Untouched
  <2> QED
    BY <2>3, <2>4, <2>5, <2>6, <2>7 DEF StepOf, ProcInv
<1>4. CASE ReconcileDeliver(p)
  <2>1. /\ rpc[p] = "delivering" /\ rpc' = [rpc EXCEPT ![p] = "idle"]
        /\ delivered' = [delivered EXCEPT ![p] = @ + 1] \/ delivered' = delivered
        /\ UNCHANGED <<log, version, pc, gen, cand, lane, real, fence, attempts, reply, authored>>
    BY <1>4 DEF ReconcileDeliver
  <2>2. /\ delivered[p] = 0 /\ real[p].emitted /\ pc[p] # "delivering"
        /\ cand[p] \in Published
    BY <1>0, <2>1 DEF ProcInv, DeliveryToken, Authorised
  <2>3. delivered' \in [Procs -> Nat] /\ delivered'[p] \in {0, 1}
    <3>1. delivered \in [Procs -> Nat]
      BY <1>0 DEF FinalizationTypeOK
    <3>2. CASE delivered' = [delivered EXCEPT ![p] = @ + 1]
      BY <2>2, <3>1, <3>2
    <3>3. CASE delivered' = delivered
      BY <2>2, <3>1, <3>3
    <3> QED
      BY <2>1, <3>2, <3>3
  <2>4. rpc' \in [Procs -> Threads] /\ rpc'[p] = "idle" /\ Published' = Published
    BY <1>0, <2>1 DEF FinalizationTypeOK, Published
  <2>5. FinalizationTypeOK'
    BY <1>0, <2>1, <2>3, <2>4 DEF FinalizationTypeOK
  <2>6. ThreadPositions(p)' /\ Authorised(p)' /\ LaneRecordsWrite(p)'
    BY <1>0, <2>1, <2>2, <2>4 DEF ProcInv, ThreadPositions, Authorised, LaneRecordsWrite
  <2>7. DeliveryToken(p)'
    BY <2>1, <2>2, <2>3, <2>4 DEF DeliveryToken
  <2>8. \A q \in Procs \ {p} : Untouched(q)
    BY <1>0, <2>1 DEF FinalizationTypeOK, Untouched
  <2> QED
    BY <2>4, <2>5, <2>6, <2>7, <2>8 DEF StepOf, ProcInv
<1> QED
  BY <1>1, <1>2, <1>3, <1>4 DEF Reconcile

(* A crash forgets everything but the store. *)
LEMMA CrashStep ==
  ASSUME FinalizationInv, NEW p \in Procs, Crash(p) PROVE StepOf(p)
<1>0. FinalizationTypeOK
  BY DEF FinalizationInv
<1>1. /\ OpenRealization \in Realization /\ OpenRealization.lifecycle = "open"
      /\ OpenRealization.emitted = FALSE
      /\ NoFence \in [parent : Seq(Orderings), version : Nat]
  BY DEF OpenRealization, Realization, NoFence
<1>2. OpenLane(0, NoValue, TRUE) \in LaneRecord /\ OpenLane(0, NoValue, TRUE).lifecycle = "open"
  BY OpenLaneType
<1>3. FinalizationTypeOK'
  <2>1. /\ pc' \in [Procs -> Positions] /\ cand' \in [Procs -> Orderings \cup {NoValue}]
        /\ delivered' \in [Procs -> Nat] /\ attempts' \in [Procs -> Nat]
        /\ authored' \in [Procs -> BOOLEAN] /\ reply' \in [Procs -> Answers \cup {"none"}]
        /\ rpc' \in [Procs -> {"idle", "finalizing", "emitting", "delivering"}]
    BY <1>0 DEF Crash, FinalizationTypeOK, Positions
  <2>2. /\ lane' \in [Procs -> LaneRecord] /\ real' \in [Procs -> Realization]
        /\ fence' \in [Procs -> [parent : Seq(Orderings), version : Nat]]
    BY <1>0, <1>1, <1>2 DEF Crash, FinalizationTypeOK
  <2> QED
    BY <1>0, <2>1, <2>2 DEF Crash, FinalizationTypeOK
<1>4. /\ pc'[p] = "idle" /\ rpc'[p] = "idle" /\ delivered'[p] = 0 /\ authored'[p] = FALSE
      /\ lane'[p].lifecycle = "open" /\ real'[p].lifecycle = "open" /\ real'[p].emitted = FALSE
  BY <1>0, <1>1, <1>2 DEF Crash, FinalizationTypeOK
<1>5. ProcInv(p)'
  BY <1>4 DEF ProcInv, ThreadPositions, Authorised, LaneRecordsWrite, DeliveryToken
<1>6. Published \subseteq Published' /\ \A q \in Procs \ {p} : Untouched(q)
  BY <1>0 DEF Crash, FinalizationTypeOK, Published, Untouched
<1> QED
  BY <1>3, <1>5, <1>6 DEF StepOf

-----------------------------------------------------------------------------
(* The inductive invariant of the finalization protocol. *)
THEOREM FinalizationInvariant == Spec => []FinalizationInv
<1>1. FinalizationInv /\ [Next]_vars => FinalizationInv'
  <2> SUFFICES ASSUME FinalizationInv, [Next]_vars PROVE FinalizationInv'
    OBVIOUS
  <2>1. ASSUME NEW p \in Procs, Execute(p) \/ Finalize(p) \/ Reconcile(p) \/ Crash(p)
        PROVE  FinalizationInv'
    <3>1. StepOf(p)
      BY <2>1, ExecuteStep, ElectStep, PublishStep, OutcomeStep, ReconcileStep, CrashStep
      DEF Finalize
    <3> QED
      BY <3>1, StepOfKeeps
  <2>2. CASE UNCHANGED vars
    <3>1. FinalizationTypeOK'
      BY <2>2 DEF FinalizationInv, FinalizationTypeOK, vars, procVars
    <3>2. Published' = Published /\ \A q \in Procs : Untouched(q)
      BY <2>2 DEF vars, procVars, Published, Untouched
    <3> QED
      BY <3>1, <3>2, UntouchedKeeps DEF FinalizationInv
  <2> QED
    BY <2>1, <2>2 DEF Next
<1> QED
  BY FinalizationInit, <1>1, PTL DEF Spec

(* complete-after-authority! and reconcile-local-projection! project and emit
   only what is in the authoritative history, for any interleaving of the two
   threads, any crash and any lost acknowledgement. *)
THEOREM ProjectionAuthorised == Spec => []ProjectionIsAuthorised
<1>1. FinalizationInv => ProjectionIsAuthorised
  BY DEF FinalizationInv, ProcInv, Authorised, ProjectionIsAuthorised
<1> QED
  BY FinalizationInvariant, <1>1, PTL

(* emit! hands one realization's observation to the sink at most once. *)
THEOREM EmissionOnce == Spec => []DeliveredOnce
<1>1. FinalizationInv => DeliveredOnce
  BY DEF FinalizationInv, ProcInv, DeliveryToken, DeliveredOnce
<1> QED
  BY FinalizationInvariant, <1>1, PTL

(* The terminal state finalize-lane! records never contradicts what the
   publication transaction did. *)
THEOREM LaneStoreAgreement == Spec => []LaneAgreesWithStore
<1>1. FinalizationInv => LaneAgreesWithStore
  BY DEF FinalizationInv, ProcInv, Authorised, LaneRecordsWrite, LaneAgreesWithStore
<1> QED
  BY FinalizationInvariant, <1>1, PTL

(* The store driven by every process is an abstract publication history: only
   a transaction that found its fence, and a candidate that succeeds the head,
   extends it. *)
THEOREM ImplementsHistory == Spec => RefinesHistory
<1>1. Init => History!Init
  BY DEF Init, History!Init
<1>2. FinalizationInv /\ [Next]_vars => [History!Next]_log
  <2> SUFFICES ASSUME FinalizationInv, [Next]_vars PROVE History!Next \/ UNCHANGED log
    OBVIOUS
  <2>1. ASSUME NEW p \in Procs, Publish(p) \/ PublishLostAck(p)
        PROVE  History!Next \/ UNCHANGED log
    <3>1. Commit(p) /\ cand[p] \in Orderings /\ log \in Seq(Orderings)
      BY <2>1 DEF Publish, PublishLostAck, Goto, FinalizationInv, ProcInv, ThreadPositions,
         FinalizationTypeOK
    <3>2. CASE Decision(p) = "committed"
      <4>1. History!Publish(cand[p])
        BY <3>1, <3>2, DecisionAnswers DEF Commit, History!Publish
      <4> QED
        BY <3>1, <4>1 DEF History!Next
    <3>3. CASE Decision(p) # "committed"
      BY <3>1, <3>3 DEF Commit
    <3> QED
      BY <3>2, <3>3
  <2>2. ASSUME NEW p \in Procs,
               \/ Execute(p) \/ Reconcile(p) \/ Crash(p)
               \/ Freeze(p) \/ Close(p) \/ ElectFinalizer(p) \/ PublishFails(p)
               \/ RecordOutcome(p) \/ Project(p) \/ ClaimEmission(p) \/ Deliver(p)
        PROVE  UNCHANGED log
    BY <2>2 DEF Execute, Open, RunPhase, ReadFence, Reconcile, ReconcileRead, ReconcileFinalize,
       ReconcileClaim, ReconcileDeliver, Crash, Freeze, Close, ElectFinalizer, PublishFails,
       RecordOutcome, Project, ClaimEmission, Deliver
  <2>3. CASE UNCHANGED vars
    BY <2>3 DEF vars
  <2> QED
    BY <2>1, <2>2, <2>3 DEF Next, Finalize
<1> QED
  BY FinalizationInvariant, <1>1, <1>2, PTL DEF Spec, RefinesHistory, History!Spec
=============================================================================
