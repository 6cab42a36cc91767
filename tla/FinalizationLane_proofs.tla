----------------------- MODULE FinalizationLane_proofs -----------------------
(***************************************************************************)
(* Proofs about FinalizationLane for any number of contributors, phases and *)
(* finalizers.  The invariants the runs check are not inductive by           *)
(* themselves: closure compares counters, so the counters have to be tied to *)
(* the threads they count (CountsMatch), and the position of every finalizer *)
(* to the lifecycle of the lane (FinalizerPositions).                        *)
(***************************************************************************)
EXTENDS FinalizationLane, FiniteSetTheorems, TLAPS

Working == {w \in Workers : worker[w] = "working"}
Dispatched == {p \in Phases : phase[p] \in {"running", "quiesced", "failed", "late"}}
Quiesced == {p \in Phases : phase[p] = "quiesced"}

CountsMatch ==
  /\ lane.contributing_open = Cardinality(Working)
  /\ lane.executor_backed = Cardinality(Dispatched)
  /\ lane.quiesced = Cardinality(Quiesced)

InWrite == {"writing", "error"} \cup Outcomes

FinalizerPositions ==
  /\ lane.lifecycle \in {"open", "execution-closed"} =>
       written = {} /\ \A f \in Finalizers : fin[f] = "idle"
  /\ \A f \in Finalizers :
       /\ fin[f] \in InWrite => lane.lifecycle = "finalizing"
       /\ fin[f] \in {"writing", "rejected"} => written = {}
       /\ fin[f] = "committed" => f \in written

LaneInv ==
  /\ TypeOK
  /\ CountsMatch
  /\ ClosedIsDrained
  /\ SingleFinalizer
  /\ OutcomeMatchesWrite
  /\ FinalizerPositions

-----------------------------------------------------------------------------
(* The sets the lane counts are finite, and a subset as large as its finite
   superset is the whole of it: the fact that makes comparing the two phase
   counters mean that every dispatched phase quiesced. *)
LEMMA CountedSetsFinite ==
  /\ IsFiniteSet(Working) /\ Cardinality(Working) \in Nat
  /\ IsFiniteSet(Dispatched) /\ Cardinality(Dispatched) \in Nat
  /\ IsFiniteSet(Quiesced) /\ Cardinality(Quiesced) \in Nat
<1>1. Working \subseteq Workers /\ Dispatched \subseteq Phases /\ Quiesced \subseteq Phases
  BY DEF Working, Dispatched, Quiesced
<1>2. IsFiniteSet(Workers) /\ IsFiniteSet(Phases)
  BY LaneConstants
<1> QED
  BY <1>1, <1>2, FS_Subset, FS_CardinalityType

LEMMA SameSizeSubset ==
  ASSUME NEW S, NEW T, IsFiniteSet(T), S \subseteq T, Cardinality(S) = Cardinality(T)
  PROVE  S = T
  BY FS_Subset

(* The initial lane counts nothing and has no finalizer. *)
LEMMA LaneInit == Init => LaneInv
<1> SUFFICES ASSUME Init PROVE LaneInv
  OBVIOUS
<1>1. TypeOK
  BY LaneConstants DEF Init, TypeOK, OpenLane, lane_states, Outcomes
<1>2. Working = {} /\ Dispatched = {} /\ Quiesced = {}
  BY DEF Init, Working, Dispatched, Quiesced
<1>3. CountsMatch
  BY <1>2, FS_EmptySet DEF CountsMatch, Init, OpenLane
<1>4. ClosedIsDrained /\ SingleFinalizer /\ OutcomeMatchesWrite /\ FinalizerPositions
  BY DEF Init, OpenLane, ClosedIsDrained, SingleFinalizer, Elected, OutcomeMatchesWrite,
         TerminalLaneStates, FinalizerPositions, InWrite, Outcomes
<1> QED
  BY <1>1, <1>3, <1>4 DEF LaneInv

-----------------------------------------------------------------------------
(* Every operation of every thread preserves the invariant. *)
LEMMA LaneStep == LaneInv /\ [Next]_vars => LaneInv'
<1> SUFFICES ASSUME LaneInv, [Next]_vars PROVE LaneInv'
  OBVIOUS
<1> USE DEF lane_states, TerminalLaneStates, Outcomes
<1>0. TypeOK /\ CountsMatch /\ ClosedIsDrained /\ SingleFinalizer
        /\ OutcomeMatchesWrite /\ FinalizerPositions
  BY DEF LaneInv
<1>1. ASSUME NEW w \in Workers, BeginWork(w) PROVE LaneInv'
  <2>1. CASE CanBeginContributor(lane)
    <3>1. /\ lane' = [lane EXCEPT !.contributing_open = @ + 1]
          /\ worker' = [worker EXCEPT ![w] = "working"]
          /\ worker[w] = "idle" /\ lane.lifecycle = "open"
          /\ UNCHANGED <<phase, fin, written>>
      BY <1>1, <2>1 DEF BeginWork, CanBeginContributor, BeginContributor
    <3>2. TypeOK'
      BY <1>0, <3>1 DEF TypeOK
    <3>3. Working' = Working \cup {w} /\ w \notin Working
      BY <1>0, <3>1 DEF Working, TypeOK
    <3>4. Cardinality(Working') = Cardinality(Working) + 1
      BY <3>3, FS_AddElement, CountedSetsFinite
    <3>5. CountsMatch'
      BY <1>0, <3>1, <3>4 DEF CountsMatch, TypeOK, Dispatched, Quiesced
    <3> QED
      BY <1>0, <3>1, <3>2, <3>5 DEF LaneInv, TypeOK, ClosedIsDrained, SingleFinalizer, Elected,
            OutcomeMatchesWrite, FinalizerPositions
  <2>2. CASE ~CanBeginContributor(lane)
    <3>1. /\ worker' = [worker EXCEPT ![w] = "refused"] /\ worker[w] = "idle"
          /\ UNCHANGED <<lane, phase, fin, written>>
      BY <1>1, <2>2 DEF BeginWork
    <3>2. Working' = Working
      BY <1>0, <3>1 DEF Working, TypeOK
    <3> QED
      BY <1>0, <3>1, <3>2 DEF LaneInv, TypeOK, CountsMatch, Dispatched, Quiesced, ClosedIsDrained,
            SingleFinalizer, Elected, OutcomeMatchesWrite, FinalizerPositions
  <2> QED
    BY <2>1, <2>2
<1>2. ASSUME NEW w \in Workers, EndWork(w) PROVE LaneInv'
  <2>1. /\ worker[w] = "working" /\ worker' = [worker EXCEPT ![w] = "done"]
        /\ UNCHANGED <<phase, fin, written>>
    BY <1>2 DEF EndWork
  <2>2. lane.lifecycle = "open"
    BY <1>0, <2>1 DEF ClosedIsDrained
  <2>3. w \in Working /\ Working' = Working \ {w}
    BY <1>0, <2>1 DEF Working, TypeOK
  <2>4. Cardinality(Working') = Cardinality(Working) - 1 /\ Cardinality(Working) > 0
    <3>1. Cardinality(Working') = Cardinality(Working) - 1
      BY <2>3, FS_RemoveElement, CountedSetsFinite
    <3>2. Cardinality(Working) # 0
      BY <2>3, FS_EmptySet, CountedSetsFinite
    <3> QED
      BY <3>1, <3>2, CountedSetsFinite
  <2>5. lane' = [lane EXCEPT !.contributing_open = lane.contributing_open - 1]
    BY <1>0, <1>2, <2>2, <2>4 DEF EndWork, EndContributor, CountsMatch
  <2>6. TypeOK'
    BY <1>0, <2>1, <2>4, <2>5 DEF TypeOK, CountsMatch
  <2>7. CountsMatch'
    BY <1>0, <2>1, <2>4, <2>5 DEF CountsMatch, TypeOK, Dispatched, Quiesced
  <2> QED
    BY <1>0, <2>1, <2>2, <2>5, <2>6, <2>7 DEF LaneInv, TypeOK, ClosedIsDrained, SingleFinalizer,
          Elected, OutcomeMatchesWrite, FinalizerPositions
<1>3. ASSUME NEW p \in Phases, DispatchPhase(p) PROVE LaneInv'
  <2>1. CASE CanRecordDispatch(lane)
    <3>1. /\ lane' = [lane EXCEPT !.executor_backed = @ + 1]
          /\ phase' = [phase EXCEPT ![p] = "running"]
          /\ phase[p] = "idle" /\ lane.lifecycle = "open"
          /\ UNCHANGED <<worker, fin, written>>
      BY <1>3, <2>1 DEF DispatchPhase, CanRecordDispatch, RecordDispatch
    <3>2. TypeOK'
      BY <1>0, <3>1 DEF TypeOK
    <3>3. Dispatched' = Dispatched \cup {p} /\ p \notin Dispatched /\ Quiesced' = Quiesced
      BY <1>0, <3>1 DEF Dispatched, Quiesced, TypeOK
    <3>4. Cardinality(Dispatched') = Cardinality(Dispatched) + 1
      BY <3>3, FS_AddElement, CountedSetsFinite
    <3>5. CountsMatch'
      BY <1>0, <3>1, <3>3, <3>4 DEF CountsMatch, TypeOK, Working
    <3> QED
      BY <1>0, <3>1, <3>2, <3>5 DEF LaneInv, TypeOK, ClosedIsDrained, SingleFinalizer, Elected,
            OutcomeMatchesWrite, FinalizerPositions
  <2>2. CASE ~CanRecordDispatch(lane)
    <3>1. /\ phase' = [phase EXCEPT ![p] = "refused"] /\ phase[p] = "idle"
          /\ UNCHANGED <<lane, worker, fin, written>>
      BY <1>3, <2>2 DEF DispatchPhase
    <3>2. Dispatched' = Dispatched /\ Quiesced' = Quiesced
      BY <1>0, <3>1 DEF Dispatched, Quiesced, TypeOK
    <3> QED
      BY <1>0, <3>1, <3>2 DEF LaneInv, TypeOK, CountsMatch, Working, ClosedIsDrained,
            SingleFinalizer, Elected, OutcomeMatchesWrite, FinalizerPositions
  <2> QED
    BY <2>1, <2>2
<1>4. ASSUME NEW p \in Phases, QuiescePhase(p) PROVE LaneInv'
  <2>1. CASE CanRecordQuiesced(lane)
    <3>1. /\ lane' = [lane EXCEPT !.quiesced = @ + 1]
          /\ phase' = [phase EXCEPT ![p] = "quiesced"]
          /\ phase[p] = "running"
          /\ UNCHANGED <<worker, fin, written>>
      BY <1>4, <2>1 DEF QuiescePhase, RecordQuiesced
    <3>2. TypeOK'
      BY <1>0, <3>1 DEF TypeOK
    <3>3. Quiesced' = Quiesced \cup {p} /\ p \notin Quiesced /\ Dispatched' = Dispatched
      BY <1>0, <3>1 DEF Dispatched, Quiesced, TypeOK
    <3>4. Cardinality(Quiesced') = Cardinality(Quiesced) + 1
      BY <3>3, FS_AddElement, CountedSetsFinite
    <3>5. CountsMatch'
      BY <1>0, <3>1, <3>3, <3>4 DEF CountsMatch, TypeOK, Working
    <3> QED
      BY <1>0, <3>1, <3>2, <3>5 DEF LaneInv, TypeOK, ClosedIsDrained, SingleFinalizer, Elected,
            OutcomeMatchesWrite, FinalizerPositions
  <2>2. CASE ~CanRecordQuiesced(lane)
    <3>1. /\ phase' = [phase EXCEPT ![p] = "late"] /\ phase[p] = "running"
          /\ lane.lifecycle # "open"
          /\ UNCHANGED <<lane, worker, fin, written>>
      BY <1>4, <2>2 DEF QuiescePhase, CanRecordQuiesced
    <3>2. Dispatched' = Dispatched /\ Quiesced' = Quiesced
      BY <1>0, <3>1 DEF Dispatched, Quiesced, TypeOK
    <3> QED
      BY <1>0, <3>1, <3>2 DEF LaneInv, TypeOK, CountsMatch, Working, ClosedIsDrained,
            SingleFinalizer, Elected, OutcomeMatchesWrite, FinalizerPositions
  <2> QED
    BY <2>1, <2>2
<1>5. ASSUME NEW p \in Phases, QuiesceTimeout(p) PROVE LaneInv'
  <2>1. /\ phase' = [phase EXCEPT ![p] = "failed"] /\ phase[p] = "running"
        /\ UNCHANGED <<lane, worker, fin, written>>
    BY <1>5 DEF QuiesceTimeout
  <2>2. Dispatched' = Dispatched /\ Quiesced' = Quiesced
    BY <1>0, <2>1 DEF Dispatched, Quiesced, TypeOK
  <2> QED
    BY <1>0, <2>1, <2>2 DEF LaneInv, TypeOK, CountsMatch, Working, ClosedIsDrained,
          SingleFinalizer, Elected, OutcomeMatchesWrite, FinalizerPositions
<1>6. ASSUME Close PROVE LaneInv'
  <2>1. /\ lane' = [lane EXCEPT !.lifecycle = "execution-closed"]
        /\ lane.lifecycle = "open" /\ lane.contributing_open = 0
        /\ lane.requires_quiescence => lane.executor_backed = lane.quiesced
        /\ UNCHANGED <<worker, phase, fin, written>>
    BY <1>6 DEF Close, CanClose, CloseExecution
  <2>2. Working = {}
    BY <1>0, <2>1, FS_EmptySet, CountedSetsFinite DEF CountsMatch
  <2>3. ASSUME RequiresQuiescence PROVE Dispatched = Quiesced
    <3>1. Cardinality(Quiesced) = Cardinality(Dispatched)
      BY <1>0, <2>1, <2>3 DEF CountsMatch, TypeOK
    <3>2. Quiesced \subseteq Dispatched
      BY DEF Quiesced, Dispatched
    <3> QED
      BY <3>1, <3>2, CountedSetsFinite, SameSizeSubset
  <2>4. ClosedIsDrained'
    BY <2>1, <2>2, <2>3 DEF ClosedIsDrained, Working, Dispatched, Quiesced
  <2>5. TypeOK' /\ CountsMatch'
    BY <1>0, <2>1 DEF TypeOK, CountsMatch, Working, Dispatched, Quiesced
  <2> QED
    BY <1>0, <2>1, <2>4, <2>5 DEF LaneInv, TypeOK, SingleFinalizer, Elected,
          OutcomeMatchesWrite, FinalizerPositions, InWrite
<1>7. ASSUME NEW f \in Finalizers, FinalizeElect(f) PROVE LaneInv'
  <2>1. /\ fin' = [fin EXCEPT ![f] = "writing"]
        /\ lane.lifecycle = "execution-closed"
        /\ lane' = [lane EXCEPT !.lifecycle = "finalizing",
                       !.finalizer = [id |-> f, lane_generation |-> lane.generation,
                                      expected_parent |-> lane.expected_parent_root]]
        /\ UNCHANGED <<worker, phase, written>>
    BY <1>7 DEF FinalizeElect, FinalizePreconditions, Elect
  <2>2. lane'.finalizer \in [id : Finalizers, lane_generation : {1},
                              expected_parent : {ExpectedParent}]
    BY <1>0, <2>1 DEF TypeOK
  <2>3. lane'.finalizer # NoValue /\ lane'.finalizer.id = f
    BY <1>0, <2>1, <2>2, LaneConstants DEF TypeOK
  <2>4. TypeOK'
    BY <1>0, <2>1, <2>2 DEF TypeOK
  <2>5. CountsMatch' /\ ClosedIsDrained'
    BY <1>0, <2>1 DEF TypeOK, CountsMatch, Working, Dispatched, Quiesced, ClosedIsDrained
  <2>6. written = {} /\ \A g \in Finalizers : fin[g] = "idle"
    BY <1>0, <2>1 DEF FinalizerPositions
  <2>7. SingleFinalizer' /\ FinalizerPositions'
    BY <1>0, <2>1, <2>3, <2>6 DEF TypeOK, SingleFinalizer, Elected, FinalizerPositions, InWrite
  <2>8. OutcomeMatchesWrite'
    BY <1>0, <2>1 DEF TypeOK, OutcomeMatchesWrite
  <2> QED
    BY <2>4, <2>5, <2>7, <2>8 DEF LaneInv
<1>8. ASSUME NEW f \in Finalizers, NEW outcome \in Outcomes, WriteFn(f, outcome) PROVE LaneInv'
  <2>1. /\ fin[f] = "writing" /\ fin' = [fin EXCEPT ![f] = outcome]
        /\ \/ outcome # "rejected" /\ written' = written \cup {f}
           \/ outcome # "committed" /\ written' = written
        /\ UNCHANGED <<lane, worker, phase>>
    BY <1>8 DEF WriteFn
  <2>2. lane.lifecycle = "finalizing" /\ written = {} /\ \A g \in Finalizers : g # f => fin[g] = "idle"
    BY <1>0, <2>1 DEF FinalizerPositions, InWrite, SingleFinalizer, Elected
  <2>3. TypeOK' /\ CountsMatch' /\ ClosedIsDrained'
    BY <1>0, <2>1 DEF TypeOK, CountsMatch, Working, Dispatched, Quiesced, ClosedIsDrained
  <2> QED
    BY <1>0, <2>1, <2>2, <2>3 DEF LaneInv, TypeOK, SingleFinalizer, Elected,
          OutcomeMatchesWrite, FinalizerPositions, InWrite
<1>9. ASSUME NEW f \in Finalizers, WriteError(f) PROVE LaneInv'
  <2>1. /\ fin[f] = "writing" /\ fin' = [fin EXCEPT ![f] = "error"]
        /\ written' \in {written, written \cup {f}}
        /\ UNCHANGED <<lane, worker, phase>>
    BY <1>9 DEF WriteError
  <2>2. lane.lifecycle = "finalizing" /\ written = {} /\ \A g \in Finalizers : g # f => fin[g] = "idle"
    BY <1>0, <2>1 DEF FinalizerPositions, InWrite, SingleFinalizer, Elected
  <2>3. TypeOK' /\ CountsMatch' /\ ClosedIsDrained'
    BY <1>0, <2>1 DEF TypeOK, CountsMatch, Working, Dispatched, Quiesced, ClosedIsDrained
  <2> QED
    BY <1>0, <2>1, <2>2, <2>3 DEF LaneInv, TypeOK, SingleFinalizer, Elected,
          OutcomeMatchesWrite, FinalizerPositions, InWrite
<1>10. ASSUME NEW f \in Finalizers, RecordOutcome(f) PROVE LaneInv'
  <2>1. /\ fin[f] \in Outcomes /\ fin' = [fin EXCEPT ![f] = "returned"]
        /\ UNCHANGED <<worker, phase, written>>
    BY <1>10 DEF RecordOutcome
  <2>2. lane.lifecycle = "finalizing" /\ \A g \in Finalizers : g # f => fin[g] = "idle"
    BY <1>0, <2>1 DEF FinalizerPositions, InWrite, SingleFinalizer, Elected
  <2>3. CASE fin[f] = "committed"
    <3>1. lane' = [lane EXCEPT !.lifecycle = "finalized", !.result = f] /\ f \in written
      BY <1>0, <1>10, <2>3 DEF RecordOutcome, RecordCommitted, FinalizerPositions
    <3>2. TypeOK' /\ CountsMatch' /\ ClosedIsDrained'
      BY <1>0, <2>1, <2>2, <3>1, ZenonT(40) DEF TypeOK, CountsMatch, Working, Dispatched, Quiesced, ClosedIsDrained
    <3> QED
      BY <1>0, <2>1, <2>2, <3>1, <3>2 DEF LaneInv, TypeOK, SingleFinalizer, Elected,
            OutcomeMatchesWrite, FinalizerPositions, InWrite
  <2>4. CASE fin[f] \in {"rejected", "threw"}
    <3>1. PICK reason \in {"write-rejected", "write-threw"} :
            /\ lane' = [lane EXCEPT !.lifecycle = "aborted", !.abort_reason = reason]
            /\ reason = "write-rejected" => fin[f] = "rejected"
      BY <1>10, <2>4 DEF RecordOutcome, RecordAborted
    <3>2. reason = "write-rejected" => written = {}
      BY <1>0, <3>1 DEF FinalizerPositions
    <3>3. TypeOK' /\ CountsMatch' /\ ClosedIsDrained'
      BY <1>0, <2>1, <2>2, <3>1, ZenonT(40) DEF TypeOK, CountsMatch, Working, Dispatched, Quiesced, ClosedIsDrained
    <3> QED
      BY <1>0, <2>1, <2>2, <3>1, <3>2, <3>3 DEF LaneInv, TypeOK, SingleFinalizer, Elected,
            OutcomeMatchesWrite, FinalizerPositions, InWrite
  <2> QED
    BY <2>1, <2>3, <2>4
<1>11. ASSUME UNCHANGED vars PROVE LaneInv'
  BY <1>0, <1>11 DEF vars, LaneInv, TypeOK, CountsMatch, Working, Dispatched, Quiesced,
        ClosedIsDrained, SingleFinalizer, Elected, OutcomeMatchesWrite, FinalizerPositions
<1> QED
  BY <1>1, <1>2, <1>3, <1>4, <1>5, <1>6, <1>7, <1>8, <1>9, <1>10, <1>11 DEF Next

-----------------------------------------------------------------------------
(* LaneInv holds in every reachable state, for any sets of threads. *)
THEOREM LaneInvariant == Spec => []LaneInv
<1>1. Init => LaneInv
  BY LaneInit
<1>2. LaneInv /\ [Next]_vars => LaneInv'
  BY LaneStep
<1> QED
  BY <1>1, <1>2, PTL DEF Spec

(* The lane record keeps its type: no counter ever goes below zero, although
   end-contributor! may arrive after closure. *)
THEOREM LaneTypeOK == Spec => []TypeOK
<1>1. LaneInv => TypeOK
  BY DEF LaneInv
<1> QED
  BY <1>1, LaneInvariant, PTL

(* FG-1 and FG-2: a closed lane has no contributor in flight and, when
   quiescence is required, no phase that did not terminate. *)
THEOREM ClosureDrains == Spec => []ClosedIsDrained
<1>1. LaneInv => ClosedIsDrained
  BY DEF LaneInv
<1> QED
  BY <1>1, LaneInvariant, PTL

(* FG-3 and FG-7: at most one thread ever runs write-fn, and it holds the
   ticket. *)
THEOREM FinalizerCardinality == Spec => []SingleFinalizer
<1>1. LaneInv => SingleFinalizer
  BY DEF LaneInv
<1> QED
  BY <1>1, LaneInvariant, PTL

(* The terminal state of a lane tells whether the write took effect. *)
THEOREM TerminalOutcomeTruthful == Spec => []OutcomeMatchesWrite
<1>1. LaneInv => OutcomeMatchesWrite
  BY DEF LaneInv
<1> QED
  BY <1>1, LaneInvariant, PTL

(* FG-1 as an action property: no step of any thread changes a sealed lane. *)
THEOREM ClosureMonotone == Spec => SealedStaysSealed
<1> DEFINE Sealed ==
      /\ lane.lifecycle # "open" =>
           /\ lane'.lifecycle # "open"
           /\ lane'.contributing_open = lane.contributing_open
           /\ lane'.executor_backed = lane.executor_backed
           /\ RequiresQuiescence => lane'.quiesced = lane.quiesced
      /\ lane.finalizer # NoValue => lane'.finalizer = lane.finalizer
      /\ lane.lifecycle \in TerminalLaneStates => lane' = lane
<1>1. LaneInv /\ [Next]_vars => [Sealed]_vars
  <2> SUFFICES ASSUME LaneInv, Next PROVE Sealed
    BY DEF vars
  <2> USE DEF lane_states, TerminalLaneStates, Outcomes
  <2>0. TypeOK /\ ClosedIsDrained /\ OutcomeMatchesWrite /\ FinalizerPositions
    BY DEF LaneInv
  <2>1. ASSUME NEW w \in Workers, BeginWork(w) PROVE Sealed
    BY <2>0, <2>1 DEF BeginWork, CanBeginContributor, BeginContributor, TypeOK
  <2>2. ASSUME NEW w \in Workers, EndWork(w) PROVE Sealed
    <3>1. lane.lifecycle = "open"
      BY <2>0, <2>2 DEF EndWork, ClosedIsDrained
    <3> QED
      BY <2>0, <2>2, <3>1 DEF EndWork, EndContributor, TypeOK
  <2>3. ASSUME NEW p \in Phases, DispatchPhase(p) PROVE Sealed
    BY <2>0, <2>3 DEF DispatchPhase, CanRecordDispatch, RecordDispatch, TypeOK
  <2>4. ASSUME NEW p \in Phases, QuiescePhase(p) PROVE Sealed
    <3>1. RequiresQuiescence => lane.lifecycle = "open"
      BY <2>0, <2>4 DEF QuiescePhase, ClosedIsDrained
    <3> QED
      BY <2>0, <2>4, <3>1 DEF QuiescePhase, CanRecordQuiesced, RecordQuiesced, TypeOK
  <2>5. ASSUME NEW p \in Phases, QuiesceTimeout(p) PROVE Sealed
    BY <2>5 DEF QuiesceTimeout
  <2>6. ASSUME Close PROVE Sealed
    BY <2>0, <2>6 DEF Close, CanClose, CloseExecution, TypeOK
  <2>7. ASSUME NEW f \in Finalizers, FinalizeElect(f) PROVE Sealed
    BY <2>0, <2>7 DEF FinalizeElect, FinalizePreconditions, Elect, TypeOK
  <2>8. ASSUME NEW f \in Finalizers, NEW outcome \in Outcomes, WriteFn(f, outcome) PROVE Sealed
    BY <2>8 DEF WriteFn
  <2>9. ASSUME NEW f \in Finalizers, WriteError(f) PROVE Sealed
    BY <2>9 DEF WriteError
  <2>10. ASSUME NEW f \in Finalizers, RecordOutcome(f) PROVE Sealed
    <3>1. lane.lifecycle = "finalizing"
      BY <2>0, <2>10 DEF RecordOutcome, FinalizerPositions, InWrite
    <3>2. PICK o, v :
            \/ lane' = [lane EXCEPT !.lifecycle = "finalized", !.result = o]
            \/ lane' = [lane EXCEPT !.lifecycle = "aborted", !.abort_reason = v]
      BY <2>10 DEF RecordOutcome, RecordCommitted, RecordAborted
    <3> QED
      BY <2>0, <3>1, <3>2 DEF TypeOK
  <2> QED
    BY <2>1, <2>2, <2>3, <2>4, <2>5, <2>6, <2>7, <2>8, <2>9, <2>10 DEF Next
<1> QED
  BY <1>1, LaneInvariant, PTL DEF Spec, SealedStaysSealed
=============================================================================
