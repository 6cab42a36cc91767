-------------------------- MODULE FinalizationLane --------------------------
(***************************************************************************)
(* One finalization lane (execution/finalization_lane.clj) used by many     *)
(* threads at once: contributors, executor-backed phases, closers and       *)
(* competing finalizers.  Between the CAS that elects a finalizer and the   *)
(* swap! that records its outcome, the elected thread runs the caller's      *)
(* write-fn, and every other operation may interleave with it.              *)
(*                                                                         *)
(* The write-fn is the caller's code: it may commit, be refused, throw      *)
(* with or without having written (an acknowledgement lost after the        *)
(* durable commit), or raise a java.lang.Error, which the `catch Exception` *)
(* of finalize-lane! does not catch.                                        *)
(***************************************************************************)
EXTENDS LaneOps, FiniteSets

CONSTANTS Workers,             \* units of contributing work
          Phases,              \* executor-backed phases
          Finalizers,          \* threads that call finalize-lane!
          Roots,               \* parent roots a caller can observe
          ExpectedParent,      \* the root the lane was opened for, or NoValue
          RequiresQuiescence,  \* :requires-quiescence? of open
          Errors               \* TRUE: write-fn may raise a java.lang.Error

ASSUME LaneConstants ==
  /\ IsFiniteSet(Workers) /\ IsFiniteSet(Phases)
  /\ NoValue \notin [ id : Finalizers, lane_generation : {1},
                       expected_parent : {ExpectedParent} ]
  /\ RequiresQuiescence \in BOOLEAN
  /\ Errors \in BOOLEAN

VARIABLES
  lane,       \* the atom
  worker,     \* Workers -> progress of the unit of work
  phase,      \* Phases -> progress of the executor-backed phase
  fin,        \* Finalizers -> position in finalize-lane!
  written     \* finalizers whose write-fn took durable effect

vars == <<lane, worker, phase, fin, written>>

(* What write-fn can hand back: {:committed r}, {:rejected r}, an Exception. *)
Outcomes == {"committed", "rejected", "threw"}

Init ==
  /\ lane = OpenLane(1, ExpectedParent, RequiresQuiescence)
  /\ worker = [w \in Workers |-> "idle"]
  /\ phase = [p \in Phases |-> "idle"]
  /\ fin = [f \in Finalizers |-> "idle"]
  /\ written = {}

-----------------------------------------------------------------------------
(* Contributors.  A refused begin-contributor! throws and the work is never
   started; a started unit calls end-contributor! once, whatever the lane
   has become meanwhile. *)

BeginWork(w) ==
  /\ worker[w] = "idle"
  /\ IF CanBeginContributor(lane)
     THEN /\ lane' = BeginContributor(lane)
          /\ worker' = [worker EXCEPT ![w] = "working"]
     ELSE /\ worker' = [worker EXCEPT ![w] = "refused"]
          /\ UNCHANGED lane
  /\ UNCHANGED <<phase, fin, written>>

EndWork(w) ==
  /\ worker[w] = "working"
  /\ lane' = EndContributor(lane)
  /\ worker' = [worker EXCEPT ![w] = "done"]
  /\ UNCHANGED <<phase, fin, written>>

(* Executor-backed phases.  claimant-quiesce! records quiescence only when
   the pool terminated; a timeout throws and the phase is never quiesced.  A
   late record-quiesced! throws as well. *)

DispatchPhase(p) ==
  /\ phase[p] = "idle"
  /\ IF CanRecordDispatch(lane)
     THEN /\ lane' = RecordDispatch(lane)
          /\ phase' = [phase EXCEPT ![p] = "running"]
     ELSE /\ phase' = [phase EXCEPT ![p] = "refused"]
          /\ UNCHANGED lane
  /\ UNCHANGED <<worker, fin, written>>

QuiescePhase(p) ==
  /\ phase[p] = "running"
  /\ IF CanRecordQuiesced(lane)
     THEN /\ lane' = RecordQuiesced(lane)
          /\ phase' = [phase EXCEPT ![p] = "quiesced"]
     ELSE /\ phase' = [phase EXCEPT ![p] = "late"]
          /\ UNCHANGED lane
  /\ UNCHANGED <<worker, fin, written>>

QuiesceTimeout(p) ==
  /\ phase[p] = "running"
  /\ phase' = [phase EXCEPT ![p] = "failed"]
  /\ UNCHANGED <<lane, worker, fin, written>>

-----------------------------------------------------------------------------
(* close-execution! by any thread; a failed attempt changes nothing. *)
Close ==
  /\ CanClose(lane)
  /\ lane' = CloseExecution(lane)
  /\ UNCHANGED <<worker, phase, fin, written>>

(* finalize-lane!, up to the CAS.  A failed precondition returns a rejection
   and leaves the lane alone; the caller may try again. *)
FinalizeElect(f) ==
  /\ fin[f] = "idle"
  /\ \E observed \in Roots, valid_basis \in BOOLEAN :
       FinalizePreconditions(lane, observed, valid_basis)
  /\ lane' = Elect(lane, f)
  /\ fin' = [fin EXCEPT ![f] = "writing"]
  /\ UNCHANGED <<worker, phase, written>>

(* The elected thread runs write-fn; a throw may hide a write that happened. *)
WriteFn(f, outcome) ==
  /\ fin[f] = "writing"
  /\ fin' = [fin EXCEPT ![f] = outcome]
  /\ \/ /\ outcome # "rejected"
        /\ written' = written \cup {f}
     \/ /\ outcome # "committed"
        /\ UNCHANGED written
  /\ UNCHANGED <<lane, worker, phase>>

(* A java.lang.Error unwinds past finalize-lane!: no swap! is made. *)
WriteError(f) ==
  /\ Errors
  /\ fin[f] = "writing"
  /\ fin' = [fin EXCEPT ![f] = "error"]
  /\ written' \in {written, written \cup {f}}
  /\ UNCHANGED <<lane, worker, phase>>

(* mutant: any answer of write-fn that is not an exception is a commit *)
RecordOutcomeTruthy(f) ==
  /\ fin[f] \in Outcomes
  /\ lane' = IF fin[f] = "threw" THEN RecordAborted(lane, "write-threw")
                                ELSE RecordCommitted(lane, f)
  /\ fin' = [fin EXCEPT ![f] = "returned"]
  /\ UNCHANGED <<worker, phase, written>>

(* mutant: the outcome of a throwing write-fn is not recorded *)
RecordOutcomeNoCatch(f) ==
  /\ fin[f] \in Outcomes \ {"threw"}
  /\ lane' = IF fin[f] = "committed" THEN RecordCommitted(lane, f)
                                    ELSE RecordAborted(lane, "write-rejected")
  /\ fin' = [fin EXCEPT ![f] = "returned"]
  /\ UNCHANGED <<worker, phase, written>>

(* The swap! after write-fn.  The code reads (:reason write-result), a key the
   {:rejected reason} answer does not have, so the reason becomes the default. *)
RecordOutcome(f) ==
  /\ fin[f] \in Outcomes
  /\ lane' = CASE fin[f] = "committed" -> RecordCommitted(lane, f)
               [] fin[f] = "rejected"  -> RecordAborted(lane, "write-rejected")
               [] fin[f] = "threw"     -> RecordAborted(lane, "write-threw")
  /\ fin' = [fin EXCEPT ![f] = "returned"]
  /\ UNCHANGED <<worker, phase, written>>

Next ==
  \/ \E w \in Workers : BeginWork(w) \/ EndWork(w)
  \/ \E p \in Phases : DispatchPhase(p) \/ QuiescePhase(p) \/ QuiesceTimeout(p)
  \/ Close
  \/ \E f \in Finalizers :
       \/ FinalizeElect(f)
       \/ \E outcome \in Outcomes : WriteFn(f, outcome)
       \/ WriteError(f)
       \/ RecordOutcome(f)

Spec == Init /\ [][Next]_vars

(* write-fn returns and the elected thread records its outcome: ordinary
   progress of a running thread. *)
FairSpec ==
  /\ Spec
  /\ \A f \in Finalizers :
       /\ WF_vars(\E outcome \in Outcomes : WriteFn(f, outcome))
       /\ WF_vars(RecordOutcome(f))

-----------------------------------------------------------------------------
Elected(f) == fin[f] # "idle"

(* The lane record, the threads' positions and the ticket have their types: the
   contributor count never goes below zero and the ticket carries the lane's own
   generation and expected parent (make-ticket). *)
TypeOK ==
  /\ lane \in [ lifecycle            : lane_states,
                generation           : {1},
                expected_parent_root : {ExpectedParent},
                requires_quiescence  : {RequiresQuiescence},
                contributing_open    : Nat,
                executor_backed      : Nat,
                quiesced             : Nat,
                finalizer            : {NoValue} \cup
                                         [ id : Finalizers, lane_generation : {1},
                                           expected_parent : {ExpectedParent} ],
                result               : {NoValue} \cup Finalizers,
                abort_reason         : {NoValue, "write-rejected", "write-threw"} ]
  /\ worker \in [Workers -> {"idle", "working", "done", "refused"}]
  /\ phase \in [Phases -> {"idle", "running", "quiesced", "failed", "late", "refused"}]
  /\ fin \in [Finalizers -> {"idle", "writing", "error", "returned"} \cup Outcomes]
  /\ written \subseteq Finalizers

(* FG-1 and FG-2 across the lane and its threads: once execution is closed no
   unit of contributing work is in flight, and when quiescence is required no
   executor-backed phase is running or failed to terminate. *)
ClosedIsDrained ==
  lane.lifecycle # "open" =>
    /\ \A w \in Workers : worker[w] # "working"
    /\ RequiresQuiescence => \A p \in Phases : phase[p] \notin {"running", "failed", "late"}

(* FG-3 and FG-7: over the whole life of a lane at most one thread ever runs
   write-fn, so at most one durable write is made for the generation, and it is
   the write of the ticket holder. *)
SingleFinalizer ==
  /\ \A f, g \in Finalizers : Elected(f) /\ Elected(g) => f = g
  /\ \A f \in Finalizers : Elected(f) =>
       lane.finalizer # NoValue /\ lane.finalizer.id = f
  /\ \A f \in written : Elected(f)

(* The terminal state tells the truth about the write: FINALIZED only after a
   durable write by the ticket holder, and ABORTED for a domain rejection only
   when nothing was written. *)
OutcomeMatchesWrite ==
  /\ lane.lifecycle = "finalized" => lane.result \in written
  /\ lane.lifecycle = "aborted" /\ lane.abort_reason = "write-rejected" => written = {}
  /\ lane.lifecycle \in TerminalLaneStates =>
       \A f \in Finalizers : fin[f] \in {"idle", "returned"}

(* FG-1 as an action property: after closure no operation of any thread changes
   what was sealed, the drain of late contributors included, and a terminal
   lane never changes again. *)
SealedStaysSealed ==
  [][ /\ lane.lifecycle # "open" =>
           /\ lane'.lifecycle # "open"
           /\ lane'.contributing_open = lane.contributing_open
           /\ lane'.executor_backed = lane.executor_backed
           /\ RequiresQuiescence => lane'.quiesced = lane.quiesced
      /\ lane.finalizer # NoValue => lane'.finalizer = lane.finalizer
      /\ lane.lifecycle \in TerminalLaneStates => lane' = lane ]_vars

(* Once a finalizer is elected the lane does not stay FINALIZING for ever:
   write-fn returns or throws and the outcome is recorded although other threads
   keep calling into the lane.  The one exception is a java.lang.Error, which
   `catch Exception` lets pass and which leaves the lane FINALIZING. *)
ElectedTerminates ==
  lane.lifecycle = "finalizing" ~>
    lane.lifecycle \in TerminalLaneStates \/ \E f \in Finalizers : fin[f] = "error"
=============================================================================
