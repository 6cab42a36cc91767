------------------------------ MODULE LaneOps ------------------------------
(***************************************************************************)
(* The finalization lane as a value: execution/finalization_lane.clj keeps *)
(* one Clojure atom per lane and every operation is a compare-and-set      *)
(* retry loop over it, so each operation is one atomic function from the   *)
(* lane record to the next lane record, with a guard that comes from the   *)
(* `case` on :lifecycle.  The state machines that use a lane                *)
(* (FinalizationLane, ProRataFinalization) take the operations from here.   *)
(***************************************************************************)
EXTENDS Integers

CONSTANT NoValue    \* Clojure's nil

lane_states == {"open", "execution-closed", "finalizing", "finalized", "aborted"}

TerminalLaneStates == {"finalized", "aborted"}

(* A lane is opened for one expected parent root (nil: no parent fence).   *)
OpenLane(generation, parent, requires_quiescence) ==
  [ lifecycle            |-> "open",
    generation           |-> generation,
    expected_parent_root |-> parent,
    requires_quiescence  |-> requires_quiescence,
    contributing_open    |-> 0,
    executor_backed      |-> 0,
    quiesced             |-> 0,
    finalizer            |-> NoValue,
    result               |-> NoValue,
    abort_reason         |-> NoValue ]

(* begin-contributor!: any lifecycle but :open throws. *)
CanBeginContributor(l) == l.lifecycle = "open"
BeginContributor(l)    == [l EXCEPT !.contributing_open = @ + 1]

(* end-contributor!: max 0 (dec n); a terminal lane ignores the call. *)
EndContributor(l) ==
  IF l.lifecycle \in TerminalLaneStates THEN l
  ELSE [l EXCEPT !.contributing_open = IF @ > 0 THEN @ - 1 ELSE 0]

CanRecordDispatch(l) == l.lifecycle = "open"
RecordDispatch(l)    == [l EXCEPT !.executor_backed = @ + 1]

CanRecordQuiesced(l) == l.lifecycle \in {"open", "execution-closed"}
RecordQuiesced(l)    == [l EXCEPT !.quiesced = @ + 1]

(* mutant: closure that forgets the outstanding contributors *)
CanCloseUndrained(l) ==
  /\ l.lifecycle = "open"
  /\ l.requires_quiescence => l.executor_backed = l.quiesced

(* close-execution! succeeds only on an open, drained lane. *)
CanClose(l) ==
  /\ l.lifecycle = "open"
  /\ l.contributing_open = 0
  /\ l.requires_quiescence => l.executor_backed = l.quiesced

CloseExecution(l) == [l EXCEPT !.lifecycle = "execution-closed"]

(* mutant: a lane whose ticket is taken still elects *)
FinalizePreconditionsNoTicketCheck(l, observed_parent, valid_basis) ==
  /\ l.lifecycle \in {"execution-closed", "finalizing"}
  /\ l.expected_parent_root # NoValue => l.expected_parent_root = observed_parent
  /\ valid_basis

(* finalize-preconditions: nil is "may be elected". *)
FinalizePreconditions(l, observed_parent, valid_basis) ==
  /\ l.lifecycle = "execution-closed"
  /\ l.finalizer = NoValue
  /\ l.expected_parent_root # NoValue => l.expected_parent_root = observed_parent
  /\ valid_basis

(* The single CAS :execution-closed -> :finalizing that installs a ticket.
   The ticket is identified by the thread that holds it. *)
Elect(l, id) ==
  [l EXCEPT !.lifecycle = "finalizing",
            !.finalizer = [ id              |-> id,
                            lane_generation |-> l.generation,
                            expected_parent |-> l.expected_parent_root ]]

(* The swap! that records the outcome of write-fn. *)
RecordCommitted(l, result) == [l EXCEPT !.lifecycle = "finalized", !.result = result]
RecordAborted(l, reason)   == [l EXCEPT !.lifecycle = "aborted", !.abort_reason = reason]
=============================================================================
