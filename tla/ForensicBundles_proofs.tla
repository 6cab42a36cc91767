------------------------ MODULE ForensicBundles_proofs ------------------------
(***************************************************************************)
(* Proofs about the forensic runner (ForensicRun), about the verification  *)
(* of the bundles it seals (BundleVerification) and about the receipt      *)
(* inclusion proofs that a bundle may carry (ReceiptInclusion).            *)
(*                                                                         *)
(* The runner, for any processes, any clock bound and any retention limit: *)
(* the lock serialises the processes that fill directories, but retention  *)
(* removes directories without it.  The invariants hold nevertheless       *)
(* because a directory comes into being empty (DirShape), the holder of    *)
(* the lock finds only its own, unhardened files (OwnFiles), and a removal *)
(* pass works only on directories it has marked (VictimsDoomed).           *)
(*                                                                         *)
(* The verifier, for any protocol history, evidence directory, fault and   *)
(* options: what a bundle that verify.py accepts must be like.  Nothing    *)
(* about how the bundle came to be is used but its shape, so that the      *)
(* argument is one about the checks: a required check that fails is in the *)
(* set that is aggregated, and what passes them all has the property.      *)
(*                                                                         *)
(* For an untouched bundle the verdict is exact.  The depth-first search   *)
(* numbers the nodes it has finished along the edges (SearchOK), so that   *)
(* it finds a cycle exactly when there is no numbering; and the records,   *)
(* consumptions and events of a history agree (HistoryInv), so that the    *)
(* checks of the Sew validator can be read as facts about what happened.   *)
(*                                                                         *)
(* Inclusion, for any chain, lists and proof nodes: the walk stands, after *)
(* n nibbles of the key, at the node of the entries that share those n     *)
(* nibbles (OnPath), so that it ends at the entry of the key or at none;   *)
(* keys of different indices differ, and Ancestors is the fixed point of   *)
(* the parent links.                                                       *)
(***************************************************************************)
EXTENDS ForensicRun, BundleVerification, ReceiptInclusion, FiniteSetTheorems, SequenceTheorems,
        WellFoundedInduction, TLAPS

DirState == [exists : BOOLEAN, entries : SUBSET (Groups \X Procs), hard : BOOLEAN]

RunPositions ==
    {"idle", "preflight", "lock", "setup", "inputs", "execute", "records", "overview",
     "root", "verify", "harden", "retention", "remove", "done", "dry", "raised"}

(* The stages in which a process writes, past its mkdir. *)
Filling == Stages \ {"setup"}

ForensicTypeOK ==
    /\ clock \in RunIds /\ lock \in Procs \cup {NoProc}
    /\ dir \in [RunIds -> DirState]
    /\ pc \in [Procs -> RunPositions] /\ rid \in [Procs -> RunIds]
    /\ exit \in [Procs -> {0, 1}]
    /\ victims \in [Procs -> Seq(RunIds)] /\ listing \in [Procs -> SUBSET Groups]
    /\ doomed \subseteq RunIds

LockHeld == \A p \in Procs : pc[p] \in Stages => lock = p

DirShape ==
    \A i \in RunIds : ~dir[i].exists => dir[i].entries = {} /\ ~dir[i].hard

OwnFiles ==
    \A p \in Procs : pc[p] \in Filling =>
        ~dir[rid[p]].hard /\ \A e \in dir[rid[p]].entries : e[2] = p

VictimsDoomed ==
    \A p \in Procs : \A k \in 1..Len(victims[p]) : victims[p][k] \in doomed

(* From its closing verification on, a successful run has a whole bundle. *)
SuccessSoFar ==
    \A p \in Procs :
        pc[p] \in {"harden", "retention", "remove", "done"} /\ exit[p] = 0 /\ rid[p] \notin doomed =>
            Verifies(rid[p]) /\ \A e \in dir[rid[p]].entries : e[2] = p

ForensicInv ==
    /\ ForensicTypeOK /\ LockHeld /\ DirShape /\ OwnFiles /\ VictimsDoomed
    /\ UnmixedBundle /\ SuccessSoFar

------------------------------------------------------------------------------
(* Facts about the operators of the model. *)

(* Before any process has started, there are no run directories. *)
LEMMA InitInv == RunInit => ForensicInv
<1> SUFFICES ASSUME RunInit PROVE ForensicInv
    OBVIOUS
<1> USE ForensicRunAssumption DEF RunInit, RunIds, NoDir
<1>1. ForensicTypeOK
    <2>1. dir \in [RunIds -> DirState]
        BY DEF DirState
    <2>2. 0 \in RunIds
        OBVIOUS
    <2>3. victims \in [Procs -> Seq(RunIds)]
        OBVIOUS
    <2> QED BY <2>1, <2>2, <2>3 DEF ForensicTypeOK, RunPositions
<1>2. LockHeld /\ OwnFiles /\ SuccessSoFar
    BY DEF LockHeld, OwnFiles, SuccessSoFar, Stages, Filling
<1>3. DirShape /\ UnmixedBundle
    BY DEF DirShape, UnmixedBundle
<1>4. VictimsDoomed
    BY DEF VictimsDoomed
<1> QED BY <1>1, <1>2, <1>3, <1>4 DEF ForensicInv

(* The retention pass of run.py selects a sequence of run directories. *)
LEMMA ChosenRuns ==
    ASSUME NEW chosen \in OldestFirst(Surplus)
    PROVE  chosen \in Seq(RunIds) /\ DOMAIN chosen = 1..Len(chosen)
<1>1. IsFiniteSet(Existing)
    <2>1. IsFiniteSet(RunIds)
        BY ForensicRunAssumption, FS_Interval DEF RunIds
    <2> QED BY <2>1, FS_Subset DEF Existing
<1>2. Cardinality(Existing) \in Nat
    BY <1>1, FS_CardinalityType
<1>3. Surplus \in Nat
    BY <1>2, ForensicRunAssumption DEF Surplus
<1>4. chosen \in [1..Surplus -> RunIds]
    BY DEF OldestFirst, Existing
<1>5. chosen \in Seq(RunIds)
    BY <1>3, <1>4
<1> QED BY <1>5, LenProperties

(* Whoever is past its mkdir in run.py is the only one, for it holds the
   lock. *)
LEMMA OneHolder ==
    ASSUME ForensicTypeOK, LockHeld,
           NEW p \in Procs, pc[p] \in Stages, NEW q \in Procs, q # p
    PROVE  pc[q] \notin Stages
BY DEF LockHeld

(* A process that fills a directory and one whose finished bundle is whole
   work on two different directories. *)
LEMMA FillerApart ==
    ASSUME ForensicInv, NEW p \in Procs, pc[p] \in Filling,
           NEW q \in Procs, q # p,
           Verifies(rid[q]) /\ \A e \in dir[rid[q]].entries : e[2] = q
    PROVE  rid[q] # rid[p]
<1>1. PICK e \in dir[rid[q]].entries : e[1] = "root"
    BY DEF Verifies, GroupsOf, Groups
<1>2. ASSUME rid[q] = rid[p] PROVE FALSE
    BY <1>1, <1>2 DEF ForensicInv, OwnFiles
<1> QED BY <1>2

------------------------------------------------------------------------------
(* Steps that leave the run directories alone. *)

(* What is said of the directories alone survives every step that touches
   neither them nor the retention passes. *)
LEMMA DiskKept ==
    ASSUME ForensicInv, UNCHANGED <<dir, doomed, victims>>
    PROVE  DirShape' /\ UnmixedBundle' /\ VictimsDoomed'
BY DEF ForensicInv, DirShape, UnmixedBundle, VictimsDoomed

(* The clock does not matter to what is on disk. *)
LEMMA TickInv == ForensicInv /\ Tick => ForensicInv'
<1> SUFFICES ASSUME ForensicInv, Tick PROVE ForensicInv'
    OBVIOUS
<1> USE DEF Tick, retentionVars
<1>1. clock' \in RunIds
    BY ForensicRunAssumption DEF ForensicInv, ForensicTypeOK, RunIds
<1>2. ForensicTypeOK'
    BY <1>1 DEF ForensicInv, ForensicTypeOK
<1>3. DirShape' /\ UnmixedBundle' /\ VictimsDoomed'
    BY DiskKept
<1>4. LockHeld' /\ OwnFiles' /\ SuccessSoFar'
    BY DEF ForensicInv, LockHeld, OwnFiles, SuccessSoFar, Verifies, GroupsOf
<1> QED BY <1>2, <1>3, <1>4 DEF ForensicInv

(* A process takes its run id before it has anything on disk. *)
LEMMA StartInv == \A p \in Procs : ForensicInv /\ Start(p) => ForensicInv'
<1> SUFFICES ASSUME NEW p \in Procs, ForensicInv, Start(p) PROVE ForensicInv'
    OBVIOUS
<1> USE DEF Start, Goto, retentionVars, diskVars
<1>1. ForensicTypeOK'
    BY DEF ForensicInv, ForensicTypeOK, RunPositions
<1>2. DirShape' /\ UnmixedBundle' /\ VictimsDoomed'
    BY DiskKept
<1>3. \A q \in Procs : q # p => pc'[q] = pc[q] /\ rid'[q] = rid[q]
    BY DEF ForensicInv, ForensicTypeOK
<1>4. pc'[p] = "preflight"
    BY DEF ForensicInv, ForensicTypeOK
<1>5. LockHeld' /\ OwnFiles' /\ SuccessSoFar'
    BY <1>3, <1>4 DEF ForensicInv, LockHeld, OwnFiles, SuccessSoFar, Verifies, GroupsOf,
                      Stages, Filling
<1> QED BY <1>1, <1>2, <1>5 DEF ForensicInv

(* Preflight ends in failure, a dry run or the wait for the lock; only the
   failure is an end, and it has exit code 1. *)
LEMMA PreflightInv == \A p \in Procs : ForensicInv /\ Preflight(p) => ForensicInv'
<1> SUFFICES ASSUME NEW p \in Procs, ForensicInv, Preflight(p) PROVE ForensicInv'
    OBVIOUS
<1>1. PICK failed \in BOOLEAN, dryRun \in BOOLEAN :
          /\ Goto(p, IF failed THEN "done" ELSE IF dryRun THEN "dry" ELSE "lock")
          /\ exit' = [exit EXCEPT ![p] = IF failed THEN 1 ELSE 0]
    BY DEF Preflight
<1>2. UNCHANGED <<lock, rid, victims, listing, clock, dir, doomed>>
    BY DEF Preflight, retentionVars, diskVars
<1>3. ForensicTypeOK'
    <2>1. pc' \in [Procs -> RunPositions]
        BY <1>1 DEF Goto, ForensicInv, ForensicTypeOK, RunPositions
    <2>2. exit' \in [Procs -> {0, 1}]
        BY <1>1 DEF ForensicInv, ForensicTypeOK
    <2> QED BY <1>2, <2>1, <2>2 DEF ForensicInv, ForensicTypeOK
<1>4. DirShape' /\ UnmixedBundle' /\ VictimsDoomed'
    BY <1>2, DiskKept
<1>5. \A q \in Procs : q # p => pc'[q] = pc[q] /\ exit'[q] = exit[q]
    BY <1>1 DEF Goto, ForensicInv, ForensicTypeOK
<1>6. pc'[p] \in {"done", "dry", "lock"} /\ (pc'[p] = "done" => exit'[p] = 1)
    BY <1>1 DEF Goto, ForensicInv, ForensicTypeOK
<1>7. LockHeld' /\ OwnFiles'
    BY <1>2, <1>5, <1>6 DEF ForensicInv, LockHeld, OwnFiles, Stages, Filling
<1>8. SuccessSoFar'
    BY <1>2, <1>5, <1>6 DEF ForensicInv, SuccessSoFar, Verifies, GroupsOf
<1> QED BY <1>3, <1>4, <1>7, <1>8 DEF ForensicInv

(* The lock is granted only when nobody is past it. *)
LEMMA AcquireLockInv == \A p \in Procs : ForensicInv /\ AcquireLock(p) => ForensicInv'
<1> SUFFICES ASSUME NEW p \in Procs, ForensicInv, AcquireLock(p) PROVE ForensicInv'
    OBVIOUS
<1> USE DEF AcquireLock, Goto, retentionVars, diskVars
<1>1. ForensicTypeOK'
    BY DEF ForensicInv, ForensicTypeOK, RunPositions
<1>2. DirShape' /\ UnmixedBundle' /\ VictimsDoomed'
    BY DiskKept
<1>3. \A q \in Procs : q # p => pc'[q] = pc[q]
    BY DEF ForensicInv, ForensicTypeOK
<1>4. pc'[p] = "setup"
    BY DEF ForensicInv, ForensicTypeOK
<1>5. LockHeld'
    BY <1>3, <1>4, ForensicRunAssumption DEF ForensicInv, LockHeld
<1>6. OwnFiles' /\ SuccessSoFar'
    BY <1>3, <1>4 DEF ForensicInv, OwnFiles, SuccessSoFar, Verifies, GroupsOf, Filling
<1> QED BY <1>1, <1>2, <1>5, <1>6 DEF ForensicInv

(* An exception or a death under the lock frees it and ends the run, with
   what it wrote left in place. *)
LEMMA RaiseInv ==
    \A p \in Procs : ForensicInv /\ pc[p] \in Stages /\ Raise(p) => ForensicInv'
<1> SUFFICES ASSUME NEW p \in Procs, ForensicInv, pc[p] \in Stages, Raise(p) PROVE ForensicInv'
    OBVIOUS
<1> USE DEF Raise, Goto, retentionVars
<1>1. ForensicTypeOK'
    BY DEF ForensicInv, ForensicTypeOK, RunPositions
<1>2. DirShape' /\ UnmixedBundle' /\ VictimsDoomed'
    BY DiskKept
<1>3. \A q \in Procs : q # p => pc'[q] = pc[q] /\ exit'[q] = exit[q] /\ pc'[q] \notin Stages
    BY OneHolder DEF ForensicInv, ForensicTypeOK
<1>4. pc'[p] = "raised"
    BY DEF ForensicInv, ForensicTypeOK
<1>5. LockHeld' /\ OwnFiles'
    BY <1>3, <1>4 DEF ForensicInv, LockHeld, OwnFiles, Stages, Filling
<1>6. SuccessSoFar'
    BY <1>3, <1>4 DEF ForensicInv, SuccessSoFar, Verifies, GroupsOf
<1> QED BY <1>1, <1>2, <1>5, <1>6 DEF ForensicInv

(* The closing verification turns an incomplete bundle into exit code 1. *)
LEMMA VerifyInv == \A p \in Procs : ForensicInv /\ Verify(p) => ForensicInv'
<1> SUFFICES ASSUME NEW p \in Procs, ForensicInv, Verify(p) PROVE ForensicInv'
    OBVIOUS
<1> USE DEF Verify, Goto, retentionVars, diskVars
<1>1. ForensicTypeOK'
    BY DEF ForensicInv, ForensicTypeOK, RunPositions
<1>2. DirShape' /\ UnmixedBundle' /\ VictimsDoomed'
    BY DiskKept
<1>3. \A q \in Procs : q # p => pc'[q] = pc[q] /\ exit'[q] = exit[q]
    BY DEF ForensicInv, ForensicTypeOK
<1>4. pc'[p] = "harden" /\ (exit'[p] = 0 => Verifies(rid[p]))
    BY DEF ForensicInv, ForensicTypeOK
<1>5. LockHeld' /\ OwnFiles'
    BY <1>3, <1>4 DEF ForensicInv, LockHeld, OwnFiles, Stages, Filling
<1>6. \A e \in dir[rid[p]].entries : e[2] = p
    BY DEF ForensicInv, OwnFiles, Stages, Filling
<1>7. SuccessSoFar'
    BY <1>3, <1>4, <1>6 DEF ForensicInv, SuccessSoFar, Verifies, GroupsOf
<1> QED BY <1>1, <1>2, <1>5, <1>7 DEF ForensicInv

(* A retention pass that has nothing left to remove ends the run. *)
LEMMA FinishInv == \A p \in Procs : ForensicInv /\ Finish(p) => ForensicInv'
<1> SUFFICES ASSUME NEW p \in Procs, ForensicInv, Finish(p) PROVE ForensicInv'
    OBVIOUS
<1> USE DEF Finish, Goto, retentionVars, diskVars
<1>1. ForensicTypeOK'
    BY DEF ForensicInv, ForensicTypeOK, RunPositions
<1>2. DirShape' /\ UnmixedBundle' /\ VictimsDoomed'
    BY DiskKept
<1>3. \A q \in Procs : q # p => pc'[q] = pc[q]
    BY DEF ForensicInv, ForensicTypeOK
<1>4. pc'[p] = "done"
    BY DEF ForensicInv, ForensicTypeOK
<1>5. LockHeld' /\ OwnFiles' /\ SuccessSoFar'
    BY <1>3, <1>4 DEF ForensicInv, LockHeld, OwnFiles, SuccessSoFar, Verifies, GroupsOf,
                      Stages, Filling
<1> QED BY <1>1, <1>2, <1>5 DEF ForensicInv

------------------------------------------------------------------------------
(* Steps that fill a run directory. *)

(* The mkdir of run.py fails on an existing directory, so what it makes
   holds files of its own run only. *)
LEMMA SetupInv == \A p \in Procs : ForensicInv /\ Setup(p) => ForensicInv'
<1> SUFFICES ASSUME NEW p \in Procs, ForensicInv, Setup(p) PROVE ForensicInv'
    OBVIOUS
<1>1. pc[p] = "setup" /\ pc[p] \in Stages
    BY DEF Setup, Stages
<1>2. CASE Raise(p)
    BY <1>1, <1>2, RaiseInv
<1>3. CASE ~dir[rid[p]].exists /\ ~Raise(p)
    <2> DEFINE made == [exists |-> TRUE, hard |-> FALSE,
                        entries |-> {<<g, p>> : g \in {"preflight", "workspace"}}]
    <2>1. /\ dir' = [dir EXCEPT ![rid[p]] = made]
          /\ pc' = [pc EXCEPT ![p] = "inputs"]
          /\ UNCHANGED <<clock, doomed, lock, rid, exit, victims, listing>>
        BY <1>3 DEF Setup, Goto, retentionVars
    <2>2. made \in DirState /\ made.exists /\ ~made.hard /\ \A e \in made.entries : e[2] = p
        BY DEF DirState, Groups
    <2> HIDE DEF made
    <2>3. rid[p] \in RunIds /\ dir[rid[p]].entries = {}
        BY <1>3 DEF ForensicInv, ForensicTypeOK, DirShape
    <2>4. /\ dir'[rid[p]] = made
          /\ \A i \in RunIds : i # rid[p] => dir'[i] = dir[i]
        BY <2>1, <2>3 DEF ForensicInv, ForensicTypeOK
    <2>5. /\ pc'[p] = "inputs"
          /\ \A q \in Procs : q # p => pc'[q] = pc[q]
        BY <2>1 DEF ForensicInv, ForensicTypeOK
    <2>6. ForensicTypeOK'
        BY <2>1, <2>2, <2>3 DEF ForensicInv, ForensicTypeOK, RunPositions
    <2>7. LockHeld'
        BY <1>1, <2>1, <2>5 DEF ForensicInv, LockHeld
    <2>8. DirShape' /\ UnmixedBundle'
        BY <2>2, <2>4 DEF ForensicInv, DirShape, UnmixedBundle
    <2>9. OwnFiles'
        BY <1>1, <2>1, <2>2, <2>4, <2>5, OneHolder DEF ForensicInv, OwnFiles, Filling
    <2>10. VictimsDoomed'
        BY <2>1 DEF ForensicInv, VictimsDoomed
    <2>11. SuccessSoFar'
        <3> SUFFICES ASSUME NEW q \in Procs, exit[q] = 0, rid[q] \notin doomed,
                            pc'[q] \in {"harden", "retention", "remove", "done"}
                     PROVE  Verifies(rid[q])' /\ \A e \in dir'[rid[q]].entries : e[2] = q
            BY <2>1 DEF SuccessSoFar
        <3>1. Verifies(rid[q]) /\ \A e \in dir[rid[q]].entries : e[2] = q
            BY <2>5 DEF ForensicInv, SuccessSoFar
        <3>2. rid[q] # rid[p]
            BY <3>1, <2>3 DEF Verifies, GroupsOf, Groups
        <3>3. dir'[rid[q]] = dir[rid[q]]
            BY <2>4, <3>2 DEF ForensicInv, ForensicTypeOK
        <3> QED BY <2>1, <3>1, <3>3 DEF Verifies, GroupsOf
    <2> QED BY <2>6, <2>7, <2>8, <2>9, <2>10, <2>11 DEF ForensicInv
<1> QED BY <1>2, <1>3 DEF Setup

(* A write of the lock's holder adds a file of its own to a directory that
   holds only its own, made again if a retention pass removed it. *)
LEMMA WriteInv ==
    ASSUME ForensicInv,
           NEW p \in Procs, NEW group \in Groups,
           NEW to \in Stages \ {"setup", "harden"},
           pc[p] \in Filling, WriteSealed(p, group), Goto(p, to),
           exit' \in [Procs -> {0, 1}],
           \A q \in Procs : q # p => exit'[q] = exit[q],
           UNCHANGED <<clock, doomed, lock, rid, victims, listing>>
    PROVE  ForensicInv'
<1> DEFINE entries == dir[rid[p]].entries \cup {<<group, p>>}
           made == [exists |-> TRUE, hard |-> FALSE, entries |-> entries]
<1>1. rid[p] \in RunIds /\ \A e \in dir[rid[p]].entries : e[2] = p
    BY DEF ForensicInv, ForensicTypeOK, OwnFiles
<1>2. made \in DirState /\ made.exists /\ ~made.hard /\ \A e \in made.entries : e[2] = p
    <2>1. entries \in SUBSET (Groups \X Procs)
        BY <1>1 DEF ForensicInv, ForensicTypeOK, DirState
    <2>2. \A e \in entries : e[2] = p
        BY <1>1
    <2> HIDE DEF entries
    <2> QED BY <2>1, <2>2 DEF DirState
<1>3. dir' = [dir EXCEPT ![rid[p]] = made]
    BY DEF WriteSealed
<1> HIDE DEF made
<1>4. /\ dir'[rid[p]] = made
      /\ \A i \in RunIds : i # rid[p] => dir'[i] = dir[i]
    BY <1>1, <1>3 DEF ForensicInv, ForensicTypeOK
<1>5. /\ pc'[p] = to
      /\ \A q \in Procs : q # p => pc'[q] = pc[q]
    BY DEF Goto, ForensicInv, ForensicTypeOK
<1>6. ForensicTypeOK'
    <2>1. to \in RunPositions
        BY DEF Stages, RunPositions
    <2>2. pc' \in [Procs -> RunPositions]
        BY <2>1 DEF Goto, ForensicInv, ForensicTypeOK
    <2>3. dir' \in [RunIds -> DirState]
        BY <1>1, <1>2, <1>3 DEF ForensicInv, ForensicTypeOK
    <2> QED BY <2>2, <2>3 DEF ForensicInv, ForensicTypeOK
<1>7. pc[p] \in Stages
    BY DEF Filling
<1>8. LockHeld'
    BY <1>5, <1>7 DEF ForensicInv, LockHeld
<1>9. DirShape' /\ UnmixedBundle'
    BY <1>2, <1>4 DEF ForensicInv, DirShape, UnmixedBundle
<1>10. OwnFiles'
    BY <1>2, <1>4, <1>5, <1>7, OneHolder DEF ForensicInv, OwnFiles, Filling
<1>11. VictimsDoomed'
    BY DEF ForensicInv, VictimsDoomed
<1>12. SuccessSoFar'
    <2> SUFFICES ASSUME NEW q \in Procs, exit'[q] = 0, rid[q] \notin doomed,
                        pc'[q] \in {"harden", "retention", "remove", "done"}
                 PROVE  Verifies(rid[q])' /\ \A e \in dir'[rid[q]].entries : e[2] = q
        BY DEF SuccessSoFar
    <2>1. q # p
        BY <1>5 DEF Stages
    <2>2. Verifies(rid[q]) /\ \A e \in dir[rid[q]].entries : e[2] = q
        BY <1>5, <2>1 DEF ForensicInv, SuccessSoFar
    <2>3. rid[q] # rid[p]
        BY <2>1, <2>2, FillerApart
    <2>4. dir'[rid[q]] = dir[rid[q]]
        BY <1>4, <2>3 DEF ForensicInv, ForensicTypeOK
    <2> QED BY <2>2, <2>4 DEF Verifies, GroupsOf
<1> QED BY <1>6, <1>8, <1>9, <1>10, <1>11, <1>12 DEF ForensicInv

(* The steps that add sealed files and go on to the next stage. *)
LEMMA AdvanceInv ==
    ASSUME ForensicInv,
           NEW p \in Procs, NEW group \in Groups, NEW from \in Filling,
           NEW to \in Stages \ {"setup", "harden"},
           Advance(p, from, group, to)
    PROVE  ForensicInv'
<1>1. exit' \in [Procs -> {0, 1}] /\ \A q \in Procs : q # p => exit'[q] = exit[q]
    BY DEF Advance, ForensicInv, ForensicTypeOK
<1> QED BY <1>1, WriteInv DEF Advance, retentionVars

(* Every stage of run.py between mkdir and the verification, with the result
   of the pipeline and a workspace that may be missing. *)
LEMMA FillingInv ==
    \A p \in Procs :
        /\ ForensicInv
        /\ \/ WriteInputs(p) \/ ExecuteScenarios(p) \/ CollectRecords(p)
           \/ WriteOverview(p) \/ WriteBundleRoot(p)
        => ForensicInv'
<1> SUFFICES ASSUME NEW p \in Procs, ForensicInv,
                    \/ WriteInputs(p) \/ ExecuteScenarios(p) \/ CollectRecords(p)
                    \/ WriteOverview(p) \/ WriteBundleRoot(p)
             PROVE  ForensicInv'
    OBVIOUS
<1> USE DEF Stages, Groups
<1>1. CASE WriteInputs(p)
    <2>1. CASE Raise(p)
        BY <1>1, <2>1, RaiseInv DEF WriteInputs
    <2>2. CASE Advance(p, "inputs", "inputs", "execute")
        BY <2>2, AdvanceInv DEF Filling
    <2> QED BY <1>1, <2>1, <2>2 DEF WriteInputs
<1>2. CASE ExecuteScenarios(p)
    <2>1. exit' \in [Procs -> {0, 1}] /\ \A q \in Procs : q # p => exit'[q] = exit[q]
        BY <1>2 DEF ExecuteScenarios, ForensicInv, ForensicTypeOK
    <2> QED BY <1>2, <2>1, WriteInv DEF ExecuteScenarios, Filling, retentionVars
<1>3. CASE CollectRecords(p)
    <2>1. CASE WriteSealed(p, "records")
        <3>1. exit' \in [Procs -> {0, 1}] /\ \A q \in Procs : q # p => exit'[q] = exit[q]
            BY <1>3 DEF CollectRecords, ForensicInv, ForensicTypeOK
        <3> QED BY <1>3, <2>1, <3>1, WriteInv DEF CollectRecords, Filling, retentionVars
    <2>2. CASE UNCHANGED dir
        <3>1. /\ pc[p] = "records" /\ pc' = [pc EXCEPT ![p] = "overview"]
              /\ UNCHANGED <<clock, doomed, lock, rid, exit, victims, listing>>
            BY <1>3 DEF CollectRecords, Goto, retentionVars
        <3>2. ForensicTypeOK'
            BY <2>2, <3>1 DEF ForensicInv, ForensicTypeOK, RunPositions
        <3>3. pc'[p] = "overview" /\ \A q \in Procs : q # p => pc'[q] = pc[q]
            BY <3>1 DEF ForensicInv, ForensicTypeOK
        <3>4. DirShape' /\ UnmixedBundle' /\ VictimsDoomed'
            BY <2>2, <3>1, DiskKept
        <3>5. LockHeld' /\ OwnFiles' /\ SuccessSoFar'
            BY <2>2, <3>1, <3>3 DEF ForensicInv, LockHeld, OwnFiles, SuccessSoFar, Verifies,
                                    GroupsOf, Filling
        <3> QED BY <3>2, <3>4, <3>5 DEF ForensicInv
    <2> QED BY <1>3, <2>1, <2>2 DEF CollectRecords
<1>4. CASE WriteOverview(p)
    BY <1>4, AdvanceInv DEF WriteOverview, Filling
<1>5. CASE WriteBundleRoot(p)
    BY <1>5, AdvanceInv DEF WriteBundleRoot, Filling
<1> QED BY <1>1, <1>2, <1>3, <1>4, <1>5

(* Hardening keeps the files, and nobody fills a directory once the lock is
   released. *)
LEMMA HardenAndReleaseInv ==
    \A p \in Procs : ForensicInv /\ HardenAndRelease(p) => ForensicInv'
<1> SUFFICES ASSUME NEW p \in Procs, ForensicInv, HardenAndRelease(p) PROVE ForensicInv'
    OBVIOUS
<1>1. /\ pc[p] = "harden" /\ pc' = [pc EXCEPT ![p] = "retention"] /\ lock' = NoProc
      /\ UNCHANGED <<clock, doomed, rid, exit, victims, listing>>
    BY DEF HardenAndRelease, Goto, retentionVars
<1>2. rid[p] \in RunIds
    BY DEF ForensicInv, ForensicTypeOK
<1>3. /\ dir' \in [RunIds -> DirState]
      /\ \A i \in RunIds : /\ dir'[i].entries = dir[i].entries
                           /\ dir'[i].exists = dir[i].exists
                           /\ ~dir[i].exists => dir'[i].hard = dir[i].hard
    <2>1. CASE UNCHANGED dir
        BY <2>1 DEF ForensicInv, ForensicTypeOK
    <2>2. CASE /\ dir[rid[p]].exists
               /\ dir' = [dir EXCEPT ![rid[p]] = [dir[rid[p]] EXCEPT !.hard = TRUE]]
        <3> DEFINE hardened == [dir[rid[p]] EXCEPT !.hard = TRUE]
        <3>1. /\ hardened \in DirState
              /\ hardened.entries = dir[rid[p]].entries /\ hardened.exists = dir[rid[p]].exists
            BY <1>2 DEF ForensicInv, ForensicTypeOK, DirState
        <3>2. dir' = [dir EXCEPT ![rid[p]] = hardened]
            BY <2>2
        <3> HIDE DEF hardened
        <3>3. dir' \in [RunIds -> DirState]
            BY <1>2, <3>1, <3>2 DEF ForensicInv, ForensicTypeOK
        <3>4. \A i \in RunIds : dir'[i] = IF i = rid[p] THEN hardened ELSE dir[i]
            BY <1>2, <3>2 DEF ForensicInv, ForensicTypeOK
        <3> QED BY <2>2, <3>1, <3>3, <3>4
    <2> QED BY <2>1, <2>2 DEF HardenAndRelease
<1>4. ForensicTypeOK'
    BY <1>1, <1>3 DEF ForensicInv, ForensicTypeOK, RunPositions
<1>5. /\ pc'[p] = "retention"
      /\ \A q \in Procs : q # p => pc'[q] = pc[q] /\ pc'[q] \notin Stages
    BY <1>1, OneHolder DEF ForensicInv, ForensicTypeOK, Stages
<1>6. LockHeld' /\ OwnFiles'
    BY <1>5 DEF LockHeld, OwnFiles, Stages, Filling
<1>7. DirShape' /\ UnmixedBundle'
    BY <1>3 DEF ForensicInv, DirShape, UnmixedBundle
<1>8. VictimsDoomed'
    BY <1>1 DEF ForensicInv, VictimsDoomed
<1>9. SuccessSoFar'
    <2> SUFFICES ASSUME NEW q \in Procs, exit[q] = 0, rid[q] \notin doomed,
                        pc'[q] \in {"harden", "retention", "remove", "done"}
                 PROVE  Verifies(rid[q])' /\ \A e \in dir'[rid[q]].entries : e[2] = q
        BY <1>1 DEF SuccessSoFar
    <2>1. Verifies(rid[q]) /\ \A e \in dir[rid[q]].entries : e[2] = q
        BY <1>1, <1>5 DEF ForensicInv, SuccessSoFar
    <2>2. dir'[rid[q]].entries = dir[rid[q]].entries
        BY <1>3 DEF ForensicInv, ForensicTypeOK
    <2> QED BY <1>1, <2>1, <2>2 DEF Verifies, GroupsOf
<1> QED BY <1>4, <1>6, <1>7, <1>8, <1>9 DEF ForensicInv

------------------------------------------------------------------------------
(* Retention. *)

(* The first victim of a removal pass is a marked run directory. *)
LEMMA HeadDoomed ==
    ASSUME ForensicInv, NEW p \in Procs, victims[p] # <<>>
    PROVE  Head(victims[p]) \in RunIds /\ Head(victims[p]) \in doomed
<1>1. victims[p] \in Seq(RunIds)
    BY DEF ForensicInv, ForensicTypeOK
<1>2. Len(victims[p]) \in Nat \ {0}
    BY <1>1, EmptySeq
<1>3. Head(victims[p]) = victims[p][1] /\ 1 \in 1..Len(victims[p])
    BY <1>1, <1>2
<1>4. victims[p][1] \in doomed
    BY <1>3 DEF ForensicInv, VictimsDoomed
<1> QED BY <1>3, <1>4 DEF ForensicInv, ForensicTypeOK

(* A removal touches its first victim only: what run.py removes was marked,
   so a whole bundle that nobody marked is not disturbed, and the holder of
   the lock may lose files but never gains one of another run. *)
LEMMA RemovalInv ==
    ASSUME ForensicInv, NEW p \in Procs, pc[p] = "remove", victims[p] # <<>>,
           dir' \in [RunIds -> DirState],
           \A i \in RunIds : i # Head(victims[p]) => dir'[i] = dir[i],
           dir'[Head(victims[p])].entries \subseteq dir[Head(victims[p])].entries,
           dir'[Head(victims[p])].hard => dir[Head(victims[p])].hard,
           ~dir'[Head(victims[p])].exists =>
               dir'[Head(victims[p])].entries = {} /\ ~dir'[Head(victims[p])].hard,
           UNCHANGED <<clock, doomed, lock, pc, rid, exit>>
    PROVE  LockHeld' /\ DirShape' /\ OwnFiles' /\ UnmixedBundle' /\ SuccessSoFar'
<1>1. Head(victims[p]) \in RunIds /\ Head(victims[p]) \in doomed
    BY HeadDoomed
<1> DEFINE h == Head(victims[p])
<1> HIDE DEF h
<1>2. h \in RunIds /\ h \in doomed
    BY <1>1 DEF h
<1>3. /\ \A i \in RunIds : i # h => dir'[i] = dir[i]
      /\ dir'[h].entries \subseteq dir[h].entries
      /\ dir'[h].hard => dir[h].hard
      /\ ~dir'[h].exists => dir'[h].entries = {} /\ ~dir'[h].hard
    BY DEF h
<1>4. \A i \in RunIds : /\ dir'[i].entries \subseteq dir[i].entries
                        /\ dir'[i].hard => dir[i].hard
    BY <1>3
<1>5. LockHeld'
    BY DEF ForensicInv, LockHeld
<1>6. DirShape'
    BY <1>3 DEF ForensicInv, DirShape
<1>7. UnmixedBundle'
    BY <1>4 DEF ForensicInv, UnmixedBundle
<1>8. OwnFiles'
    BY <1>4 DEF ForensicInv, ForensicTypeOK, OwnFiles
<1>9. SuccessSoFar'
    <2> SUFFICES ASSUME NEW q \in Procs, exit[q] = 0, rid[q] \notin doomed,
                        pc[q] \in {"harden", "retention", "remove", "done"}
                 PROVE  Verifies(rid[q])' /\ \A e \in dir'[rid[q]].entries : e[2] = q
        BY DEF SuccessSoFar
    <2>1. Verifies(rid[q]) /\ \A e \in dir[rid[q]].entries : e[2] = q
        BY DEF ForensicInv, SuccessSoFar
    <2>2. dir'[rid[q]] = dir[rid[q]]
        BY <1>2, <1>3 DEF ForensicInv, ForensicTypeOK
    <2> QED BY <2>1, <2>2 DEF Verifies, GroupsOf
<1> QED BY <1>5, <1>6, <1>7, <1>8, <1>9

(* A retention pass marks what it selects before it removes anything. *)
LEMMA EnforceRetentionInv ==
    \A p \in Procs : ForensicInv /\ EnforceRetention(p) => ForensicInv'
<1> SUFFICES ASSUME NEW p \in Procs, ForensicInv, EnforceRetention(p) PROVE ForensicInv'
    OBVIOUS
<1>1. PICK chosen \in OldestFirst(Surplus) :
          /\ victims' = [victims EXCEPT ![p] = chosen]
          /\ listing' = [listing EXCEPT ![p] =
                           IF chosen = <<>> THEN {} ELSE GroupsOf(chosen[1])]
          /\ doomed' = doomed \cup {chosen[k] : k \in DOMAIN chosen}
    BY DEF EnforceRetention
<1>2. /\ pc[p] = "retention" /\ pc' = [pc EXCEPT ![p] = "remove"]
      /\ UNCHANGED <<clock, dir, lock, rid, exit>>
    BY DEF EnforceRetention, Goto
<1>3. chosen \in Seq(RunIds) /\ DOMAIN chosen = 1..Len(chosen)
    BY ChosenRuns
<1>4. \A k \in 1..Len(chosen) : chosen[k] \in RunIds /\ chosen[k] \in doomed'
    BY <1>1, <1>3, ElementOfSeq
<1>5. ForensicTypeOK'
    <2>1. pc' \in [Procs -> RunPositions]
        BY <1>2 DEF ForensicInv, ForensicTypeOK, RunPositions
    <2>2. victims' \in [Procs -> Seq(RunIds)]
        BY <1>1, <1>3 DEF ForensicInv, ForensicTypeOK
    <2>3. doomed' \subseteq RunIds
        BY <1>1, <1>3, <1>4 DEF ForensicInv, ForensicTypeOK
    <2>4. listing' \in [Procs -> SUBSET Groups]
        <3>1. CASE chosen = <<>>
            BY <1>1, <3>1 DEF ForensicInv, ForensicTypeOK
        <3>2. CASE chosen # <<>>
            <4>1. 1 \in 1..Len(chosen)
                BY <1>3, <3>2, EmptySeq
            <4>2. chosen[1] \in RunIds
                BY <1>4, <4>1
            <4>3. GroupsOf(chosen[1]) \in SUBSET Groups
                BY <4>2 DEF GroupsOf, ForensicInv, ForensicTypeOK, DirState
            <4> QED BY <1>1, <3>2, <4>3 DEF ForensicInv, ForensicTypeOK
        <3> QED BY <3>1, <3>2
    <2> QED BY <1>2, <2>1, <2>2, <2>3, <2>4 DEF ForensicInv, ForensicTypeOK
<1>6. pc'[p] = "remove" /\ \A q \in Procs : q # p => pc'[q] = pc[q]
    BY <1>2 DEF ForensicInv, ForensicTypeOK
<1>7. DirShape' /\ UnmixedBundle'
    BY <1>2 DEF ForensicInv, DirShape, UnmixedBundle
<1>8. LockHeld' /\ OwnFiles'
    BY <1>2, <1>6 DEF ForensicInv, LockHeld, OwnFiles, Stages, Filling
<1>9. VictimsDoomed'
    <2>1. victims'[p] = chosen /\ \A q \in Procs : q # p => victims'[q] = victims[q]
        BY <1>1 DEF ForensicInv, ForensicTypeOK
    <2>2. doomed \subseteq doomed'
        BY <1>1
    <2> QED BY <1>4, <2>1, <2>2 DEF ForensicInv, VictimsDoomed
<1>10. SuccessSoFar'
    <2>1. doomed \subseteq doomed'
        BY <1>1
    <2> QED BY <1>2, <1>6, <2>1 DEF ForensicInv, SuccessSoFar, Verifies, GroupsOf
<1> QED BY <1>5, <1>7, <1>8, <1>9, <1>10 DEF ForensicInv

(* rmtree unlinks files of its victim, and none when it is hardened. *)
LEMMA UnlinkInv == \A p \in Procs : ForensicInv /\ Unlink(p) => ForensicInv'
<1> SUFFICES ASSUME NEW p \in Procs, ForensicInv, Unlink(p) PROVE ForensicInv'
    OBVIOUS
<1>1. /\ pc[p] = "remove" /\ victims[p] # <<>>
      /\ UNCHANGED <<clock, doomed, lock, pc, rid, exit, victims>>
    BY DEF Unlink
<1> DEFINE h == Head(victims[p])
<1>2. h \in RunIds
    BY <1>1, HeadDoomed
<1>3. PICK g \in listing[p] :
          /\ listing' = [listing EXCEPT ![p] = @ \ {g}]
          /\ dir' = IF dir[h].hard THEN dir
                    ELSE [dir EXCEPT ![h] = [dir[h] EXCEPT !.entries = {e \in dir[h].entries : e[1] # g}]]
    BY DEF Unlink
<1> HIDE DEF h
<1>4. /\ dir' \in [RunIds -> DirState]
      /\ \A i \in RunIds : i # h => dir'[i] = dir[i]
      /\ dir'[h].entries \subseteq dir[h].entries
      /\ dir'[h].hard => dir[h].hard
      /\ ~dir'[h].exists => dir'[h].entries = {} /\ ~dir'[h].hard
    <2>1. CASE dir[h].hard
        BY <1>2, <1>3, <2>1 DEF ForensicInv, ForensicTypeOK, DirShape
    <2>2. CASE ~dir[h].hard
        <3> DEFINE rest == {e \in dir[h].entries : e[1] # g}
                   left == [dir[h] EXCEPT !.entries = rest]
        <3>1. rest \subseteq dir[h].entries
            OBVIOUS
        <3>2. dir' = [dir EXCEPT ![h] = left]
            BY <1>3, <2>2
        <3> HIDE DEF rest
        <3>3. /\ left \in DirState /\ left.entries = rest
              /\ left.exists = dir[h].exists /\ left.hard = dir[h].hard
            BY <1>2, <3>1 DEF ForensicInv, ForensicTypeOK, DirState
        <3> HIDE DEF left
        <3>4. dir' \in [RunIds -> DirState]
            BY <1>2, <3>2, <3>3 DEF ForensicInv, ForensicTypeOK
        <3>5. dir'[h] = left /\ \A i \in RunIds : i # h => dir'[i] = dir[i]
            BY <1>2, <3>2 DEF ForensicInv, ForensicTypeOK
        <3> QED BY <1>2, <3>1, <3>3, <3>4, <3>5 DEF ForensicInv, DirShape
    <2> QED BY <2>1, <2>2
<1>5. LockHeld' /\ DirShape' /\ OwnFiles' /\ UnmixedBundle' /\ SuccessSoFar'
    BY <1>1, <1>4, RemovalInv DEF h
<1>6. ForensicTypeOK'
    <2>1. listing' \in [Procs -> SUBSET Groups]
        BY <1>3 DEF ForensicInv, ForensicTypeOK
    <2> QED BY <1>1, <1>4, <2>1 DEF ForensicInv, ForensicTypeOK
<1>7. VictimsDoomed'
    BY <1>1 DEF ForensicInv, VictimsDoomed
<1> QED BY <1>5, <1>6, <1>7 DEF ForensicInv

(* rmdir removes an emptied directory and goes on to the next victim. *)
LEMMA RmdirInv == \A p \in Procs : ForensicInv /\ Rmdir(p) => ForensicInv'
<1> SUFFICES ASSUME NEW p \in Procs, ForensicInv, Rmdir(p) PROVE ForensicInv'
    OBVIOUS
<1> DEFINE h == Head(victims[p])
           rest == Tail(victims[p])
<1>1. /\ pc[p] = "remove" /\ victims[p] # <<>>
      /\ UNCHANGED <<clock, doomed, lock, pc, rid, exit>>
      /\ dir' = IF dir[h].entries = {} THEN [dir EXCEPT ![h] = NoDir] ELSE dir
      /\ victims' = [victims EXCEPT ![p] = rest]
      /\ listing' = [listing EXCEPT ![p] = IF rest = <<>> THEN {} ELSE GroupsOf(Head(rest))]
    BY DEF Rmdir
<1>2. h \in RunIds
    BY <1>1, HeadDoomed
<1>3. victims[p] \in Seq(RunIds)
    BY DEF ForensicInv, ForensicTypeOK
<1>4. /\ rest \in Seq(RunIds)
      /\ rest # <<>> => Head(rest) \in RunIds
    BY <1>1, <1>3, HeadTailProperties
<1>5. /\ Len(rest) = Len(victims[p]) - 1
      /\ \A k \in 1..Len(rest) : rest[k] = victims[p][k + 1]
    BY <1>1, <1>3, HeadTailProperties
<1> HIDE DEF h, rest
<1>6. /\ dir' \in [RunIds -> DirState]
      /\ \A i \in RunIds : i # h => dir'[i] = dir[i]
      /\ dir'[h].entries \subseteq dir[h].entries
      /\ dir'[h].hard => dir[h].hard
      /\ ~dir'[h].exists => dir'[h].entries = {} /\ ~dir'[h].hard
    <2>1. NoDir \in DirState /\ ~NoDir.exists /\ ~NoDir.hard /\ NoDir.entries = {}
        BY DEF NoDir, DirState
    <2>2. CASE dir[h].entries = {}
        BY <1>1, <1>2, <2>1, <2>2 DEF ForensicInv, ForensicTypeOK
    <2>3. CASE dir[h].entries # {}
        BY <1>1, <1>2, <2>3 DEF ForensicInv, ForensicTypeOK, DirShape
    <2> QED BY <2>2, <2>3
<1>7. LockHeld' /\ DirShape' /\ OwnFiles' /\ UnmixedBundle' /\ SuccessSoFar'
    BY <1>1, <1>6, RemovalInv DEF h
<1>8. ForensicTypeOK'
    <2>1. victims' \in [Procs -> Seq(RunIds)]
        BY <1>1, <1>4 DEF ForensicInv, ForensicTypeOK
    <2>2. listing' \in [Procs -> SUBSET Groups]
        <3>1. rest # <<>> => GroupsOf(Head(rest)) \in SUBSET Groups
            BY <1>4 DEF GroupsOf, ForensicInv, ForensicTypeOK, DirState
        <3> QED BY <1>1, <3>1 DEF ForensicInv, ForensicTypeOK
    <2> QED BY <1>1, <1>6, <2>1, <2>2 DEF ForensicInv, ForensicTypeOK
<1>9. VictimsDoomed'
    <2>1. victims'[p] = rest /\ \A q \in Procs : q # p => victims'[q] = victims[q]
        BY <1>1 DEF ForensicInv, ForensicTypeOK
    <2>2. \A k \in 1..Len(rest) : rest[k] \in doomed
        <3>1. Len(victims[p]) \in Nat
            BY <1>3, LenProperties
        <3>2. \A k \in 1..Len(rest) : k + 1 \in 1..Len(victims[p])
            BY <1>5, <3>1
        <3> QED BY <1>5, <3>2 DEF ForensicInv, VictimsDoomed
    <2> QED BY <1>1, <2>1, <2>2 DEF ForensicInv, VictimsDoomed
<1> QED BY <1>7, <1>8, <1>9 DEF ForensicInv

------------------------------------------------------------------------------
(* ForensicInv holds in every reachable state: with any number of concurrent
   forensic runs and retention passes, of any interleaving, crashes included. *)
THEOREM ForensicInvariant == RunSpec => []ForensicInv
<1>1. RunInit => ForensicInv
    BY InitInv
<1>2. ForensicInv /\ [RunNext]_runVars => ForensicInv'
    <2> SUFFICES ASSUME ForensicInv, [RunNext]_runVars PROVE ForensicInv'
        OBVIOUS
    <2>1. CASE Tick
        BY <2>1, TickInv
    <2>2. CASE \E p \in Procs : Start(p) \/ Step(p) \/ Interrupt(p)
        <3>1. PICK p \in Procs : Start(p) \/ Step(p) \/ Interrupt(p)
            BY <2>2
        <3>2. CASE Start(p)
            BY <3>2, StartInv
        <3>3. CASE Interrupt(p)
            BY <3>3, RaiseInv DEF Interrupt
        <3>4. CASE Preflight(p) \/ AcquireLock(p) \/ Verify(p) \/ Finish(p)
            BY <3>4, PreflightInv, AcquireLockInv, VerifyInv, FinishInv
        <3>5. CASE \/ Setup(p) \/ WriteInputs(p) \/ ExecuteScenarios(p) \/ CollectRecords(p)
                   \/ WriteOverview(p) \/ WriteBundleRoot(p) \/ HardenAndRelease(p)
            BY <3>5, SetupInv, FillingInv, HardenAndReleaseInv
        <3>6. CASE EnforceRetention(p) \/ Unlink(p) \/ Rmdir(p)
            BY <3>6, EnforceRetentionInv, UnlinkInv, RmdirInv
        <3> QED BY <3>1, <3>2, <3>3, <3>4, <3>5, <3>6 DEF Step
    <2>3. CASE UNCHANGED runVars
        <3> USE <2>3 DEF runVars
        <3>1. ForensicTypeOK' /\ LockHeld' /\ OwnFiles' /\ SuccessSoFar'
            BY DEF ForensicInv, ForensicTypeOK, LockHeld, OwnFiles, SuccessSoFar, Verifies, GroupsOf
        <3>2. DirShape' /\ UnmixedBundle' /\ VictimsDoomed'
            BY DiskKept
        <3> QED BY <3>1, <3>2 DEF ForensicInv
    <2> QED BY <2>1, <2>2, <2>3 DEF RunNext
<1> QED BY <1>1, <1>2, PTL DEF RunSpec

(* A run directory of the forensic runner never holds files of two runs, even
   when several processes take the same second as their run id. *)
THEOREM BundlesUnmixed == RunSpec => []UnmixedBundle
<1>1. ForensicInv => UnmixedBundle
    BY DEF ForensicInv
<1> QED BY <1>1, ForensicInvariant, PTL

(* A forensic run that exits with 0 and that no retention pass selected left a
   complete bundle of its own. *)
THEOREM SuccessWhole == RunSpec => []SuccessIsWhole
<1>1. ForensicInv => SuccessIsWhole
    BY DEF ForensicInv, SuccessSoFar, SuccessIsWhole
<1> QED BY <1>1, ForensicInvariant, PTL

(* What a hardened run directory holds never changes, whatever later runs and
   retention passes do. *)
THEOREM HardenedUntouched == RunSpec => HardenedStands
<1> DEFINE Stands == \A i \in RunIds : dir[i].hard /\ dir[i].entries # {} => dir'[i] = dir[i]
<1>1. ForensicInv /\ [RunNext]_runVars => [Stands]_runVars
    <2> SUFFICES ASSUME ForensicInv, [RunNext]_runVars,
                        NEW i \in RunIds, dir[i].hard, dir[i].entries # {}
                 PROVE  dir'[i] = dir[i]
        OBVIOUS
    <2>1. dir[i] \in DirState /\ dir[i].exists
        BY DEF ForensicInv, ForensicTypeOK, DirShape
    <2>2. CASE UNCHANGED dir
        BY <2>2
    <2>3. CASE ~UNCHANGED dir
        <3>1. PICK p \in Procs : Start(p) \/ Step(p) \/ Interrupt(p)
            BY <2>3 DEF RunNext, Tick, runVars
        <3>2. CASE Setup(p)
            BY <2>1, <3>2 DEF Setup, Raise, ForensicInv, ForensicTypeOK
        <3>3. CASE WriteInputs(p) \/ ExecuteScenarios(p) \/ CollectRecords(p) \/ WriteOverview(p)
                   \/ WriteBundleRoot(p)
            <4>1. pc[p] \in Filling
                BY <3>3 DEF WriteInputs, ExecuteScenarios, CollectRecords, WriteOverview, WriteBundleRoot,
                            Advance, Filling, Stages
            <4>2. i # rid[p]
                BY <4>1 DEF ForensicInv, OwnFiles
            <4>3. \E g \in Groups : WriteSealed(p, g)
                BY <2>3, <3>3 DEF WriteInputs, ExecuteScenarios, CollectRecords, WriteOverview,
                                  WriteBundleRoot, Advance, Raise, Groups
            <4> QED BY <4>2, <4>3 DEF WriteSealed, ForensicInv, ForensicTypeOK
        <3>4. CASE HardenAndRelease(p)
            <4>1. i # rid[p]
                BY <3>4 DEF HardenAndRelease, Filling, Stages, ForensicInv, OwnFiles
            <4> QED BY <2>3, <3>4, <4>1 DEF HardenAndRelease, ForensicInv, ForensicTypeOK
        <3>5. CASE Unlink(p)
            BY <3>5 DEF Unlink, ForensicInv, ForensicTypeOK
        <3>6. CASE Rmdir(p)
            BY <3>6 DEF Rmdir, ForensicInv, ForensicTypeOK
        <3> QED BY <2>3, <3>1, <3>2, <3>3, <3>4, <3>5, <3>6
               DEF Step, Start, Interrupt, Raise, Preflight, AcquireLock, Verify,
                   EnforceRetention, Finish, diskVars
    <2> QED BY <2>2, <2>3
<1>2. [][Stands]_runVars => HardenedStands
    BY PTL DEF HardenedStands
<1> QED BY <1>1, <1>2, ForensicInvariant, PTL DEF RunSpec

------------------------------------------------------------------------------
(* Bundle verification. *)

FileType == [content : {"original", "edited"}, recorded : {"original", "edited"}]
EntryType == [file : FileType, known : BOOLEAN]
EventType == [type : {"granted", "executed", "revoked"}, scenario : Scenarios, id : Ids]

(* The exported protocol part: the adjustments are the consumptions. *)
ProtocolOK(x) ==
    /\ DOMAIN x = {"witness", "witnessHash", "hashes", "events"}
    /\ x.events \in Seq(EventType)
    /\ DOMAIN x.witness = {"record", "consumed", "adjustments"}
    /\ x.witness.adjustments = x.witness.consumed

(* A sealed bundle, damaged or not. *)
BundleOK(b) ==
    /\ DOMAIN b = {"present", "root", "rootParses", "signature", "overview", "preflight",
                   "resultsParse", "claims", "attestations", "anchor", "inventory", "ref",
                   "descriptor", "protocol"}
    /\ b.signature \in {"original", "unsigned"}
    /\ b.root \in FileType
    /\ b.claims \in Seq(EntryType) /\ b.attestations \in Seq(EntryType)
    /\ ProtocolOK(b.protocol)

(* The inductive invariant. *)
BundleInv ==
    /\ events \in Seq(EventType)
    /\ phase # "history" => BundleOK(bundle)
    /\ AcceptedEvidenceIsSound
    /\ AcceptedIsIntact

-----------------------------------------------------------------------------
(* What a passed check says.                                                 *)

(* VerifyReport.aggregate: one failed check of severity required is enough. *)
LEMMA NoneFailed ==
  ASSUME NEW checks, Aggregate(checks) \in {"pass", "pass-with-warnings"}
  PROVE  Check("fail", "required") \notin checks
BY DEF Aggregate

(* Every group of checks is part of the report. *)
LEMMA ChecksMade ==
  ASSUME NEW b, NEW o, NEW c,
         Aggregate(VerifyRun(b, o, c)) \in {"pass", "pass-with-warnings"}
  PROVE  LET failed == Check("fail", "required")
         IN /\ failed \notin CheckExists(b) /\ failed \notin CheckDirExists(b)
            /\ failed # CheckBundleRootValid(b) /\ failed # CheckBundleSignature(b, o)
            /\ failed # CheckAnchorContent(b)
            /\ failed \notin CheckClaimsContent(b) /\ failed \notin CheckAttestationsContent(b)
            /\ failed \notin CheckProtocolSemantics(b, o)
<1> DEFINE all == VerifyRun(b, o, c)
<1>1. Check("fail", "required") \notin all
  BY NoneFailed
<1> QED
  BY <1>1, Zenon DEF VerifyRun

(* The required files and directories are there. *)
LEMMA AllPresent ==
  ASSUME NEW b, Check("fail", "required") \notin CheckExists(b),
         Check("fail", "required") \notin CheckDirExists(b)
  PROVE  RequiredFiles \cup RequiredDirs \subseteq b.present
<1>1. \A f \in RequiredFiles : Has(b, f)
  BY DEF CheckExists, RequiredCheck
<1>2. \A d \in RequiredDirs : Has(b, d)
  BY DEF CheckDirExists, RequiredCheck
<1> QED
  BY <1>1, <1>2 DEF Has

(* Every claim has the content its hash records. *)
LEMMA ClaimsIntact ==
  ASSUME NEW b, b.claims \in Seq(EntryType), Check("fail", "required") \notin CheckClaimsContent(b)
  PROVE  /\ b.claims # <<>>
         /\ \A k \in DOMAIN b.claims : b.claims[k].file = Sealed(b.claims[k].file.content)
<1> DEFINE checks == {CheckClaimFile(b.claims[k]) : k \in DOMAIN b.claims}
<1>1. checks # {} /\ CheckClaimsContent(b) = checks
  BY DEF CheckClaimsContent, CheckContent
<1>2. b.claims # <<>>
  BY <1>1
<1>3. ASSUME NEW k \in DOMAIN b.claims
      PROVE  b.claims[k].file = Sealed(b.claims[k].file.content)
  <2> DEFINE f == b.claims[k].file
  <2>1. f \in FileType
    <3>1. b.claims[k] \in EntryType
      BY ElementOfSeq
    <3> QED
      BY <3>1 DEF EntryType
  <2>2. CheckClaimFile(b.claims[k]) # Check("fail", "required")
    BY <1>1
  <2>3. f.recorded = f.content
    BY <2>2 DEF CheckClaimFile
  <2> HIDE DEF f
  <2> QED
    BY <2>1, <2>3 DEF FileType, Sealed, f
<1> QED
  BY <1>2, <1>3

(* Every attestation is intact, or its unexpected result is a warning. *)
LEMMA AttestationsIntact ==
  ASSUME NEW b, b.attestations \in Seq(EntryType),
         Check("fail", "required") \notin CheckAttestationsContent(b)
  PROVE  /\ b.attestations # <<>>
         /\ \A k \in DOMAIN b.attestations :
              \/ b.attestations[k].file = Sealed(b.attestations[k].file.content)
              \/ Check("warning", "warning") \in CheckAttestationsContent(b)
<1> DEFINE checks == {CheckAttestationFile(b.attestations[k]) : k \in DOMAIN b.attestations}
<1>1. checks # {} /\ CheckAttestationsContent(b) = checks
  BY DEF CheckAttestationsContent, CheckContent
<1>2. b.attestations # <<>>
  BY <1>1
<1>3. ASSUME NEW k \in DOMAIN b.attestations, Check("warning", "warning") \notin checks
      PROVE  b.attestations[k].file = Sealed(b.attestations[k].file.content)
  <2> DEFINE f == b.attestations[k].file
  <2>1. f \in FileType
    <3>1. b.attestations[k] \in EntryType
      BY ElementOfSeq
    <3> QED
      BY <3>1 DEF EntryType
  <2>2. /\ CheckAttestationFile(b.attestations[k]) # Check("fail", "required")
        /\ CheckAttestationFile(b.attestations[k]) # Check("warning", "warning")
    BY <1>1, <1>3
  <2>3. f.recorded = f.content
    BY <2>2 DEF CheckAttestationFile, RequiredCheck
  <2> HIDE DEF f
  <2> QED
    BY <2>1, <2>3 DEF FileType, Sealed, f
<1> QED
  BY <1>1, <1>2, <1>3

(* A timestamp that was asked for, and a signature that was checked. *)
LEMMA AnchoredAndSigned ==
  ASSUME NEW b, NEW o, BundleOK(b), RequiredFiles \cup RequiredDirs \subseteq b.present,
         Check("fail", "required") # CheckBundleRootValid(b),
         Check("fail", "required") # CheckAnchorContent(b),
         Check("fail", "required") # CheckBundleSignature(b, o)
  PROVE  /\ b.anchor = "rfc3161" /\ Has(b, "anchor-cursor") => Has(b, "registry.tsr")
         /\ b.signature # "unsigned" /\ o.key # "none" =>
               o.key = "right" /\ b.root.recorded = "original"
<1>1. Has(b, "anchors")
  BY DEF Has, RequiredDirs
<1>2. ReadableRoot(b)
  BY DEF CheckBundleRootValid, RequiredCheck
<1>3. b.anchor = "rfc3161" /\ Has(b, "anchor-cursor") => Has(b, "registry.tsr")
  BY <1>1 DEF CheckAnchorContent
<1>4. ASSUME b.signature # "unsigned", o.key # "none"
      PROVE  o.key = "right" /\ b.root.recorded = "original"
  <2>1. NativeOrFallback(b, o)
    BY <1>2, <1>4 DEF CheckBundleSignature
  <2> QED
    BY <1>4, <2>1 DEF NativeOrFallback, VerifyEd25519Native, BundleOK
<1> QED
  BY <1>3, <1>4

(* What is accepted is intact. *)
LEMMA PassedIsIntact ==
  ASSUME NEW b, NEW o, NEW c, BundleOK(b),
         Aggregate(VerifyRun(b, o, c)) \in {"pass", "pass-with-warnings"}
  PROVE  /\ RequiredFiles \cup RequiredDirs \subseteq b.present
         /\ b.claims # <<>> /\ b.attestations # <<>>
         /\ \A k \in DOMAIN b.claims : b.claims[k].file = Sealed(b.claims[k].file.content)
         /\ \A k \in DOMAIN b.attestations :
              \/ b.attestations[k].file = Sealed(b.attestations[k].file.content)
              \/ Aggregate(VerifyRun(b, o, c)) = "pass-with-warnings"
         /\ b.anchor = "rfc3161" /\ Has(b, "anchor-cursor") => Has(b, "registry.tsr")
         /\ b.signature # "unsigned" /\ o.key # "none" =>
               o.key = "right" /\ b.root.recorded = "original"
<1>1. RequiredFiles \cup RequiredDirs \subseteq b.present
  BY ChecksMade, AllPresent
<1>2. /\ b.claims # <<>>
      /\ \A k \in DOMAIN b.claims : b.claims[k].file = Sealed(b.claims[k].file.content)
  BY ChecksMade, ClaimsIntact DEF BundleOK
<1>3. /\ b.attestations # <<>>
      /\ \A k \in DOMAIN b.attestations :
           \/ b.attestations[k].file = Sealed(b.attestations[k].file.content)
           \/ Check("warning", "warning") \in CheckAttestationsContent(b)
  BY ChecksMade, AttestationsIntact DEF BundleOK
<1>4. Check("warning", "warning") \in CheckAttestationsContent(b) =>
        Aggregate(VerifyRun(b, o, c)) = "pass-with-warnings"
  <2> SUFFICES ASSUME Check("warning", "warning") \in CheckAttestationsContent(b)
               PROVE  Aggregate(VerifyRun(b, o, c)) = "pass-with-warnings"
    OBVIOUS
  <2>1. Check("warning", "warning") \in VerifyRun(b, o, c)
    BY Zenon DEF VerifyRun
  <2>2. Check("warning", "warning").status = "warning"
    BY DEF Check
  <2>3. Check("fail", "required") \notin VerifyRun(b, o, c)
    BY NoneFailed
  <2> QED
    BY <2>1, <2>2, <2>3 DEF Aggregate
<1>5. /\ b.anchor = "rfc3161" /\ Has(b, "anchor-cursor") => Has(b, "registry.tsr")
      /\ b.signature # "unsigned" /\ o.key # "none" =>
            o.key = "right" /\ b.root.recorded = "original"
  BY <1>1, ChecksMade, AnchoredAndSigned
<1> QED
  BY <1>1, <1>2, <1>3, <1>4, <1>5

-----------------------------------------------------------------------------
(* Force-authorisation evidence.                                             *)

(* An accepted bundle of the Sew protocol passed all of its checks. *)
LEMMA SewChecked ==
  ASSUME NEW b, NEW o, NEW c, b.descriptor = "sew",
         Aggregate(VerifyRun(b, o, c)) \in {"pass", "pass-with-warnings"}
  PROVE  SewFailures(b.protocol) = {}
<1>1. ReadableRoot(b)
  BY ChecksMade DEF CheckBundleRootValid, RequiredCheck
<1>2. Has(b, "run-bundle-root") /\ b.rootParses
  BY <1>1 DEF ReadableRoot
<1> DEFINE status == ValidateProtocolBundle(b.descriptor, b.protocol)
<1>3. status = SewStatus(b.protocol)
  BY DEF ValidateProtocolBundle
<1>4. status \notin {"fail", "error"}
  <2> HIDE DEF status
  <2>1. SUFFICES ASSUME status \in {"fail", "error"} PROVE FALSE
    OBVIOUS
  <2>2. Check("fail", "required") \in CheckProtocolSemantics(b, o)
    BY <1>2, <2>1 DEF CheckProtocolSemantics, status
  <2> QED
    BY <2>2, ChecksMade
<1> QED
  BY <1>3, <1>4 DEF SewStatus

(* A finite set counted as no more than one has at most one element, and one
   counted as one has exactly one. *)
LEMMA AtMostOne ==
  ASSUME NEW S, IsFiniteSet(S), ~(Cardinality(S) > 1), NEW a \in S, NEW b \in S
  PROVE  a = b
<1> SUFFICES ASSUME a # b PROVE FALSE
  OBVIOUS
<1>1. IsFiniteSet({a}) /\ Cardinality({a}) = 1
  BY FS_Singleton
<1>2. Cardinality({a} \cup {b}) = 2
  <2>1. Cardinality({a} \cup {b}) = IF b \in {a} THEN Cardinality({a}) ELSE Cardinality({a}) + 1
    BY <1>1, FS_AddElement
  <2> QED
    BY <1>1, <2>1
<1>3. Cardinality({a} \cup {b}) <= Cardinality(S) /\ Cardinality(S) \in Nat
  <2>1. {a} \cup {b} \in SUBSET S
    OBVIOUS
  <2> QED
    BY <2>1, FS_Subset, FS_CardinalityType
<1> QED
  BY <1>2, <1>3

(* The latest of finitely many events. *)
LEMMA LatestIn ==
  ASSUME NEW n \in Nat, NEW S \in SUBSET (1..n), S # {}
  PROVE  Latest(S) \in S /\ \A k \in S : k <= Latest(S)
<1> DEFINE T == {n - k : k \in S}
           R == {ss \in Nat \X Nat : ss[1] < ss[2]}
<1>1. T \subseteq Nat /\ T # {}
  <2>1. \A k \in S : n - k \in Nat
    OBVIOUS
  <2> QED
    BY <2>1
<1>2. IsWellFoundedOn(R, Nat)
  BY NatLessThanWellFounded DEF OpToRel
<1>3. PICK x \in T : \A y \in T : ~(<<y, x>> \in R)
  <2> HIDE DEF R, T
  <2> QED
    BY <1>1, <1>2, WFMin
<1>4. \A x1, y1 \in Nat : y1 < x1 => <<y1, x1>> \in R
  OBVIOUS
<1>5. PICK m \in S : x = n - m
  BY <1>3
<1>6. ASSUME NEW k \in S PROVE k <= m
  <2>1. n - k \in T /\ n - k \in Nat /\ n - m \in Nat
    OBVIOUS
  <2>2. ~(n - k < n - m)
    <3> HIDE DEF R, T
    <3> QED
      BY <1>3, <1>4, <1>5, <2>1
  <2>3. k \in Nat /\ m \in Nat
    OBVIOUS
  <2> QED
    BY <2>2, <2>3
<1> QED
  BY <1>6 DEF Latest

(* validate_evidence_lifecycle, validate_evidence_against_protocol_state and
   validate_protocol_state together: each executed authorisation was granted
   before, executed once, never revoked, and consumed by one adjustment. *)
LEMMA PassedIsSound ==
  ASSUME NEW x, ProtocolOK(x), SewFailures(x) = {}
  PROVE  SoundEvidence(x)
<1> DEFINE w == x.witness
           n == Len(x.events)
<1>1. /\ ProtocolStateFailures(x) = {} /\ LifecycleFailures(x) = {}
      /\ EvidenceStateFailures(x) = {}
  BY DEF SewFailures
<1>2. n \in Nat /\ DOMAIN x.events = 1..n /\ \A k \in 1..n : x.events[k] \in EventType
  <2>1. x.events \in Seq(EventType)
    BY DEF ProtocolOK
  <2>2. n \in Nat /\ DOMAIN x.events = 1..n
    BY <2>1
  <2> QED
    BY <2>1, <2>2, ElementOfSeq
<1> HIDE DEF n
<1>3. SUFFICES ASSUME NEW k \in 1..n, x.events[k].type = "executed"
               PROVE  LET i == x.events[k].id
                      IN /\ \E j \in 1..(k - 1) : x.events[j] = Event("granted", x.events[j].scenario, i)
                         /\ \A j \in DOMAIN x.events :
                              x.events[j].id = i /\ x.events[j].type \in {"executed", "revoked"} => j = k
                         /\ \E s \in Scenarios, c \in Claims :
                              /\ w.record[s][i].status = "consumed"
                              /\ {a \in Scenarios \X Claims : <<a[1], i, a[2]>> \in w.adjustments}
                                   = {<<s, c>>}
  BY <1>2 DEF SoundEvidence
<1> DEFINE i == x.events[k].id
           grants == Positions(x, "granted", i)
           runs == Positions(x, "executed", i)
           matches == {s \in Scenarios : w.record[s][i].status # "none"}
<1>4. i \in Ids
  BY <1>2, <1>3 DEF EventType
<1>5. k \in runs /\ runs \subseteq 1..n /\ grants \subseteq 1..n
  BY <1>2, <1>3 DEF Positions
<1>6. /\ grants # {} /\ ~(Cardinality(runs) > 1) /\ ~(Latest(runs) < Latest(grants))
  BY <1>1, <1>4, <1>5 DEF LifecycleFailures
<1>7. \A j \in runs : j = k
  <2>1. IsFiniteSet(1..n)
    BY <1>2, FS_Interval
  <2>2. IsFiniteSet(runs)
    BY <1>5, <2>1, FS_Subset
  <2> HIDE DEF runs
  <2> QED
    BY <1>5, <1>6, <2>2, AtMostOne
<1>8. \E j \in 1..(k - 1) : x.events[j] = Event("granted", x.events[j].scenario, i)
  <2> DEFINE g == Latest(grants)
  <2>1. g \in grants /\ Latest(runs) \in runs
    <3> HIDE DEF grants, runs
    <3> QED
      BY <1>2, <1>5, <1>6, LatestIn
  <2>2. Latest(runs) = k
    BY <1>7, <2>1
  <2>3. g \in 1..n /\ x.events[g].type = "granted" /\ x.events[g].id = i
    BY <1>5, <2>1 DEF Positions
  <2> HIDE DEF g, grants, runs, i
  <2>4. g # k /\ ~(k < g)
    BY <1>3, <1>6, <2>2, <2>3 DEF g
  <2>5. g \in 1..(k - 1)
    BY <1>2, <2>3, <2>4
  <2>6. x.events[g] = Event("granted", x.events[g].scenario, i)
    <3>1. x.events[g] \in EventType
      BY <1>2, <2>3
    <3> QED
      BY <2>3, <3>1 DEF EventType, Event
  <2> QED
    BY <2>5, <2>6
<1>9. ASSUME NEW j \in 1..n, x.events[j].id = i
      PROVE  ~EventMismatches(w, x.events[j])
  BY <1>1, <1>2, <1>9 DEF EvidenceStateFailures
<1>10. PICK s \in Scenarios : matches = {s}
  <2>1. Cardinality(matches) = 1
    BY <1>3, <1>9 DEF EventMismatches
  <2>2. IsFiniteSet(matches) /\ matches \subseteq Scenarios
    BY ForceAuthAssumption, FS_Subset
  <2> HIDE DEF matches
  <2>3. \E s : matches = {s}
    BY <2>1, <2>2, FS_Singleton
  <2> QED
    BY <2>2, <2>3
<1>11. w.record[s][i].status = "consumed" /\ HasEntry(w, s, i)
  <2>1. ~EventMismatches(w, x.events[k]) /\ s \in matches
    BY <1>3, <1>9, <1>10
  <2> QED
    BY <1>3, <2>1 DEF EventMismatches
<1>12. \A j \in 1..n : x.events[j].id = i /\ x.events[j].type = "revoked" => FALSE
  <2> SUFFICES ASSUME NEW j \in 1..n, x.events[j].id = i, x.events[j].type = "revoked" PROVE FALSE
    OBVIOUS
  <2>1. ~EventMismatches(w, x.events[j]) /\ s \in matches
    BY <1>9, <1>10
  <2>2. w.record[s][i].status = "revoked"
    BY <2>1 DEF EventMismatches
  <2> QED
    BY <1>11, <2>2
<1>13. \A j \in DOMAIN x.events :
          x.events[j].id = i /\ x.events[j].type \in {"executed", "revoked"} => j = k
  BY <1>2, <1>7, <1>12 DEF Positions
<1>14. \A t \in Scenarios : ~RecordViolates(w, t, i) /\ ~OrphanConsumption(w, t, i)
  BY <1>1, <1>4 DEF ProtocolStateFailures
<1>15. PICK c \in Claims : Linked(w, s, i) = {c}
  <2>1. Cardinality(Linked(w, s, i)) = 1
    BY <1>11, <1>14 DEF RecordViolates
  <2>2. IsFiniteSet(Linked(w, s, i)) /\ Linked(w, s, i) \subseteq Claims
    BY ForceAuthAssumption, FS_Subset DEF Linked
  <2>3. \E c : Linked(w, s, i) = {c}
    BY <2>1, <2>2, FS_Singleton
  <2> QED
    BY <2>2, <2>3
<1>16. ASSUME NEW t \in Scenarios, NEW d \in Claims
       PROVE  <<t, i, d>> \in w.adjustments <=> t = s /\ d = c
  <2>1. ASSUME <<t, i, d>> \in w.adjustments PROVE t = s
    <3>1. HasEntry(w, t, i)
      BY <2>1 DEF HasEntry, ProtocolOK
    <3>2. w.record[t][i].status = "consumed"
      BY <1>14, <3>1 DEF OrphanConsumption
    <3>3. t \in matches
      BY <3>2
    <3> HIDE DEF matches
    <3> QED
      BY <1>10, <3>3
  <2>2. <<s, i, d>> \in w.adjustments <=> d = c
    BY <1>15 DEF Linked
  <2> QED
    BY <2>1, <2>2
<1>17. {a \in Scenarios \X Claims : <<a[1], i, a[2]>> \in w.adjustments} = {<<s, c>>}
  <2> HIDE DEF i, w
  <2>1. \A a \in Scenarios \X Claims :
           /\ a[1] \in Scenarios /\ a[2] \in Claims
           /\ a = <<s, c>> <=> a[1] = s /\ a[2] = c
    OBVIOUS
  <2>2. <<s, c>> \in Scenarios \X Claims
    OBVIOUS
  <2> QED
    BY <1>16, <2>1, <2>2
<1> QED
  BY <1>8, <1>11, <1>13, <1>17

-----------------------------------------------------------------------------
(* The invariant.                                                            *)

(* What run.py seals has the shape the checks rely on. *)
LEMMA SealShape ==
  ASSUME BundleInv, Seal
  PROVE  BundleOK(bundle')
<1>1. PICK ref \in Refs, signed \in BOOLEAN, tsa \in BOOLEAN, descriptor \in Descriptors :
         bundle' = SealBundle(ref, signed, tsa, descriptor)
  BY DEF Seal
<1> DEFINE file == Sealed("original")
           entry == [file |-> file, known |-> TRUE]
           x == Export
<1>2. file \in FileType
  BY DEF Sealed, FileType
<1>3. <<entry>> \in Seq(EntryType)
  <2>1. entry \in EntryType
    BY <1>2 DEF EntryType
  <2> HIDE DEF entry
  <2> QED
    BY <2>1
<1>4. ProtocolOK(x)
  <2>1. events \in Seq(EventType)
    BY DEF BundleInv
  <2>2. /\ DOMAIN x = {"witness", "witnessHash", "hashes", "events"}
        /\ x.events = events /\ x.witness = Witness
    BY DEF Export
  <2>3. /\ DOMAIN Witness = {"record", "consumed", "adjustments"}
        /\ Witness.adjustments = Witness.consumed
    BY DEF Witness
  <2> HIDE DEF x
  <2> QED
    BY <2>1, <2>2, <2>3 DEF ProtocolOK
<1>5. SignBundleHash(signed) \in {"original", "unsigned"}
  BY DEF SignBundleHash
<1>6. /\ DOMAIN bundle' = {"present", "root", "rootParses", "signature", "overview", "preflight",
                           "resultsParse", "claims", "attestations", "anchor", "inventory", "ref",
                           "descriptor", "protocol"}
      /\ bundle'.root = file /\ bundle'.signature = SignBundleHash(signed)
      /\ bundle'.claims = <<entry>> /\ bundle'.attestations = <<entry>>
      /\ bundle'.protocol = x
  BY <1>1 DEF SealBundle
<1> HIDE DEF file, entry, x
<1> QED
  BY <1>2, <1>3, <1>4, <1>5, <1>6 DEF BundleOK

(* Replacing one part of a bundle by another of its kind keeps its shape. *)
LEMMA Reshaped ==
  ASSUME NEW b, BundleOK(b), NEW v
  PROVE  /\ BundleOK([b EXCEPT !.present = v]) /\ BundleOK([b EXCEPT !.rootParses = v])
         /\ BundleOK([b EXCEPT !.overview = v]) /\ BundleOK([b EXCEPT !.preflight = v])
         /\ BundleOK([b EXCEPT !.resultsParse = v])
         /\ v \in FileType => BundleOK([b EXCEPT !.root = v])
         /\ v \in Seq(EntryType) => BundleOK([b EXCEPT !.claims = v])
         /\ v \in Seq(EntryType) => BundleOK([b EXCEPT !.attestations = v])
         /\ ProtocolOK(v) => BundleOK([b EXCEPT !.protocol = v])
<1>1. BundleOK([b EXCEPT !.present = v])
  BY DEF BundleOK
<1>2. BundleOK([b EXCEPT !.rootParses = v])
  BY DEF BundleOK
<1>3. BundleOK([b EXCEPT !.overview = v])
  BY DEF BundleOK
<1>4. BundleOK([b EXCEPT !.preflight = v])
  BY DEF BundleOK
<1>5. BundleOK([b EXCEPT !.resultsParse = v])
  BY DEF BundleOK
<1>6. v \in FileType => BundleOK([b EXCEPT !.root = v])
  BY DEF BundleOK
<1>7. v \in Seq(EntryType) => BundleOK([b EXCEPT !.claims = v])
  BY DEF BundleOK
<1>8. v \in Seq(EntryType) => BundleOK([b EXCEPT !.attestations = v])
  BY DEF BundleOK
<1>9. ProtocolOK(v) => BundleOK([b EXCEPT !.protocol = v])
  BY DEF BundleOK
<1> QED
  BY <1>1, <1>2, <1>3, <1>4, <1>5, <1>6, <1>7, <1>8, <1>9

(* The first record of a directory, edited. *)
LEMMA EditedEntry ==
  ASSUME NEW es \in Seq(EntryType), NEW rehash \in BOOLEAN, NEW known \in BOOLEAN
  PROVE  [es EXCEPT ![1] = [file |-> Edit(es[1].file, rehash), known |-> known]] \in Seq(EntryType)
<1> DEFINE e == [file |-> Edit(es[1].file, rehash), known |-> known]
<1>1. CASE 1 \in 1..Len(es)
  <2>1. es[1] \in EntryType
    BY <1>1, ElementOfSeq
  <2>2. Edit(es[1].file, rehash) \in FileType
    BY <2>1 DEF EntryType, FileType, Edit
  <2>3. e \in EntryType
    <3> HIDE DEF EntryType
    <3> QED
      BY <2>2 DEF EntryType
  <2> HIDE DEF e
  <2>4. [es EXCEPT ![1] = e] \in Seq(EntryType)
    BY <1>1, <2>3, ExceptSeq
  <2> QED
    BY <2>4 DEF e
<1>2. CASE 1 \notin 1..Len(es)
  <2>1. 1 \notin DOMAIN es
    BY <1>2
  <2> HIDE DEF e
  <2>2. [es EXCEPT ![1] = e] = es
    BY <2>1
  <2> QED
    BY <2>2 DEF e
<1> QED
  BY <1>1, <1>2

(* Evidence events dropped or exchanged are evidence events. *)
LEMMA AlteredEvents ==
  ASSUME NEW es \in Seq(EventType), NEW j \in DOMAIN es, NEW k \in DOMAIN es
  PROVE  Dropped(es, k) \in Seq(EventType) /\ Exchanged(es, j, k) \in Seq(EventType)
<1>1. Len(es) \in Nat /\ DOMAIN es = 1..Len(es) /\ \A i \in 1..Len(es) : es[i] \in EventType
  BY ElementOfSeq
<1>2. SubSeq(es, 1, k - 1) \in Seq(EventType)
  <2>1. 1 \in Int /\ k - 1 \in Int /\ \A i \in 1..(k - 1) : es[i] \in EventType
    BY <1>1
  <2> QED
    BY <2>1, SubSeqProperties
<1>3. SubSeq(es, k + 1, Len(es)) \in Seq(EventType)
  <2>1. k + 1 \in Int /\ Len(es) \in Int /\ \A i \in (k + 1)..Len(es) : es[i] \in EventType
    BY <1>1
  <2> QED
    BY <2>1, SubSeqProperties
<1>4. Dropped(es, k) \in Seq(EventType)
  BY <1>2, <1>3, ConcatProperties DEF Dropped
<1>5. Exchanged(es, j, k) \in Seq(EventType)
  <2> DEFINE a == [es EXCEPT ![j] = es[k]]
  <2>1. a \in Seq(EventType) /\ Len(a) = Len(es)
    BY <1>1, ExceptSeq
  <2> HIDE DEF a
  <2>2. [a EXCEPT ![k] = es[j]] \in Seq(EventType)
    BY <1>1, <2>1, ExceptSeq
  <2> QED
    BY <2>2 DEF Exchanged, a
<1> QED
  BY <1>4, <1>5

(* Whatever is lost or changed, the bundle keeps the shape of a bundle. *)
LEMMA DamageShape ==
  ASSUME BundleOK(bundle),
         Lose \/ Stray \/ ChangeRoot \/ ChangeReports \/ ChangeRecords \/ ChangeProtocol
  PROVE  BundleOK(bundle')
<1>1. CASE Lose
  <2>1. PICK v : bundle' = [bundle EXCEPT !.present = v]
    BY <1>1 DEF Lose, Damage
  <2>2. BundleOK([bundle EXCEPT !.present = v])
    BY Reshaped
  <2> QED
    BY <2>1, <2>2, Zenon
<1>2. CASE Stray
  <2>1. PICK v : bundle' = [bundle EXCEPT !.present = v]
    BY <1>2 DEF Stray, Damage
  <2>2. BundleOK([bundle EXCEPT !.present = v])
    BY Reshaped
  <2> QED
    BY <2>1, <2>2, Zenon
<1>3. CASE ChangeRoot
  <2>1. \/ \E rehash \in BOOLEAN : bundle' = [bundle EXCEPT !.root = Edit(bundle.root, rehash)]
        \/ bundle' = [bundle EXCEPT !.rootParses = FALSE]
    BY <1>3 DEF ChangeRoot, Damage
  <2>2. \A rehash \in BOOLEAN : Edit(bundle.root, rehash) \in FileType
    BY DEF BundleOK, FileType, Edit
  <2>3. \A rehash \in BOOLEAN : BundleOK([bundle EXCEPT !.root = Edit(bundle.root, rehash)])
    BY <2>2, Reshaped, Zenon
  <2>4. BundleOK([bundle EXCEPT !.rootParses = FALSE])
    BY Reshaped
  <2> QED
    BY <2>1, <2>3, <2>4, Zenon
<1>4. CASE ChangeReports
  <2>1. \E v : \/ bundle' = [bundle EXCEPT !.overview = v]
               \/ bundle' = [bundle EXCEPT !.preflight = v]
               \/ bundle' = [bundle EXCEPT !.resultsParse = v]
    BY <1>4 DEF ChangeReports, Damage
  <2>2. \A v : /\ BundleOK([bundle EXCEPT !.overview = v])
               /\ BundleOK([bundle EXCEPT !.preflight = v])
               /\ BundleOK([bundle EXCEPT !.resultsParse = v])
    BY Reshaped, Zenon
  <2> QED
    BY <2>1, <2>2, Zenon
<1>5. CASE ChangeRecords
  <2> DEFINE Edited(es, rehash, known) ==
               [es EXCEPT ![1] = [file |-> Edit(es[1].file, rehash), known |-> known]]
  <2>1. \/ bundle' = [bundle EXCEPT !.claims = <<>>]
        \/ bundle' = [bundle EXCEPT !.attestations = <<>>]
        \/ \E rehash, known \in BOOLEAN :
              \/ bundle' = [bundle EXCEPT !.claims = Edited(bundle.claims, rehash, known)]
              \/ bundle' = [bundle EXCEPT !.attestations = Edited(bundle.attestations, rehash, known)]
    BY <1>5 DEF ChangeRecords, Damage
  <2>2. /\ <<>> \in Seq(EntryType)
        /\ \A rehash, known \in BOOLEAN :
             /\ Edited(bundle.claims, rehash, known) \in Seq(EntryType)
             /\ Edited(bundle.attestations, rehash, known) \in Seq(EntryType)
    BY EditedEntry DEF BundleOK
  <2>3. \A v \in Seq(EntryType) : /\ BundleOK([bundle EXCEPT !.claims = v])
                                  /\ BundleOK([bundle EXCEPT !.attestations = v])
    BY Reshaped, Zenon
  <2> HIDE DEF Edited
  <2> QED
    BY <2>1, <2>2, <2>3, Zenon
<1>6. CASE ChangeProtocol
  <2> DEFINE x == bundle.protocol
             W(s, i, status) == [x.witness EXCEPT !.record[s][i].status = status]
             H(w, rehash) == IF rehash THEN w ELSE x.witnessHash
             Altered(y) == Damage("protocol", [bundle EXCEPT !.protocol = y])
  <2>1. ProtocolOK(x)
    BY DEF BundleOK
  <2>2. ASSUME NEW y, ProtocolOK(y), Altered(y) PROVE BundleOK(bundle')
    <3>1. bundle' = [bundle EXCEPT !.protocol = y]
      BY <2>2 DEF Damage
    <3>2. BundleOK([bundle EXCEPT !.protocol = y])
      BY <2>2, Reshaped, Zenon
    <3> QED
      BY <3>1, <3>2, Zenon
  <2>3. \/ \E k \in DOMAIN x.events : Altered([x EXCEPT !.events = Dropped(x.events, k)])
        \/ \E j, k \in DOMAIN x.events : Altered([x EXCEPT !.events = Exchanged(x.events, j, k)])
        \/ \E s \in Scenarios, i \in Ids, status \in Statuses, rehash \in BOOLEAN :
             Altered([x EXCEPT !.witness = W(s, i, status),
                               !.witnessHash = H(W(s, i, status), rehash)])
    BY <1>6, Zenon DEF ChangeProtocol
  <2> HIDE DEF x, Altered
  <2>4. ASSUME NEW es \in Seq(EventType) PROVE ProtocolOK([x EXCEPT !.events = es])
    BY <2>1 DEF ProtocolOK
  <2>5. \A j, k \in DOMAIN x.events :
           Dropped(x.events, k) \in Seq(EventType) /\ Exchanged(x.events, j, k) \in Seq(EventType)
    BY <2>1, AlteredEvents DEF ProtocolOK
  <2>6. ASSUME NEW s \in Scenarios, NEW i \in Ids, NEW status \in Statuses, NEW rehash \in BOOLEAN
        PROVE  ProtocolOK([x EXCEPT !.witness = W(s, i, status),
                                    !.witnessHash = H(W(s, i, status), rehash)])
    <3> DEFINE w == W(s, i, status)
               h == H(w, rehash)
    <3>1. /\ DOMAIN w = {"record", "consumed", "adjustments"} /\ w.adjustments = w.consumed
      BY <2>1 DEF ProtocolOK
    <3> HIDE DEF w, h
    <3>2. ProtocolOK([x EXCEPT !.witness = w, !.witnessHash = h])
      BY <2>1, <3>1 DEF ProtocolOK
    <3> QED
      BY <3>2 DEF w, h
  <2> HIDE DEF W, H
  <2> QED
    BY <2>2, <2>3, <2>4, <2>5, <2>6, Zenon
<1> QED
  BY <1>1, <1>2, <1>3, <1>4, <1>5, <1>6

(* Nothing is reported before Report, and nothing is changed after it. *)
LEMMA NextBundleInv == BundleInv /\ [Next]_vars => BundleInv'
<1> SUFFICES ASSUME BundleInv, [Next]_vars PROVE BundleInv'
  OBVIOUS
<1> USE DEF BundleInv
<1>1. CASE Extend
  <2>1. phase = "history" /\ phase' = phase
    BY <1>1 DEF Extend
  <2>2. events' \in Seq(EventType)
    <3>1. HistoryStep
      BY <1>1 DEF Extend
    <3>2. ASSUME NEW type \in {"granted", "executed", "revoked"}, NEW s \in Scenarios, NEW i \in Ids,
                 Emit(type, s, i)
          PROVE  events' \in Seq(EventType)
      <4>1. Event(type, s, i) \in EventType
        BY DEF Event, EventType
      <4> QED
        BY <3>2, <4>1 DEF Emit
    <3>3. PICK s \in Scenarios, i \in Ids :
             \/ Grant(s, i) \/ Revoke(s, i)
             \/ \E c \in Claims : Execute(s, i, c) \/ Settle(s, i, c) \/ Supersede(s, i, c)
      BY <3>1 DEF HistoryStep
    <3>4. \/ \E type \in {"granted", "executed", "revoked"} : Emit(type, s, i)
          \/ events' = events
      BY <3>3 DEF Grant, Revoke, Execute, Settle, Supersede
    <3> QED
      BY <3>2, <3>3, <3>4
  <2> QED
    BY <2>1, <2>2 DEF AcceptedEvidenceIsSound, AcceptedIsIntact, Accepted
<1>2. CASE Seal
  <2>1. phase' = "sealed" /\ events' = events
    BY <1>2 DEF Seal, historyVars
  <2> QED
    BY <1>2, <2>1, SealShape DEF AcceptedEvidenceIsSound, AcceptedIsIntact, Accepted
<1>3. CASE Lose \/ Stray \/ ChangeRoot \/ ChangeReports \/ ChangeRecords \/ ChangeProtocol
  <2>1. phase = "sealed" /\ phase' = "sealed" /\ events' = events
    BY <1>3 DEF Lose, Stray, ChangeRoot, ChangeReports, ChangeRecords, ChangeProtocol, Damage,
                historyVars
  <2> QED
    BY <1>3, <2>1, DamageShape DEF AcceptedEvidenceIsSound, AcceptedIsIntact, Accepted
<1>4. CASE Begin \/ Search
  <2>1. phase \in {"sealed", "searching"} /\ phase' = "searching"
        /\ events' = events /\ bundle' = bundle
    BY <1>4 DEF Begin, Search, historyVars, bundleVars
  <2> QED
    BY <2>1 DEF AcceptedEvidenceIsSound, AcceptedIsIntact, Accepted
<1>5. CASE Overflow
  <2>1. phase = "searching" /\ events' = events /\ bundle' = bundle /\ report' = "exception"
    BY <1>5 DEF Overflow, historyVars, bundleVars
  <2> QED
    BY <2>1 DEF AcceptedEvidenceIsSound, AcceptedIsIntact, Accepted
<1>6. CASE Report
  <2>1. /\ phase = "searching" /\ phase' = "reported" /\ events' = events /\ bundle' = bundle
        /\ options' = options /\ report' = Aggregate(VerifyRun(bundle, options, cyclic))
    BY <1>6 DEF Report, historyVars, bundleVars
  <2>2. BundleOK(bundle)
    BY <2>1
  <2>3. Accepted' => Aggregate(VerifyRun(bundle, options, cyclic)) \in {"pass", "pass-with-warnings"}
    BY <2>1 DEF Accepted
  <2>4. AcceptedEvidenceIsSound'
    <3>1. ASSUME Accepted', bundle.descriptor = "sew" PROVE SoundEvidence(bundle.protocol)
      <4>1. SewFailures(bundle.protocol) = {}
        BY <2>3, <3>1, SewChecked
      <4> QED
        BY <2>2, <4>1, PassedIsSound DEF BundleOK
    <3>2. bundle' = bundle
      BY <2>1
    <3> QED
      BY <3>1, <3>2, Zenon DEF AcceptedEvidenceIsSound
  <2>5. AcceptedIsIntact'
    <3>1. SUFFICES ASSUME Accepted'
                   PROVE  /\ RequiredFiles \cup RequiredDirs \subseteq bundle.present
                          /\ bundle.claims # <<>> /\ bundle.attestations # <<>>
                          /\ \A k \in DOMAIN bundle.claims :
                               bundle.claims[k].file = Sealed(bundle.claims[k].file.content)
                          /\ \A k \in DOMAIN bundle.attestations :
                               \/ bundle.attestations[k].file
                                    = Sealed(bundle.attestations[k].file.content)
                               \/ Aggregate(VerifyRun(bundle, options, cyclic)) = "pass-with-warnings"
                          /\ bundle.anchor = "rfc3161" /\ Has(bundle, "anchor-cursor") =>
                               Has(bundle, "registry.tsr")
                          /\ bundle.signature # "unsigned" /\ options.key # "none" =>
                               options.key = "right" /\ bundle.root.recorded = "original"
      BY <2>1 DEF AcceptedIsIntact, Has
    <3> QED
      BY <2>2, <2>3, <3>1, PassedIsIntact
  <2> QED
    BY <2>1, <2>2, <2>4, <2>5
<1>7. CASE Done \/ UNCHANGED vars
  <2>1. UNCHANGED <<phase, events, bundle, options, report>>
    BY <1>7 DEF Done, vars, historyVars, bundleVars
  <2>2. AcceptedEvidenceIsSound'
    BY <2>1, ZenonT(30) DEF AcceptedEvidenceIsSound, Accepted
  <2>3. AcceptedIsIntact'
    BY <2>1 DEF AcceptedIsIntact, Accepted, Has
  <2> QED
    BY <2>1, <2>2, <2>3
<1> QED
  BY <1>1, <1>2, <1>3, <1>4, <1>5, <1>6, <1>7 DEF Next

(* The shape of bundles, and what acceptance means, hold throughout. *)
THEOREM BundleInvariant == Spec => []BundleInv
<1>1. Init => BundleInv
  BY DEF Init, HistoryInit, BundleInv, AcceptedEvidenceIsSound, AcceptedIsIntact, Accepted
<1> QED
  BY <1>1, NextBundleInv, PTL DEF Spec

(* Force-authorisation evidence that verify.py accepts supports itself, however
   the bundle was changed (validate_sew.py). *)
THEOREM EvidenceSound == Spec => []AcceptedEvidenceIsSound
<1>1. BundleInv => AcceptedEvidenceIsSound
  BY DEF BundleInv
<1> QED
  BY <1>1, BundleInvariant, PTL

(* An accepted bundle has everything that is required, intact (verify_run). *)
THEOREM AcceptedIntact == Spec => []AcceptedIsIntact
<1>1. BundleInv => AcceptedIsIntact
  BY DEF BundleInv
<1> QED
  BY <1>1, BundleInvariant, PTL

------------------------------------------------------------------------------
(* The depth-first search of verify.py over the inventory of the evidence DAG. *)

(* A numbering of the nodes B and of all their successors, growing along edges. *)
Ranking(inv, B, rank) ==
    /\ rank \in [B -> 1..Cardinality(B)]
    /\ \A u \in B : \A v \in Successors(inv, u) : v \in B /\ rank[u] < rank[v]

Rankable(inv) == \E rank : Ranking(inv, InventoryHashes(inv), rank)

Black(inv) == {h \in InventoryHashes(inv) : colour[h] = "black"}

FrameType(inv) == [node : InventoryHashes(inv), todo : SUBSET InventoryHashes(inv)]

(* The nested calls are a path, and its nodes are the grey ones. *)
StackOK(inv) ==
    /\ stack \in Seq(FrameType(inv))
    /\ \A j, k \in 1..Len(stack) : stack[j].node = stack[k].node => j = k
    /\ \A h \in InventoryHashes(inv) : colour[h] = "grey" <=> \E k \in 1..Len(stack) : stack[k].node = h
    /\ \A k \in 1..Len(stack) - 1 : stack[k + 1].node \in Successors(inv, stack[k].node)
    /\ \A k \in 1..Len(stack) : stack[k].todo \subseteq Successors(inv, stack[k].node)

(* A successor that a call has looked at is finished, or is being searched. *)
LookedAt(inv) ==
    \A k \in 1..Len(stack) : \A v \in Successors(inv, stack[k].node) :
        \/ v \in stack[k].todo \/ colour[v] = "black"
        \/ k < Len(stack) /\ v = stack[k + 1].node

SearchOK(inv) ==
    /\ IsFiniteSet(InventoryHashes(inv))
    /\ colour \in [InventoryHashes(inv) -> {"white", "grey", "black"}]
    /\ StackOK(inv)
    /\ cyclic \in BOOLEAN
    /\ cyclic => ~Rankable(inv)
    /\ ~cyclic => LookedAt(inv) /\ \E rank : Ranking(inv, Black(inv), rank)

(* A successor is a node of the inventory. *)
LEMMA SuccessorsAreNodes == \A inv, u : Successors(inv, u) \subseteq InventoryHashes(inv)
BY DEF Successors

(* A function on 1..n is a sequence. *)
LEMMA FunctionIsSeq ==
    ASSUME NEW S, NEW n \in Nat, NEW f \in [1..n -> S]
    PROVE  f \in Seq(S) /\ Len(f) = n
OBVIOUS

(* A nonempty set of naturals has a least element. *)
LEMMA Least ==
    ASSUME NEW S \in SUBSET Nat, S # {}
    PROVE  \E m \in S : \A k \in S : m <= k
<1> DEFINE R == {ss \in Nat \X Nat : ss[1] < ss[2]}
<1>1. IsWellFoundedOn(R, Nat)
    BY NatLessThanWellFounded DEF OpToRel
<1>2. PICK m \in S : \A y \in S : ~(<<y, m>> \in R)
    <2> HIDE DEF R
    <2> QED BY <1>1, WFMin
<1>3. \A y \in S : ~(y < m)
    BY <1>2
<1>4. \A y \in S : y \in Nat /\ m \in Nat
    OBVIOUS
<1> QED BY <1>3, <1>4

(* The nodes are white and no call is under way. *)
LEMMA SearchBegins ==
    ASSUME NEW inv, IsFiniteSet(InventoryHashes(inv)), SearchStart(inv)
    PROVE  SearchOK(inv)'
<1> DEFINE H == InventoryHashes(inv)
<1>1. /\ colour' = [h \in H |-> "white"] /\ stack' = <<>> /\ cyclic' = FALSE
    BY DEF SearchStart
<1>2. StackOK(inv)'
    <2>1. stack' \in Seq(FrameType(inv)) /\ Len(stack') = 0
        BY <1>1
    <2> QED BY <1>1, <2>1 DEF StackOK, FrameType
<1>3. LookedAt(inv)'
    BY <1>1 DEF LookedAt
<1>4. Ranking(inv, {}, [x \in {} |-> 1])
    BY DEF Ranking
<1>5. Black(inv)' = {}
    BY <1>1 DEF Black
<1> QED BY <1>1, <1>2, <1>3, <1>4, <1>5 DEF SearchOK, FrameType

(* The outer loop of the search enters a white node. *)
LEMMA SearchRootKeeps ==
    ASSUME NEW inv, SearchOK(inv), SearchRoot(inv)
    PROVE  SearchOK(inv)'
<1> DEFINE H == InventoryHashes(inv)
<1>1. PICK h \in H : /\ stack = <<>> /\ colour[h] = "white"
                     /\ colour' = [colour EXCEPT ![h] = "grey"]
                     /\ stack' = <<Frame(inv, h)>> /\ cyclic' = cyclic
    BY DEF SearchRoot, SearchOK
<1>2. PICK f : f = Frame(inv, h)
    OBVIOUS
<1>3. f \in FrameType(inv) /\ f.node = h /\ f.todo = Successors(inv, h)
    BY <1>2, SuccessorsAreNodes DEF Frame, FrameType
<1>4. stack' \in Seq(FrameType(inv)) /\ Len(stack') = 1 /\ stack'[1] = f
    BY <1>1, <1>2, <1>3
<1>5. colour \in [H -> {"white", "grey", "black"}] /\ Len(stack) = 0
    BY <1>1 DEF SearchOK
<1>6. \A x \in H : colour[x] # "grey"
    BY <1>1, <1>5 DEF SearchOK, StackOK
<1>7. StackOK(inv)'
    <2>1. \A x \in H : colour'[x] = "grey" <=> x = h
        BY <1>1, <1>5, <1>6
    <2>2. \A k \in 1..Len(stack') : k = 1
        BY <1>4
    <2>3. \A k \in 1..Len(stack') - 1 : FALSE
        BY <1>4
    <2>4. \A x \in H : x = h <=> \E k \in 1..Len(stack') : stack'[k].node = x
        BY <1>3, <1>4, <2>2
    <2> QED BY <1>3, <1>4, <2>1, <2>2, <2>3, <2>4 DEF StackOK, FrameType
<1>8. LookedAt(inv)'
    BY <1>3, <1>4 DEF LookedAt
<1>9. Black(inv)' = Black(inv)
    BY <1>1, <1>5 DEF Black
<1>10. colour' \in [H -> {"white", "grey", "black"}]
    BY <1>1, <1>5
<1> QED BY <1>1, <1>7, <1>8, <1>9, <1>10 DEF SearchOK, Rankable, Ranking

(* A grey successor of the innermost call closes a cycle: numbers that grow *)
(* along the stack cannot grow back to one of its nodes.                     *)
LEMMA BackEdge ==
    ASSUME NEW inv, StackOK(inv), Len(stack) >= 1,
           NEW v \in Successors(inv, stack[Len(stack)].node), colour[v] = "grey"
    PROVE  ~Rankable(inv)
<1> DEFINE H == InventoryHashes(inv)
<1> SUFFICES ASSUME NEW rank, Ranking(inv, H, rank) PROVE FALSE
    BY DEF Rankable
<1>1. PICK n : n = Len(stack)
    OBVIOUS
<1>2. stack \in Seq(FrameType(inv)) /\ n \in Nat /\ n >= 1
    BY <1>1 DEF StackOK
<1>3. v \in H
    BY SuccessorsAreNodes
<1>4. PICK i \in 1..n : stack[i].node = v
    BY <1>1, <1>3 DEF StackOK
<1>5. \A k \in 1..n : stack[k].node \in H
    <2>1. \A k \in 1..n : stack[k] \in FrameType(inv)
        BY <1>1, <1>2, ElementOfSeq
    <2> QED BY <2>1 DEF FrameType
<1>6. PICK C : C = Cardinality(H)
    OBVIOUS
<1>7. PICK r : r = [k \in 1..n |-> rank[stack[k].node]]
    OBVIOUS
<1>8. \A k \in 1..n : r[k] \in Int /\ r[k] = rank[stack[k].node]
    BY <1>5, <1>7 DEF Ranking
<1>9. \A k \in 1..n - 1 : r[k] < r[k + 1]
    <2> SUFFICES ASSUME NEW k \in 1..n - 1 PROVE r[k] < r[k + 1]
        OBVIOUS
    <2>1. k \in 1..n /\ k + 1 \in 1..n
        BY <1>2
    <2>2. stack[k + 1].node \in Successors(inv, stack[k].node)
        BY <1>1 DEF StackOK
    <2>3. rank[stack[k].node] < rank[stack[k + 1].node]
        BY <2>1, <2>2, <1>5 DEF Ranking
    <2> QED BY <2>1, <2>3, <1>8
<1>10. r[n] < r[i]
    <2>1. n \in 1..n
        BY <1>2
    <2>2. rank[stack[n].node] < rank[v]
        BY <2>1, <1>1, <1>5 DEF Ranking
    <2> QED BY <2>1, <2>2, <1>4, <1>8
<1>11. PICK S : S = {k \in 1..n : i <= k /\ r[k] < r[i]}
    OBVIOUS
<1>12. S \in SUBSET Nat /\ n \in S
    BY <1>2, <1>4, <1>10, <1>11
<1>13. PICK m \in S : \A k \in S : m <= k
    BY <1>12, Least
<1>14. m \in 1..n /\ i <= m /\ r[m] < r[i]
    BY <1>11, <1>13
<1>15. m # i
    BY <1>4, <1>8, <1>14
<1>16. m - 1 \in 1..n - 1 /\ i <= m - 1 /\ m - 1 \in 1..n /\ (m - 1) + 1 = m /\ m \in Nat
    BY <1>2, <1>4, <1>14, <1>15
<1>17. r[m - 1] < r[m]
    BY <1>9, <1>16
<1>18. r[m - 1] < r[i]
    BY <1>4, <1>8, <1>14, <1>16, <1>17
<1>19. m - 1 \in S
    BY <1>11, <1>16, <1>18
<1> QED BY <1>13, <1>16, <1>19

(* The last of several calls. *)
LEMMA TopFacts ==
    ASSUME NEW inv, SearchOK(inv), stack # <<>>
    PROVE  /\ Len(stack) \in Nat /\ Len(stack) >= 1
           /\ stack \in Seq(FrameType(inv))
           /\ \A k \in 1..Len(stack) : /\ stack[k] \in FrameType(inv)
                                       /\ stack[k].node \in InventoryHashes(inv)
                                       /\ DOMAIN stack[k] = {"node", "todo"}
           /\ Len(stack) \in 1..Len(stack)
<1>1. stack \in Seq(FrameType(inv))
    BY DEF SearchOK, StackOK
<1>2. Len(stack) \in Nat /\ Len(stack) >= 1
    BY <1>1
<1>3. \A k \in 1..Len(stack) : stack[k] \in FrameType(inv)
    BY <1>1, ElementOfSeq
<1> QED BY <1>1, <1>2, <1>3 DEF FrameType

(* The calls when the innermost one has looked at v. *)
Without(v) == [stack EXCEPT ![Len(stack)].todo = @ \ {v}]

(* The next successor of the innermost call is taken off its list. *)
LEMMA Taken ==
    ASSUME NEW inv, SearchOK(inv), stack # <<>>, NEW v, NEW rest,
           rest = Without(v)
    PROVE  /\ rest \in Seq(FrameType(inv)) /\ Len(rest) = Len(stack)
           /\ \A k \in 1..Len(stack) : rest[k].node = stack[k].node /\ rest[k].todo \subseteq stack[k].todo
           /\ \A k \in 1..Len(stack) : k # Len(stack) => rest[k] = stack[k]
           /\ rest[Len(stack)].todo = stack[Len(stack)].todo \ {v}
<1>1. PICK n : n = Len(stack)
    OBVIOUS
<1>2. /\ n \in Nat /\ n >= 1 /\ stack \in Seq(FrameType(inv)) /\ n \in 1..n
      /\ \A k \in 1..n : stack[k] \in FrameType(inv) /\ DOMAIN stack[k] = {"node", "todo"}
    BY <1>1, TopFacts
<1>3. PICK f : f = [stack[n] EXCEPT !.todo = @ \ {v}]
    OBVIOUS
<1>4. f.node = stack[n].node /\ f.todo = stack[n].todo \ {v} /\ f \in FrameType(inv)
    BY <1>2, <1>3 DEF FrameType
<1>5. rest = [stack EXCEPT ![n] = f]
    BY <1>1, <1>3 DEF Without
<1>6. DOMAIN rest = 1..n /\ rest[n] = f /\ \A k \in 1..n : k # n => rest[k] = stack[k]
    BY <1>1, <1>2, <1>5
<1>7. rest \in Seq(FrameType(inv)) /\ Len(rest) = n
    <2>1. rest \in [1..n -> FrameType(inv)]
        BY <1>1, <1>2, <1>4, <1>5, <1>6
    <2> QED BY <2>1, <1>2, FunctionIsSeq
<1> QED BY <1>1, <1>4, <1>6, <1>7

(* The calls are still a path of the grey nodes when one has looked at v. *)
LEMMA RestOK ==
    ASSUME NEW inv, SearchOK(inv), stack # <<>>, NEW v,
           stack' = Without(v), colour' = colour
    PROVE  StackOK(inv)'
<1>1. PICK n : n = Len(stack)
    OBVIOUS
<1>2. PICK rest : rest = stack'
    OBVIOUS
<1>3. /\ rest \in Seq(FrameType(inv)) /\ Len(rest) = n
      /\ \A k \in 1..n : rest[k].node = stack[k].node /\ rest[k].todo \subseteq stack[k].todo
    <2>1. rest = Without(v)
        BY <1>2
    <2>2. /\ rest \in Seq(FrameType(inv)) /\ Len(rest) = Len(stack)
          /\ \A k \in 1..Len(stack) : rest[k].node = stack[k].node /\ rest[k].todo \subseteq stack[k].todo
        BY <2>1, Taken
    <2> QED BY <2>2, <1>1
<1>4. n \in Nat
    BY <1>1, TopFacts
<1>5. StackOK(inv)
    BY DEF SearchOK
<1>6. \A k \in 1..n - 1 : k \in 1..n /\ k + 1 \in 1..n
    BY <1>4
<1>7. /\ \A j, k \in 1..n : rest[j].node = rest[k].node => j = k
      /\ \A h \in InventoryHashes(inv) : colour[h] = "grey" <=> \E k \in 1..n : rest[k].node = h
    BY <1>1, <1>3, <1>5 DEF StackOK
<1>8. \A k \in 1..n - 1 : rest[k + 1].node \in Successors(inv, rest[k].node)
    BY <1>1, <1>3, <1>5, <1>6 DEF StackOK
<1>9. \A k \in 1..n : rest[k].todo \subseteq Successors(inv, rest[k].node)
    BY <1>1, <1>3, <1>5 DEF StackOK
<1>10. FrameType(inv)' = FrameType(inv)
    BY DEF FrameType
<1> QED BY <1>2, <1>3, <1>7, <1>8, <1>9, <1>10 DEF StackOK

(* The search passes over a finished successor, or closes a cycle. *)
LEMMA SeenEdgeKeeps ==
    ASSUME NEW inv, SearchOK(inv), stack # <<>>, NEW v \in stack[Len(stack)].todo, colour[v] # "white",
           stack' = Without(v), colour' = colour,
           cyclic' = (cyclic \/ colour[v] = "grey")
    PROVE  SearchOK(inv)'
<1> DEFINE H == InventoryHashes(inv)
<1>1. PICK n : n = Len(stack)
    OBVIOUS
<1>2. n \in Nat /\ n >= 1 /\ n \in 1..n
    BY <1>1, TopFacts
<1>3. v \in Successors(inv, stack[n].node) /\ v \in H
    BY <1>1, <1>2, SuccessorsAreNodes DEF SearchOK, StackOK
<1>4. StackOK(inv)'
    BY RestOK
<1>5. cyclic' => ~Rankable(inv)
    BY <1>1, <1>2, <1>3, BackEdge DEF SearchOK
<1>6. ASSUME ~cyclic' PROVE LookedAt(inv)'
    <2>1. ~cyclic /\ colour[v] = "black"
        BY <1>3, <1>6 DEF SearchOK
    <2>2. LookedAt(inv)
        BY <2>1 DEF SearchOK
    <2>3. PICK rest : rest = stack'
        OBVIOUS
    <2>4. /\ Len(rest) = n
          /\ \A k \in 1..n : rest[k].node = stack[k].node
          /\ \A k \in 1..n : k # n => rest[k] = stack[k]
          /\ rest[n].todo = stack[n].todo \ {v}
        BY <1>1, <2>3, Taken
    <2>5. ASSUME NEW k \in 1..n, NEW x \in Successors(inv, rest[k].node)
          PROVE  \/ x \in rest[k].todo \/ colour[x] = "black"
                 \/ k < n /\ x = rest[k + 1].node
        <3>1. \/ x \in stack[k].todo \/ colour[x] = "black"
              \/ k < n /\ x = stack[k + 1].node
            BY <1>1, <2>2, <2>4, <2>5 DEF LookedAt
        <3>2. CASE k = n
            BY <3>1, <3>2, <2>1, <2>4, <1>2
        <3>3. CASE k # n
            <4>1. k + 1 \in 1..n
                BY <3>3, <2>5, <1>2
            <4> QED BY <4>1, <3>1, <3>3, <2>4, <2>5
        <3> QED BY <3>2, <3>3
    <2> QED BY <2>3, <2>4, <2>5 DEF LookedAt
<1>7. Black(inv)' = Black(inv)
    BY DEF Black
<1>8. ~cyclic' => ~cyclic
    OBVIOUS
<1>9. cyclic' \in BOOLEAN
    BY DEF SearchOK
<1> QED BY <1>4, <1>5, <1>6, <1>7, <1>8, <1>9 DEF SearchOK, Rankable, Ranking

(* The search goes on with a white successor. *)
LEMMA WhiteEdgeKeeps ==
    ASSUME NEW inv, SearchOK(inv), stack # <<>>, NEW v \in stack[Len(stack)].todo, colour[v] = "white",
           stack' = Append(Without(v), Frame(inv, v)),
           colour' = [colour EXCEPT ![v] = "grey"], cyclic' = cyclic
    PROVE  SearchOK(inv)'
<1> DEFINE H == InventoryHashes(inv)
<1>1. PICK n : n = Len(stack)
    OBVIOUS
<1>2. n \in Nat /\ n >= 1 /\ n \in 1..n
    BY <1>1, TopFacts
<1>3. v \in Successors(inv, stack[n].node) /\ v \in H
    BY <1>1, <1>2, SuccessorsAreNodes DEF SearchOK, StackOK
<1>4. PICK rest : rest = Without(v)
    OBVIOUS
<1>5. /\ rest \in Seq(FrameType(inv)) /\ Len(rest) = n
      /\ \A k \in 1..n : rest[k].node = stack[k].node /\ rest[k].todo \subseteq stack[k].todo
      /\ \A k \in 1..n : k # n => rest[k] = stack[k]
      /\ rest[n].todo = stack[n].todo \ {v}
    <2>1. /\ rest \in Seq(FrameType(inv)) /\ Len(rest) = Len(stack)
          /\ \A k \in 1..Len(stack) : rest[k].node = stack[k].node /\ rest[k].todo \subseteq stack[k].todo
          /\ \A k \in 1..Len(stack) : k # Len(stack) => rest[k] = stack[k]
          /\ rest[Len(stack)].todo = stack[Len(stack)].todo \ {v}
        BY <1>4, Taken
    <2> QED BY <2>1, <1>1
<1>6. PICK f : f = Frame(inv, v)
    OBVIOUS
<1>7. f \in FrameType(inv) /\ f.node = v /\ f.todo = Successors(inv, v)
    BY <1>3, <1>6, SuccessorsAreNodes DEF Frame, FrameType
<1>8. PICK t : t = stack'
    OBVIOUS
<1>9. /\ t \in Seq(FrameType(inv)) /\ Len(t) = n + 1
      /\ \A k \in 1..n : t[k] = rest[k]
      /\ t[n + 1] = f
    <2>1. t = Append(rest, f)
        BY <1>4, <1>6, <1>8
    <2> QED BY <2>1, <1>5, <1>7
<1>10. colour \in [H -> {"white", "grey", "black"}] /\ colour' \in [H -> {"white", "grey", "black"}]
    BY <1>3 DEF SearchOK
<1>11. \A x \in H : colour'[x] = (IF x = v THEN "grey" ELSE colour[x])
    BY <1>10
<1>12. StackOK(inv)
    BY DEF SearchOK
<1>13. \A k \in 1..n + 1 : k = n + 1 \/ k \in 1..n
    BY <1>2
<1>14. \A k \in 1..n : t[k].node = stack[k].node /\ stack[k].node # v
    <2>1. \A k \in 1..n : stack[k].node # v
        BY <1>1, <1>3, <1>12 DEF StackOK
    <2> QED BY <2>1, <1>5, <1>9
<1>15. StackOK(inv)'
    <2>1. ASSUME NEW j \in 1..n + 1, NEW k \in 1..n + 1, t[j].node = t[k].node PROVE j = k
        <3>1. \A a, b \in 1..n : stack[a].node = stack[b].node => a = b
            BY <1>1, <1>12 DEF StackOK
        <3>2. t[n + 1].node = v
            BY <1>7, <1>9
        <3>3. (j = n + 1 \/ j \in 1..n) /\ (k = n + 1 \/ k \in 1..n)
            BY <2>1, <1>13
        <3> QED BY <3>1, <3>2, <3>3, <2>1, <1>14
    <2>2. ASSUME NEW x \in H PROVE colour'[x] = "grey" <=> \E k \in 1..n + 1 : t[k].node = x
        <3>1. n + 1 \in 1..n + 1 /\ \A k \in 1..n : k \in 1..n + 1
            BY <1>2
        <3>2. colour[x] = "grey" <=> \E k \in 1..n : stack[k].node = x
            BY <2>2, <1>1, <1>12 DEF StackOK
        <3>3. CASE x = v
            BY <3>1, <3>3, <2>2, <1>7, <1>9, <1>11
        <3>4. CASE x # v
            BY <3>1, <3>2, <3>4, <2>2, <1>7, <1>9, <1>11, <1>13, <1>14
        <3> QED BY <3>3, <3>4
    <2>3. ASSUME NEW k \in 1..(n + 1) - 1 PROVE t[k + 1].node \in Successors(inv, t[k].node)
        <3>1. k \in 1..n
            BY <2>3, <1>2
        <3>2. CASE k = n
            BY <3>2, <1>2, <1>3, <1>7, <1>9, <1>14
        <3>3. CASE k # n
            <4>1. k \in 1..n - 1 /\ k + 1 \in 1..n
                BY <3>1, <3>3, <1>2
            <4> QED BY <3>1, <4>1, <1>1, <1>12, <1>14 DEF StackOK
        <3> QED BY <3>2, <3>3
    <2>4. ASSUME NEW k \in 1..n + 1 PROVE t[k].todo \subseteq Successors(inv, t[k].node)
        <3>1. CASE k = n + 1
            BY <3>1, <1>7, <1>9
        <3>2. CASE k \in 1..n
            BY <3>2, <1>1, <1>5, <1>9, <1>12, <1>14 DEF StackOK
        <3> QED BY <2>4, <3>1, <3>2, <1>13
    <2>5. Len(t) = n + 1 /\ t \in Seq(FrameType(inv)) /\ FrameType(inv)' = FrameType(inv)
        BY <1>9 DEF FrameType
    <2> QED BY <2>1, <2>2, <2>3, <2>4, <2>5, <1>8, SMTT(30) DEF StackOK
<1>16. ASSUME ~cyclic PROVE LookedAt(inv)'
    <2>1. LookedAt(inv)
        BY <1>16 DEF SearchOK
    <2>2. ASSUME NEW k \in 1..n + 1, NEW x \in Successors(inv, t[k].node)
          PROVE  \/ x \in t[k].todo \/ colour'[x] = "black"
                 \/ k < n + 1 /\ x = t[k + 1].node
        <3>1. x \in H
            BY <2>2, SuccessorsAreNodes
        <3>2. CASE k = n + 1
            BY <3>2, <2>2, <1>7, <1>9
        <3>3. CASE k = n
            <4>1. x \in stack[n].todo \/ colour[x] = "black"
                BY <3>3, <2>1, <2>2, <1>1, <1>2, <1>14 DEF LookedAt
            <4>2. x = v => n < n + 1 /\ x = t[n + 1].node
                BY <1>2, <1>7, <1>9
            <4>3. x # v => x \in t[n].todo \/ colour'[x] = "black"
                BY <4>1, <3>1, <1>2, <1>5, <1>9, <1>11
            <4> QED BY <4>2, <4>3, <3>3
        <3>4. CASE k \in 1..n /\ k # n
            <4>1. k + 1 \in 1..n /\ k < n + 1
                BY <3>4, <1>2
            <4>2. x \in stack[k].todo \/ colour[x] = "black" \/ (k < n /\ x = stack[k + 1].node)
                BY <3>4, <2>1, <2>2, <1>1, <1>14 DEF LookedAt
            <4>3. colour[x] = "black" => colour'[x] = "black"
                BY <3>1, <1>11
            <4> QED BY <3>4, <4>1, <4>2, <4>3, <1>5, <1>9, <1>14
        <3> QED BY <3>2, <3>3, <3>4, <2>2, <1>13
    <2> QED BY <2>2, <1>8, <1>9 DEF LookedAt
<1>17. Black(inv)' = Black(inv)
    BY <1>11 DEF Black
<1> QED BY <1>10, <1>15, <1>16, <1>17 DEF SearchOK, Rankable, Ranking

(* A call looks at its next successor. *)
LEMMA SearchEdgeKeeps ==
    ASSUME NEW inv, SearchOK(inv), SearchEdge(inv)
    PROVE  SearchOK(inv)'
<1>1. PICK v \in stack[Len(stack)].todo :
         /\ stack # <<>>
         /\ stack' = IF colour[v] = "white" THEN Append(Without(v), Frame(inv, v)) ELSE Without(v)
         /\ colour' = IF colour[v] = "white" THEN [colour EXCEPT ![v] = "grey"] ELSE colour
         /\ cyclic' = (cyclic \/ colour[v] = "grey")
    BY DEF SearchEdge, Without
<1>2. CASE colour[v] = "white"
    <2>1. cyclic' = cyclic
        BY <1>1, <1>2 DEF SearchOK
    <2> QED BY <2>1, <1>1, <1>2, WhiteEdgeKeeps
<1>3. CASE colour[v] # "white"
    BY <1>1, <1>3, SeenEdgeKeeps
<1> QED BY <1>2, <1>3

(* One more finished node: it comes before all that were finished earlier. *)
LEMMA RankAdded ==
    ASSUME NEW inv, NEW B, IsFiniteSet(B), NEW rank, Ranking(inv, B, rank),
           NEW u, u \notin B, Successors(inv, u) \subseteq B
    PROVE  \E r : Ranking(inv, B \cup {u}, r)
<1>1. PICK c \in Nat : c = Cardinality(B)
    BY FS_CardinalityType
<1>2. Cardinality(B \cup {u}) = c + 1
    BY <1>1, FS_AddElement
<1>3. rank \in [B -> 1..c]
    BY <1>1 DEF Ranking
<1>4. PICK r : r = [x \in B \cup {u} |-> IF x = u THEN 1 ELSE rank[x] + 1]
    OBVIOUS
<1>5. r \in [B \cup {u} -> 1..c + 1]
    <2>1. \A x \in B : rank[x] + 1 \in 1..c + 1
        BY <1>1, <1>3
    <2> QED BY <2>1, <1>1, <1>4
<1>6. ASSUME NEW x \in B \cup {u}, NEW v \in Successors(inv, x)
      PROVE  v \in B \cup {u} /\ r[x] < r[v]
    <2>1. CASE x = u
        <3>1. v \in B
            BY <2>1, <1>6
        <3>2. r[x] = 1 /\ r[v] = rank[v] + 1 /\ rank[v] \in 1..c
            BY <3>1, <2>1, <1>3, <1>4
        <3> QED BY <3>1, <3>2
    <2>2. CASE x # u
        <3>1. x \in B /\ v \in B /\ rank[x] < rank[v]
            BY <2>2, <1>6 DEF Ranking
        <3>2. r[x] = rank[x] + 1 /\ r[v] = rank[v] + 1 /\ rank[v] \in Int /\ rank[x] \in Int
            BY <3>1, <1>3, <1>4
        <3> QED BY <3>1, <3>2
    <2> QED BY <2>1, <2>2
<1>7. Ranking(inv, B \cup {u}, r)
    BY <1>2, <1>5, <1>6 DEF Ranking
<1> QED BY <1>7

(* The innermost call has looked at all its successors and returns. *)
LEMMA SearchReturnKeeps ==
    ASSUME NEW inv, SearchOK(inv), SearchReturn
    PROVE  SearchOK(inv)'
<1> DEFINE H == InventoryHashes(inv)
<1>1. /\ stack # <<>> /\ stack[Len(stack)].todo = {} /\ cyclic' = cyclic
      /\ colour' = [colour EXCEPT ![stack[Len(stack)].node] = "black"]
      /\ stack' = SubSeq(stack, 1, Len(stack) - 1)
    BY DEF SearchReturn
<1>2. PICK n, u : n = Len(stack) /\ u = stack[n].node
    OBVIOUS
<1>3. n \in Nat /\ n >= 1 /\ n \in 1..n /\ u \in H /\ stack \in Seq(FrameType(inv))
    BY <1>1, <1>2, TopFacts
<1>4. PICK t : t = stack'
    OBVIOUS
<1>5. t \in Seq(FrameType(inv)) /\ Len(t) = n - 1 /\ \A k \in 1..n - 1 : t[k] = stack[k]
    <2>1. t = SubSeq(stack, 1, n - 1)
        BY <1>1, <1>2, <1>4
    <2> QED BY <2>1, <1>2, <1>3
<1>6. colour \in [H -> {"white", "grey", "black"}] /\ colour' \in [H -> {"white", "grey", "black"}]
    BY <1>1, <1>2, <1>3 DEF SearchOK
<1>7. \A x \in H : colour'[x] = (IF x = u THEN "black" ELSE colour[x])
    BY <1>1, <1>2, <1>6
<1>8. StackOK(inv)
    BY DEF SearchOK
<1>9. colour[u] = "grey"
    BY <1>2, <1>3, <1>8 DEF StackOK
<1>10. \A k \in 1..n : k = n \/ k \in 1..n - 1
    BY <1>3
<1>11. \A k \in 1..n - 1 : k \in 1..n /\ k # n
    BY <1>3
<1>12. StackOK(inv)'
    <2>1. \A j, k \in 1..n : stack[j].node = stack[k].node => j = k
        BY <1>2, <1>8 DEF StackOK
    <2>2. \A j, k \in 1..n - 1 : t[j].node = t[k].node => j = k
        BY <2>1, <1>5, <1>11
    <2>3. ASSUME NEW x \in H PROVE colour'[x] = "grey" <=> \E k \in 1..n - 1 : t[k].node = x
        <3>1. colour[x] = "grey" <=> \E k \in 1..n : stack[k].node = x
            BY <2>3, <1>2, <1>8 DEF StackOK
        <3>2. CASE x = u
            BY <3>2, <2>1, <2>3, <1>2, <1>3, <1>5, <1>7, <1>11
        <3>3. CASE x # u
            BY <3>1, <3>3, <2>3, <1>2, <1>5, <1>7, <1>10, <1>11
        <3> QED BY <3>2, <3>3
    <2>4. ASSUME NEW k \in 1..(n - 1) - 1 PROVE t[k + 1].node \in Successors(inv, t[k].node)
        <3>1. k \in 1..n - 1 /\ k + 1 \in 1..n - 1
            BY <2>4, <1>3
        <3> QED BY <3>1, <1>2, <1>5, <1>8 DEF StackOK
    <2>5. \A k \in 1..n - 1 : t[k].todo \subseteq Successors(inv, t[k].node)
        BY <1>2, <1>5, <1>8, <1>11 DEF StackOK
    <2>6. FrameType(inv)' = FrameType(inv)
        BY DEF FrameType
    <2> QED BY <2>2, <2>3, <2>4, <2>5, <2>6, <1>4, <1>5 DEF StackOK
<1>13. ASSUME ~cyclic PROVE LookedAt(inv)'
    <2>1. LookedAt(inv)
        BY <1>13 DEF SearchOK
    <2>2. ASSUME NEW k \in 1..n - 1, NEW x \in Successors(inv, t[k].node)
          PROVE  \/ x \in t[k].todo \/ colour'[x] = "black"
                 \/ k < n - 1 /\ x = t[k + 1].node
        <3>1. x \in H /\ t[k] = stack[k] /\ k \in 1..n
            BY <2>2, <1>5, <1>11, SuccessorsAreNodes
        <3>2. x \in stack[k].todo \/ colour[x] = "black" \/ (k < n /\ x = stack[k + 1].node)
            BY <3>1, <2>1, <2>2, <1>2 DEF LookedAt
        <3>3. CASE k = n - 1
            <4>1. k + 1 = n
                BY <3>3, <1>3
            <4> QED BY <3>1, <3>2, <4>1, <1>2, <1>7
        <3>4. CASE k # n - 1
            <4>1. k < n - 1 /\ k + 1 \in 1..n - 1
                BY <3>4, <2>2, <1>3
            <4> QED BY <3>1, <3>2, <4>1, <1>5, <1>7
        <3> QED BY <3>3, <3>4
    <2> QED BY <2>2, <1>4, <1>5 DEF LookedAt
<1>14. ASSUME ~cyclic PROVE \E rank : Ranking(inv, Black(inv)', rank)
    <2>1. LookedAt(inv) /\ IsFiniteSet(H)
        BY <1>14 DEF SearchOK
    <2>2. PICK B, rank : B = Black(inv) /\ Ranking(inv, B, rank)
        BY <1>14 DEF SearchOK
    <2>3. Successors(inv, u) \subseteq B
        <3> SUFFICES ASSUME NEW x \in Successors(inv, u) PROVE x \in B
            OBVIOUS
        <3>1. x \in H
            BY SuccessorsAreNodes
        <3>2. x \in stack[n].todo \/ colour[x] = "black" \/ n < n
            BY <2>1, <1>2, <1>3 DEF LookedAt
        <3> QED BY <3>1, <3>2, <2>2, <1>1, <1>2, <1>3 DEF Black
    <2>4. B \in SUBSET H /\ u \notin B
        BY <2>2, <1>9 DEF Black
    <2>5. IsFiniteSet(B)
        BY <2>1, <2>4, FS_Subset
    <2>6. Black(inv)' = B \cup {u}
        BY <2>2, <1>3, <1>7 DEF Black
    <2>7. \E r : Ranking(inv, B \cup {u}, r)
        BY <2>2, <2>3, <2>4, <2>5, RankAdded
    <2> QED BY <2>6, <2>7
<1> QED BY <1>1, <1>6, <1>12, <1>13, <1>14 DEF SearchOK, Rankable, Ranking

(* A finished search has found out whether there is a cycle. *)
LEMMA SearchExact ==
    ASSUME NEW inv, SearchOK(inv), SearchDone
    PROVE  cyclic <=> ~Rankable(inv)
<1>1. DOMAIN colour = InventoryHashes(inv)
    BY DEF SearchOK
<1>2. Black(inv) = InventoryHashes(inv)
    BY <1>1 DEF Black, SearchDone
<1>3. ~cyclic => \E rank : Ranking(inv, InventoryHashes(inv), rank)
    BY <1>2 DEF SearchOK
<1> QED BY <1>3 DEF SearchOK, Rankable

(* The calls under way and the next white node are a path without repetition. *)
LEMMA OverflowPath ==
    ASSUME NEW d, NEW inv, SearchOK(inv), SearchOverflows,
           InventoryHashes(inv) = NodeHashes(d), inv.edges = BuildEdges(d)
    PROVE  HasLongPath(d)
<1> DEFINE H == InventoryHashes(inv)
<1>1. PICK n : n = RecursionLimit
    OBVIOUS
<1>2. n \in Nat /\ n >= 1 /\ Len(stack) = n
    BY <1>1, RecursionLimitAssumption DEF SearchOverflows
<1>3. stack # <<>> /\ stack \in Seq(FrameType(inv))
    BY <1>2 DEF SearchOK, StackOK
<1>4. /\ \A k \in 1..n : stack[k].node \in H
      /\ n \in 1..n
    BY <1>2, <1>3, TopFacts
<1>5. PICK v \in stack[n].todo : colour[v] = "white"
    BY <1>1, <1>2 DEF SearchOverflows
<1>6. StackOK(inv)
    BY DEF SearchOK
<1>7. v \in Successors(inv, stack[n].node)
    BY <1>2, <1>4, <1>5, <1>6 DEF StackOK
<1>8. v \in H
    BY <1>7, SuccessorsAreNodes
<1>9. \A k \in 1..n : stack[k].node # v
    <2>1. colour[v] # "grey"
        BY <1>5
    <2> QED BY <2>1, <1>2, <1>6, <1>8 DEF StackOK
<1>10. PICK p : p = [k \in 1..n + 1 |-> IF k = n + 1 THEN v ELSE stack[k].node]
    OBVIOUS
<1>11. \A k \in 1..n + 1 : k = n + 1 \/ k \in 1..n
    BY <1>2
<1>12. \A k \in 1..n : k \in 1..n + 1 /\ k # n + 1
    BY <1>2
<1>13. p \in [1..n + 1 -> H]
    BY <1>4, <1>8, <1>10, <1>11
<1>14. p[n + 1] = v /\ \A k \in 1..n : p[k] = stack[k].node
    <2>1. n + 1 \in 1..n + 1
        BY <1>2
    <2> QED BY <2>1, <1>10, <1>12
<1>15. \A j, k \in 1..n + 1 : p[j] = p[k] => j = k
    <2>1. \A j, k \in 1..n : stack[j].node = stack[k].node => j = k
        BY <1>2, <1>6 DEF StackOK
    <2> QED BY <2>1, <1>9, <1>11, <1>14
<1>16. DOMAIN p = 1..n + 1 /\ Len(p) = n + 1
    <2>1. n + 1 \in Nat
        BY <1>2
    <2> QED BY <2>1, <1>13, FunctionIsSeq
<1>17. \A k \in 1..n : <<p[k], p[k + 1]>> \in inv.edges
    <2> SUFFICES ASSUME NEW k \in 1..n PROVE <<p[k], p[k + 1]>> \in inv.edges
        OBVIOUS
    <2>1. CASE k = n
        BY <2>1, <1>4, <1>7, <1>14 DEF Successors
    <2>2. CASE k # n
        <3>1. k \in 1..n - 1 /\ k + 1 \in 1..n
            BY <2>2, <1>2
        <3>2. stack[k + 1].node \in Successors(inv, stack[k].node)
            BY <3>1, <1>2, <1>6 DEF StackOK
        <3> QED BY <3>1, <3>2, <1>14 DEF Successors
    <2> QED BY <2>1, <2>2
<1>18. n + 1 \in n + 1..Cardinality(H)
    <2>1. p \in Injection(1..n + 1, H)
        BY <1>13, <1>15 DEF Injection, IsInjective
    <2>2. IsFiniteSet(H)
        BY DEF SearchOK
    <2>3. Cardinality(1..n + 1) <= Cardinality(H)
        BY <2>1, <2>2, FS_Injection
    <2>4. Cardinality(1..n + 1) = n + 1
        <3>1. 1 \in Int /\ n + 1 \in Int /\ ~(1 > n + 1) /\ (n + 1) - 1 + 1 = n + 1
            BY <1>2
        <3>2. Cardinality(1..n + 1) = IF 1 > n + 1 THEN 0 ELSE (n + 1) - 1 + 1
            BY <3>1, FS_Interval
        <3> QED BY <3>1, <3>2
    <2>5. Cardinality(H) \in Nat
        BY <2>2, FS_CardinalityType
    <2> QED BY <2>3, <2>4, <2>5, <1>2
<1>19. p \in UNION {[1..m -> H] : m \in n + 1..Cardinality(H)}
    BY <1>13, <1>18
<1>20. \A k \in 1..(Len(p) - 1) : <<p[k], p[k + 1]>> \in BuildEdges(d)
    <2>1. Len(p) - 1 = n
        BY <1>2, <1>16
    <2> QED BY <2>1, <1>17
<1> QED BY <1>1, <1>15, <1>16, <1>19, <1>20 DEF HasLongPath

------------------------------------------------------------------------------
(* What the checks of the inventory amount to.                                *)

(* What the inventory of a directory says. *)
LEMMA InventoryOf ==
    ASSUME NEW d \in Dags
    PROVE  LET inv == WriteDagInventory(d)
           IN /\ DOMAIN inv.nodes = ParsedFiles(d)
              /\ \A f \in ParsedFiles(d) : inv.nodes[f] = d[f]
              /\ InventoryHashes(inv) = NodeHashes(d)
              /\ inv.edges = BuildEdges(d)
              /\ inv.index = BuildDagIndex(d)
              /\ inv.fileCount = Cardinality(DOMAIN d)
              /\ inv.semantic = (IF ParsedFiles(d) = {} THEN "inventory-only" ELSE "parsed")
              /\ IsFiniteSet(ParsedFiles(d)) /\ IsFiniteSet(NodeHashes(d))
<1> DEFINE inv == WriteDagInventory(d)
           P == ParsedFiles(d)
           H == NodeHashes(d)
<1>1. IsFiniteSet(P)
    <2>1. P \in SUBSET DOMAIN d
        BY DEF ParsedFiles
    <2> QED BY <2>1, DagAssumption, FS_Subset
<1>2. IsFiniteSet(H)
    <2>1. PICK g : g = [f \in P |-> d[f].hash]
        OBVIOUS
    <2>2. g \in Surjection(P, H)
        BY <2>1 DEF Surjection, NodeHashes
    <2> HIDE DEF P, H
    <2> QED BY <2>2, <1>1, FS_Surjection
<1>3. /\ inv.nodes = [f \in P |-> d[f]]
      /\ inv.edges = BuildEdges(d) /\ inv.index = BuildDagIndex(d)
      /\ inv.fileCount = Cardinality(DOMAIN d)
      /\ inv.semantic = (IF P = {} THEN "inventory-only" ELSE "parsed")
    BY DEF WriteDagInventory
<1>4. DOMAIN inv.nodes = P /\ \A f \in P : inv.nodes[f] = d[f]
    BY <1>3
<1>5. InventoryHashes(inv) = H
    BY <1>4 DEF InventoryHashes, NodeHashes
<1> QED BY <1>1, <1>2, <1>3, <1>4, <1>5

(* No error of the inventory. *)
Clean(inv, refs, ednCount, cycles) ==
    LET files == DOMAIN inv.nodes
        hashes == InventoryHashes(inv)
    IN /\ ~(inv.semantic = "inventory-only" /\ ednCount > 0)
       /\ inv.fileCount = ednCount
       /\ \A f, g \in files : inv.nodes[f].hash = inv.nodes[g].hash => f = g
       /\ ~(hashes # {} /\ cycles)
       /\ \A f \in files : \A p \in Members(inv.nodes[f].parents) : <<p, inv.nodes[f].hash>> \in inv.edges
       /\ \A f \in files : Members(inv.nodes[f].parents) \subseteq hashes
       /\ Cardinality(inv.edges) = ParentCount(inv)
       /\ refs # {} => refs \cap hashes # {}
       /\ refs = {} => files = {}
       /\ files # {} => inv.index.nodeCount = Cardinality(files)
       /\ files # {} => inv.index.roots # {}
       /\ files # {} => inv.index.orphans = {}

(* validate_evidence_dag_inventory returns no error exactly when none of its
   conditions holds. *)
LEMMA NoErrors ==
    ASSUME NEW inv, NEW refs, NEW ednCount, NEW cycles
    PROVE  ValidateEvidenceDagInventory(inv, refs, ednCount, cycles) = {}
               <=> Clean(inv, refs, ednCount, cycles)
<1> DEFINE V == ValidateEvidenceDagInventory(inv, refs, ednCount, cycles)
           files == DOMAIN inv.nodes
           hashes == InventoryHashes(inv)
<1>1. /\ "unparsed" \in V <=> inv.semantic = "inventory-only" /\ ednCount > 0
      /\ "file-count" \in V <=> inv.fileCount # ednCount
      /\ "duplicate-hash" \in V <=>
             \E f, g \in files : f # g /\ inv.nodes[f].hash = inv.nodes[g].hash
    BY DEF ValidateEvidenceDagInventory
<1>2. /\ "cycle" \in V <=> hashes # {} /\ cycles
      /\ "missing-edge" \in V <=> \E f \in files : \E p \in Members(inv.nodes[f].parents) :
                                      <<p, inv.nodes[f].hash>> \notin inv.edges
      /\ "unresolved-parent" \in V <=>
             \E f \in files : ~(Members(inv.nodes[f].parents) \subseteq hashes)
    BY DEF ValidateEvidenceDagInventory
<1>3. /\ "edge-count" \in V <=> Cardinality(inv.edges) # ParentCount(inv)
      /\ "root-ref" \in V <=> refs # {} /\ refs \cap hashes = {}
      /\ "no-root-ref" \in V <=> refs = {} /\ files # {}
    BY DEF ValidateEvidenceDagInventory
<1>4. /\ "index-count" \in V <=> files # {} /\ inv.index.nodeCount # Cardinality(files)
      /\ "no-roots" \in V <=> files # {} /\ inv.index.roots = {}
      /\ "orphans" \in V <=> files # {} /\ inv.index.orphans # {}
    BY DEF ValidateEvidenceDagInventory
<1>5. V \subseteq {"unparsed", "file-count", "duplicate-hash", "cycle", "missing-edge",
                   "unresolved-parent", "edge-count", "root-ref", "no-root-ref",
                   "index-count", "no-roots", "orphans"}
    BY DEF ValidateEvidenceDagInventory
<1> HIDE DEF V
<1>6. V = {} <=> /\ "unparsed" \notin V /\ "file-count" \notin V /\ "duplicate-hash" \notin V
                 /\ "cycle" \notin V /\ "missing-edge" \notin V /\ "unresolved-parent" \notin V
                 /\ "edge-count" \notin V /\ "root-ref" \notin V /\ "no-root-ref" \notin V
                 /\ "index-count" \notin V /\ "no-roots" \notin V /\ "orphans" \notin V
    BY <1>5
<1>7. V = {} <=> Clean(inv, refs, ednCount, cycles)
    BY <1>1, <1>2, <1>3, <1>4, <1>6, Zenon DEF Clean
<1> QED BY <1>7 DEF V

(* The file whose parents the index takes for a hash. *)
LastOf(d, h) == CHOOSE f \in ParsedFiles(d) :
                     /\ d[f].hash = h
                     /\ \A g \in ParsedFiles(d) : d[g].hash = h => g <= f

(* With distinct hashes the index is about the only file with a hash
   (build_dag_index). *)
LEMMA IndexIs ==
    ASSUME NEW d \in Dags,
           \A f, g \in ParsedFiles(d) : d[f].hash = d[g].hash => f = g
    PROVE  /\ BuildDagIndex(d).nodeCount = Cardinality(ParsedFiles(d))
           /\ \A f \in ParsedFiles(d) :
                 /\ d[f].hash \in BuildDagIndex(d).roots
                       <=> Members(d[f].parents) \cap NodeHashes(d) = {}
                 /\ d[f].hash \in BuildDagIndex(d).orphans
                       <=> ~(Members(d[f].parents) \subseteq NodeHashes(d))
           /\ BuildDagIndex(d).orphans \subseteq NodeHashes(d)
<1> DEFINE H == NodeHashes(d)
<1>1. BuildDagIndex(d) = [nodeCount |-> Cardinality(ParsedFiles(d)),
                          roots |-> {h \in H : Members(d[LastOf(d, h)].parents) \cap H = {}},
                          orphans |-> {h \in H : ~(Members(d[LastOf(d, h)].parents) \subseteq H)}]
    BY DEF BuildDagIndex, LastOf
<1>2. ASSUME NEW f \in ParsedFiles(d) PROVE LastOf(d, d[f].hash) = f
    <2>1. f \in Nat
        BY <1>2, DagAssumption DEF ParsedFiles
    <2>2. f <= f
        BY <2>1
    <2>3. \A g \in ParsedFiles(d) : d[g].hash = d[f].hash => g <= f
        BY <2>2, <1>2
    <2> QED BY <2>3, <1>2 DEF LastOf
<1>3. \A f \in ParsedFiles(d) : d[f].hash \in H
    BY DEF NodeHashes
<1> QED BY <1>1, <1>2, <1>3

(* A numbering along the edges of the inventory is one of the directory. *)
LEMMA AcyclicIsRankable ==
    ASSUME NEW d \in Dags, \A f \in ParsedFiles(d) : Members(d[f].parents) \subseteq NodeHashes(d)
    PROVE  Acyclic(NodeHashes(d), BuildEdges(d)) <=> Rankable(WriteDagInventory(d))
<1> DEFINE inv == WriteDagInventory(d)
           H == NodeHashes(d)
           E == BuildEdges(d)
<1>1. InventoryHashes(inv) = H /\ inv.edges = E
    BY InventoryOf
<1> HIDE DEF inv
<1>2. \A e \in E : \E f \in ParsedFiles(d) : \E p \in Members(d[f].parents) : e = <<p, d[f].hash>>
    BY DEF BuildEdges
<1>3. \A e \in E : e = <<e[1], e[2]>> /\ e[1] \in H /\ e[2] \in H
    BY <1>2 DEF NodeHashes
<1>4. \A u \in H : \A v : v \in Successors(inv, u) <=> v \in H /\ <<u, v>> \in E
    BY <1>1 DEF Successors
<1> HIDE DEF H, E
<1>5. ASSUME NEW rank \in [H -> 1..Cardinality(H)]
      PROVE  (\A e \in E : rank[e[1]] < rank[e[2]]) <=> Ranking(inv, H, rank)
    <2>1. ASSUME \A e \in E : rank[e[1]] < rank[e[2]], NEW u \in H, NEW v \in Successors(inv, u)
          PROVE  v \in H /\ rank[u] < rank[v]
        <3>1. v \in H /\ <<u, v>> \in E
            BY <2>1, <1>4
        <3> QED BY <2>1, <3>1
    <2>2. ASSUME Ranking(inv, H, rank), NEW e \in E
          PROVE  rank[e[1]] < rank[e[2]]
        BY <2>2, <1>3, <1>4 DEF Ranking
    <2> QED BY <2>1, <2>2, <1>5 DEF Ranking
<1>6. Acyclic(H, E) <=> \E rank \in [H -> 1..Cardinality(H)] : Ranking(inv, H, rank)
    BY <1>5 DEF Acyclic
<1>7. Rankable(inv) <=> \E rank \in [H -> 1..Cardinality(H)] : Ranking(inv, H, rank)
    BY <1>1 DEF Rankable, Ranking
<1> QED BY <1>6, <1>7 DEF inv, H, E

(* A list has as many members as places exactly when nothing is repeated. *)
LEMMA NoRepetition ==
    ASSUME NEW s, s \in Seq(Members(s))
    PROVE  Cardinality(Members(s)) = Len(s) <=> \A j, k \in DOMAIN s : s[j] = s[k] => j = k
<1> DEFINE n == Len(s)
           M == Members(s)
<1>1. s \in Surjection(1..n, M)
    <2>1. n \in Nat /\ s \in [1..n -> M] /\ DOMAIN s = 1..n
        OBVIOUS
    <2>2. \A t \in M : \E k \in 1..n : s[k] = t
        BY <2>1 DEF Members
    <2> QED BY <2>1, <2>2 DEF Surjection
<1>2. IsFiniteSet(1..n) /\ Cardinality(1..n) = n
    <2>1. 1 \in Int /\ n \in Int /\ (1 > n => n = 0) /\ n - 1 + 1 = n
        OBVIOUS
    <2>2. IsFiniteSet(1..n) /\ Cardinality(1..n) = IF 1 > n THEN 0 ELSE n - 1 + 1
        BY <2>1, FS_Interval
    <2> QED BY <2>1, <2>2
<1>3. s \in Injection(1..n, M) <=> \A j, k \in DOMAIN s : s[j] = s[k] => j = k
    <2>1. s \in [1..n -> M]
        BY <1>1 DEF Surjection
    <2> QED BY <2>1 DEF Injection, IsInjective
<1>4. Cardinality(M) = Cardinality(1..n) <=> s \in Injection(1..n, M)
    <2> HIDE DEF M, n
    <2> QED BY <1>1, <1>2, FS_Surjection
<1> QED BY <1>2, <1>3, <1>4

(* The places of all parent lists. *)
Places(d) == UNION {{<<f, k>> : k \in DOMAIN d[f].parents} : f \in ParsedFiles(d)}

(* There are finitely many places. *)
LEMMA PlacesFinite ==
    ASSUME NEW d \in Dags
    PROVE  IsFiniteSet(Places(d))
<1> DEFINE P == ParsedFiles(d)
           Of(f) == {<<f, k>> : k \in DOMAIN d[f].parents}
           S == {Of(f) : f \in P}
<1>1. IsFiniteSet(P)
    BY InventoryOf
<1>2. IsFiniteSet(S)
    <2>1. PICK g : g = [f \in P |-> Of(f)]
        OBVIOUS
    <2>2. g \in Surjection(P, S)
        BY <2>1 DEF Surjection
    <2> HIDE DEF P, S
    <2> QED BY <2>2, <1>1, FS_Surjection
<1>3. ASSUME NEW f \in P PROVE IsFiniteSet(Of(f))
    <2>1. PICK n \in Nat : DOMAIN d[f].parents = 1..n
        <3>1. d[f].parents \in Seq(Members(d[f].parents))
            BY <1>3, DagAssumption DEF ParsedFiles
        <3> QED BY <3>1
    <2>2. PICK g : g = [k \in 1..n |-> <<f, k>>]
        OBVIOUS
    <2>3. g \in Surjection(1..n, Of(f))
        BY <2>1, <2>2 DEF Surjection
    <2>4. IsFiniteSet(1..n)
        BY FS_Interval
    <2> HIDE DEF Of
    <2> QED BY <2>3, <2>4, FS_Surjection
<1>4. \A T \in S : IsFiniteSet(T)
    BY <1>3
<1>5. IsFiniteSet(UNION S)
    <2> HIDE DEF S
    <2> QED BY <1>2, <1>4, FS_UNION
<1> QED BY <1>5 DEF Places

(* With distinct hashes there is an edge for every place exactly when no list
   repeats a parent. *)
LEMMA EdgeCount ==
    ASSUME NEW d \in Dags,
           \A f, g \in ParsedFiles(d) : d[f].hash = d[g].hash => f = g
    PROVE  Cardinality(BuildEdges(d)) = ParentCount(WriteDagInventory(d))
               <=> \A f \in ParsedFiles(d) : Cardinality(Members(d[f].parents)) = Len(d[f].parents)
<1> DEFINE P == ParsedFiles(d)
           E == BuildEdges(d)
           S == Places(d)
<1>1. ParentCount(WriteDagInventory(d)) = Cardinality(S)
    <2>1. PICK inv : inv = WriteDagInventory(d)
        OBVIOUS
    <2>2. DOMAIN inv.nodes = P /\ \A f \in P : inv.nodes[f] = d[f]
        BY <2>1, InventoryOf
    <2>3. UNION {{<<f, k>> : k \in DOMAIN inv.nodes[f].parents} : f \in DOMAIN inv.nodes} = S
        BY <2>2 DEF Places
    <2>4. ParentCount(inv) = Cardinality(UNION {{<<f, k>> : k \in DOMAIN inv.nodes[f].parents} :
                                                   f \in DOMAIN inv.nodes})
        BY Zenon DEF ParentCount
    <2>5. ParentCount(inv) = Cardinality(S)
        BY <2>3, <2>4, Zenon
    <2> QED BY <2>1, <2>5, Zenon
<1>2. \A x : x \in S <=> \E f \in P : \E k \in DOMAIN d[f].parents : x = <<f, k>>
    BY DEF Places
<1>3. \A e : e \in E <=> \E f \in P : \E k \in DOMAIN d[f].parents : e = <<d[f].parents[k], d[f].hash>>
    BY DEF BuildEdges, Members
<1>4. PICK g : g = [x \in S |-> <<d[x[1]].parents[x[2]], d[x[1]].hash>>]
    OBVIOUS
<1> HIDE DEF S, E
<1>5. \A f \in P : \A k \in DOMAIN d[f].parents :
         <<f, k>> \in S /\ g[<<f, k>>] = <<d[f].parents[k], d[f].hash>>
    BY <1>2, <1>4
<1>6. g \in Surjection(S, E)
    <2>1. \A x \in S : g[x] \in E
        BY <1>2, <1>3, <1>5
    <2>2. g \in [S -> E]
        BY <2>1, <1>4
    <2>3. ASSUME NEW e \in E PROVE \E x \in S : g[x] = e
        <3>1. PICK f \in P : \E k \in DOMAIN d[f].parents : e = <<d[f].parents[k], d[f].hash>>
            BY <2>3, <1>3
        <3>2. PICK k \in DOMAIN d[f].parents : e = <<d[f].parents[k], d[f].hash>>
            BY <3>1
        <3>3. <<f, k>> \in S /\ g[<<f, k>>] = e
            BY <3>1, <3>2, <1>5
        <3> QED BY <3>3
    <2> QED BY <2>2, <2>3 DEF Surjection
<1>7. Cardinality(E) = Cardinality(S) <=> g \in Injection(S, E)
    <2>1. IsFiniteSet(S)
        BY PlacesFinite DEF S
    <2> QED BY <2>1, <1>6, FS_Surjection
<1>8. g \in Injection(S, E) <=> \A x, y \in S : g[x] = g[y] => x = y
    <2>1. g \in [S -> E]
        BY <1>6 DEF Surjection
    <2> QED BY <2>1 DEF Injection, IsInjective
<1>9. (\A x, y \in S : g[x] = g[y] => x = y)
         <=> \A f \in P : \A j, k \in DOMAIN d[f].parents : d[f].parents[j] = d[f].parents[k] => j = k
    <2>1. ASSUME \A x, y \in S : g[x] = g[y] => x = y,
                 NEW f \in P, NEW j \in DOMAIN d[f].parents, NEW k \in DOMAIN d[f].parents,
                 d[f].parents[j] = d[f].parents[k]
          PROVE  j = k
        <3>1. <<f, j>> \in S /\ <<f, k>> \in S /\ g[<<f, j>>] = g[<<f, k>>]
            BY <2>1, <1>5
        <3>2. <<f, j>> = <<f, k>>
            BY <2>1, <3>1
        <3> QED BY <3>2
    <2>2. ASSUME \A f \in P : \A j, k \in DOMAIN d[f].parents :
                    d[f].parents[j] = d[f].parents[k] => j = k,
                 NEW x \in S, NEW y \in S, g[x] = g[y]
          PROVE  x = y
        <3>1. PICK e \in P : \E j \in DOMAIN d[e].parents : x = <<e, j>>
            BY <2>2, <1>2
        <3>2. PICK j \in DOMAIN d[e].parents : x = <<e, j>>
            BY <3>1
        <3>3. PICK f \in P : \E k \in DOMAIN d[f].parents : y = <<f, k>>
            BY <2>2, <1>2
        <3>4. PICK k \in DOMAIN d[f].parents : y = <<f, k>>
            BY <3>3
        <3>5. <<d[e].parents[j], d[e].hash>> = <<d[f].parents[k], d[f].hash>>
            BY <2>2, <3>1, <3>2, <3>3, <3>4, <1>5
        <3>6. e = f
            BY <3>1, <3>3, <3>5
        <3>7. j = k
            BY <2>2, <3>2, <3>3, <3>4, <3>5, <3>6
        <3> QED BY <3>2, <3>4, <3>6, <3>7
    <2> QED BY <2>1, <2>2
<1>10. \A f \in P : Cardinality(Members(d[f].parents)) = Len(d[f].parents)
          <=> \A j, k \in DOMAIN d[f].parents : d[f].parents[j] = d[f].parents[k] => j = k
    <2> SUFFICES ASSUME NEW f \in P
                 PROVE  Cardinality(Members(d[f].parents)) = Len(d[f].parents)
                           <=> \A j, k \in DOMAIN d[f].parents : d[f].parents[j] = d[f].parents[k] => j = k
        OBVIOUS
    <2>1. PICK s : s = d[f].parents
        OBVIOUS
    <2>2. s \in Seq(Members(s))
        BY <2>1, DagAssumption DEF ParsedFiles
    <2> QED BY <2>1, <2>2, NoRepetition
<1> QED BY <1>1, <1>7, <1>8, <1>9, <1>10 DEF E

(* The node with the least number has no parent among the nodes. *)
LEMMA RootExists ==
    ASSUME NEW d \in Dags, ParsedFiles(d) # {},
           \A f, g \in ParsedFiles(d) : d[f].hash = d[g].hash => f = g,
           Acyclic(NodeHashes(d), BuildEdges(d))
    PROVE  BuildDagIndex(d).roots # {}
<1> DEFINE P == ParsedFiles(d)
           H == NodeHashes(d)
<1>1. \A f \in P : d[f].hash \in H
    BY DEF NodeHashes
<1>2. \A f \in P : \A p \in Members(d[f].parents) : <<p, d[f].hash>> \in BuildEdges(d)
    BY DEF BuildEdges
<1>3. \A h \in H : \E f \in P : d[f].hash = h
    BY DEF NodeHashes
<1> HIDE DEF H, P
<1>4. PICK rank \in [H -> 1..Cardinality(H)] : \A e \in BuildEdges(d) : rank[e[1]] < rank[e[2]]
    BY DEF Acyclic, H
<1>5. PICK S : S = {rank[h] : h \in H}
    OBVIOUS
<1>6. S \in SUBSET Nat /\ S # {}
    <2>1. \A h \in H : rank[h] \in Nat
        OBVIOUS
    <2>2. PICK f : f \in P
        BY DEF P
    <2> QED BY <2>1, <2>2, <1>1, <1>5
<1>7. PICK m \in S : \A k \in S : m <= k
    BY <1>6, Least
<1>8. PICK h \in H : m = rank[h]
    BY <1>5, <1>7
<1>9. PICK f \in P : d[f].hash = h
    BY <1>3, <1>8
<1>10. Members(d[f].parents) \cap H = {}
    <2> SUFFICES ASSUME NEW p \in Members(d[f].parents), p \in H PROVE FALSE
        OBVIOUS
    <2>1. <<p, h>> \in BuildEdges(d)
        BY <1>2, <1>9
    <2>2. rank[p] < rank[h]
        BY <2>1, <1>4
    <2>3. rank[p] \in S /\ rank[p] \in Int /\ rank[h] \in Int
        BY <1>5, <1>8
    <2>4. rank[h] <= rank[p]
        BY <2>3, <1>7, <1>8
    <2> QED BY <2>2, <2>3, <2>4
<1>11. d[f].hash \in BuildDagIndex(d).roots
    BY <1>9, <1>10, IndexIs DEF P, H
<1> QED BY <1>11

(* A directory without files has no cycle. *)
LEMMA EmptyRankable ==
    ASSUME NEW inv, InventoryHashes(inv) = {}
    PROVE  Rankable(inv)
<1>1. Ranking(inv, {}, [x \in {} |-> 1])
    BY DEF Ranking
<1> QED BY <1>1 DEF Rankable

(* The files that are counted on disk are all there are. *)
LEMMA FilesCounted ==
    ASSUME NEW d \in Dags, NEW N, N = {f \in DOMAIN d : d[f].ext = "edn"}
    PROVE  /\ Cardinality(DOMAIN d) = Cardinality(N) <=> \A f \in DOMAIN d : d[f].ext = "edn"
           /\ Cardinality(N) > 0 <=> N # {}
<1>1. IsFiniteSet(DOMAIN d) /\ N \in SUBSET DOMAIN d
    BY DagAssumption
<1>2. IsFiniteSet(N) /\ (Cardinality(DOMAIN d) = Cardinality(N) => DOMAIN d = N)
    BY <1>1, FS_Subset
<1>3. Cardinality(N) \in Nat
    BY <1>2, FS_CardinalityType
<1>4. Cardinality(N) = 0 <=> N = {}
    BY <1>2, FS_EmptySet
<1>5. (\A f \in DOMAIN d : d[f].ext = "edn") <=> DOMAIN d = N
    OBVIOUS
<1> QED BY <1>2, <1>3, <1>4, <1>5

(* The checks of validate_evidence_dag_inventory find exactly the directories
   that are no well-formed evidence DAG, when the search was right. *)
LEMMA DagErrors ==
    ASSUME NEW d \in Dags, NEW refs, NEW cycles,
           cycles <=> ~Rankable(WriteDagInventory(d))
    PROVE  ValidateEvidenceDagInventory(WriteDagInventory(d), refs,
                                        Cardinality({f \in DOMAIN d : d[f].ext = "edn"}), cycles) = {}
               <=> WellFormedDag(d, refs)
<1> DEFINE inv == WriteDagInventory(d)
           P == ParsedFiles(d)
           H == NodeHashes(d)
           N == {f \in DOMAIN d : d[f].ext = "edn"}
           distinct == \A f, g \in P : d[f].hash = d[g].hash => f = g
           resolved == \A f \in P : Members(d[f].parents) \subseteq H
           once == \A f \in P : Cardinality(Members(d[f].parents)) = Len(d[f].parents)
           edn == \A f \in DOMAIN d : d[f].ext = "edn"
           acyclic == Acyclic(H, BuildEdges(d))
<1>1. /\ DOMAIN inv.nodes = P /\ \A f \in P : inv.nodes[f] = d[f]
      /\ InventoryHashes(inv) = H /\ inv.edges = BuildEdges(d)
      /\ inv.index = BuildDagIndex(d) /\ inv.fileCount = Cardinality(DOMAIN d)
      /\ inv.semantic = "inventory-only" <=> P = {}
    BY InventoryOf
<1>2. H = {} <=> P = {}
    BY DEF NodeHashes
<1>3. \A f \in P : \A p \in Members(d[f].parents) : <<p, d[f].hash>> \in BuildEdges(d)
    BY DEF BuildEdges
<1>4. Cardinality(DOMAIN d) = Cardinality(N) <=> edn
    BY FilesCounted
<1>5. Cardinality(N) > 0 <=> N # {}
    BY FilesCounted
<1>6. ASSUME edn PROVE N = DOMAIN d
    BY <1>6
<1>7. distinct => (Cardinality(BuildEdges(d)) = ParentCount(inv) <=> once)
    BY EdgeCount
<1>8. resolved => (acyclic <=> Rankable(inv))
    BY AcyclicIsRankable
<1>9. (H # {} /\ cycles) <=> ~Rankable(inv)
    BY <1>1, EmptyRankable
<1>10. distinct /\ P # {} /\ acyclic => BuildDagIndex(d).roots # {}
    BY RootExists
<1>11. ASSUME distinct
       PROVE  /\ BuildDagIndex(d).nodeCount = Cardinality(P)
              /\ resolved => BuildDagIndex(d).orphans = {}
    <2>1. \A h \in H : \E f \in P : d[f].hash = h
        BY DEF NodeHashes
    <2>2. /\ BuildDagIndex(d).nodeCount = Cardinality(P)
          /\ \A f \in P : d[f].hash \in BuildDagIndex(d).orphans <=> ~(Members(d[f].parents) \subseteq H)
          /\ BuildDagIndex(d).orphans \subseteq H
        BY <1>11, IndexIs
    <2> QED BY <2>1, <2>2
<1>12. distinct <=> \A f, g \in DOMAIN inv.nodes : inv.nodes[f].hash = inv.nodes[g].hash => f = g
    BY <1>1
<1>13. resolved <=> \A f \in DOMAIN inv.nodes : Members(inv.nodes[f].parents) \subseteq InventoryHashes(inv)
    BY <1>1
<1>14. \A f \in DOMAIN inv.nodes : \A p \in Members(inv.nodes[f].parents) :
          <<p, inv.nodes[f].hash>> \in inv.edges
    BY <1>1, <1>3
<1>15. P # {} => DOMAIN d # {}
    BY DEF ParsedFiles
<1>16. Clean(inv, refs, Cardinality(N), cycles) <=>
          /\ ~(P = {} /\ N # {}) /\ edn /\ distinct /\ Rankable(inv) /\ resolved
          /\ Cardinality(BuildEdges(d)) = ParentCount(inv)
          /\ refs # {} => refs \cap H # {}
          /\ refs = {} => P = {}
          /\ P # {} => BuildDagIndex(d).nodeCount = Cardinality(P)
          /\ P # {} => BuildDagIndex(d).roots # {}
          /\ P # {} => BuildDagIndex(d).orphans = {}
    <2>1. Clean(inv, refs, Cardinality(N), cycles) <=>
          /\ ~(inv.semantic = "inventory-only" /\ Cardinality(N) > 0)
          /\ inv.fileCount = Cardinality(N) /\ distinct
          /\ ~(InventoryHashes(inv) # {} /\ cycles)
          /\ resolved
          /\ Cardinality(inv.edges) = ParentCount(inv)
          /\ refs # {} => refs \cap InventoryHashes(inv) # {}
          /\ refs = {} => DOMAIN inv.nodes = {}
          /\ DOMAIN inv.nodes # {} => inv.index.nodeCount = Cardinality(DOMAIN inv.nodes)
          /\ DOMAIN inv.nodes # {} => inv.index.roots # {}
          /\ DOMAIN inv.nodes # {} => inv.index.orphans = {}
        <3> HIDE DEF inv, N, distinct, resolved
        <3> QED BY <1>12, <1>13, <1>14, Zenon DEF Clean
    <2> HIDE DEF inv, N, distinct, resolved, edn, P, H
    <2> QED BY <2>1, <1>1, <1>4, <1>5, <1>9
<1>17. WellFormedDag(d, refs) <=>
          /\ edn /\ distinct /\ resolved /\ once /\ acyclic
          /\ P = {} => DOMAIN d = {} /\ refs = {}
          /\ P # {} => refs \cap H # {}
    BY DEF WellFormedDag
<1> HIDE DEF inv, N, distinct, resolved, edn, P, H, once, acyclic
<1>18. Clean(inv, refs, Cardinality(N), cycles) <=> WellFormedDag(d, refs)
    BY <1>2, <1>6, <1>7, <1>8, <1>10, <1>11, <1>15, <1>16, <1>17
<1> QED BY <1>18, NoErrors DEF inv, N

------------------------------------------------------------------------------
(* An untouched bundle.                                                       *)

(* A bundle as run.py sealed it, with the directory and the history that it is
   about. *)
HonestBundle ==
    /\ bundle.present = RequiredFiles \cup RequiredDirs
                           \cup {"evidence-dag-inventory", "anchor-cursor", "results-summary"}
                           \cup (IF bundle.anchor = "rfc3161" THEN {"registry.tsr"} ELSE {})
    /\ bundle.root = Sealed("original") /\ bundle.overview = Sealed("original")
    /\ bundle.rootParses /\ bundle.resultsParse /\ bundle.preflight = "pass"
    /\ bundle.claims = <<[file |-> Sealed("original"), known |-> TRUE]>>
    /\ bundle.attestations = <<[file |-> Sealed("original"), known |-> TRUE]>>
    /\ bundle.inventory = WriteDagInventory(dag)
    /\ bundle.descriptor \in Descriptors
    /\ bundle.protocol = Export

(* A check that does not keep a report from passing. *)
Harmless(c) == c # Check("fail", "required") /\ c.status # "warning"

(* VerifyReport.aggregate: a report passes when all its checks are harmless. *)
LEMMA AggregateHarmless ==
    ASSUME NEW checks
    PROVE  Aggregate(checks) = "pass" <=> \A c \in checks : Harmless(c)
BY DEF Aggregate, Harmless

(* Which checks are harmless. *)
LEMMA PlainChecks ==
    /\ \A sev : Harmless(Check("pass", sev)) /\ Harmless(Check("info", sev))
                /\ Harmless(Check("warn", sev)) /\ Harmless(Check("not-verified", sev))
    /\ ~Harmless(Check("fail", "required"))
    /\ \A ok \in BOOLEAN : Harmless(RequiredCheck(ok)) <=> ok
BY DEF Harmless, Check, RequiredCheck

(* What the dispatcher of validate.py may return. *)
LEMMA ProtocolStatus ==
    ASSUME NEW descriptor \in Descriptors, NEW x
    PROVE  ValidateProtocolBundle(descriptor, x) \in {"not-verified", "fail", "error", "pass"}
BY DEF ValidateProtocolBundle, Descriptors, SewStatus

(* With the default options only the evidence DAG and the protocol part of an
   untouched bundle can fail. *)
LEMMA HonestReport ==
    ASSUME HonestBundle, NEW cycles
    PROVE  Aggregate(VerifyRun(bundle, NoOptions, cycles)) = "pass" <=>
              /\ ValidateEvidenceDagInventory(bundle.inventory, RootRefs(bundle),
                                              Cardinality(EdnFiles), cycles) = {}
              /\ ValidateProtocolBundle(bundle.descriptor, bundle.protocol) \notin {"fail", "error"}
<1> DEFINE errors == ValidateEvidenceDagInventory(bundle.inventory, RootRefs(bundle),
                                                  Cardinality(EdnFiles), cycles)
           status == ValidateProtocolBundle(bundle.descriptor, bundle.protocol)
<1>1. \A e \in RequiredFiles \cup RequiredDirs \cup {"evidence-dag-inventory", "anchor-cursor", "results-summary"} :
         Has(bundle, e)
    BY DEF HonestBundle, Has
<1>2. /\ Has(bundle, "run-bundle-root") /\ Has(bundle, "run-overview") /\ Has(bundle, "preflight-report")
      /\ Has(bundle, "evidence-dag") /\ Has(bundle, "claims") /\ Has(bundle, "attestations")
      /\ Has(bundle, "anchors") /\ Has(bundle, "evidence-dag-inventory") /\ Has(bundle, "anchor-cursor")
      /\ Has(bundle, "results-summary")
      /\ bundle.anchor = "rfc3161" => Has(bundle, "registry.tsr")
    BY <1>1 DEF RequiredFiles, RequiredDirs, HonestBundle, Has
<1>3. ReadableRoot(bundle)
    BY <1>2 DEF ReadableRoot, HonestBundle
<1>4. \A c \in CheckExists(bundle) \cup CheckDirExists(bundle) : Harmless(c)
    <2>1. \A c \in CheckExists(bundle) \cup CheckDirExists(bundle) : c = RequiredCheck(TRUE)
        <3>1. \A e : Has(bundle, e) \in BOOLEAN
            BY DEF Has
        <3>2. \A e \in RequiredFiles \cup RequiredDirs : Has(bundle, e) = TRUE
            BY <1>1, <3>1
        <3> QED BY <3>2 DEF CheckExists, CheckDirExists
    <2> QED BY <2>1, PlainChecks
<1>5. /\ Harmless(CheckBundleRootValid(bundle)) /\ Harmless(CheckOverviewValid(bundle))
      /\ Harmless(CheckPreflightValid(bundle))
    BY <1>2, <1>3, PlainChecks DEF CheckBundleRootValid, CheckOverviewValid, CheckPreflightValid,
       HonestBundle, RequiredCheck
<1>6. /\ Harmless(CheckBundleRootHash(bundle)) /\ Harmless(CheckOverviewHash(bundle))
    BY <1>2, <1>3, PlainChecks DEF CheckBundleRootHash, CheckOverviewHash, CheckHash, Sealed, HonestBundle
<1>7. /\ Harmless(CheckBundleSignature(bundle, NoOptions)) /\ Harmless(CheckResultsSummary(bundle))
      /\ Harmless(CheckMechanismPersistenceArtifacts(bundle)) /\ Harmless(CheckNoExtraDirs(bundle))
      /\ Harmless(CheckAnchorContent(bundle))
    BY <1>2, <1>3, PlainChecks DEF CheckBundleSignature, CheckResultsSummary,
       CheckMechanismPersistenceArtifacts, CheckNoExtraDirs, CheckAnchorContent, HonestBundle, NoOptions
<1>8. \A c \in CheckClaimsContent(bundle) : Harmless(c)
    <2>1. PICK e, s : e = [file |-> Sealed("original"), known |-> TRUE] /\ s = <<e>> /\ s = bundle.claims
        BY DEF HonestBundle
    <2>2. DOMAIN bundle.claims = {1} /\ bundle.claims[1] = e
        <3>1. DOMAIN s = {1} /\ s[1] = e
            BY <2>1
        <3> QED BY <2>1, <3>1
    <2>3. CheckClaimFile(e) = Check("pass", "required")
        BY <2>1 DEF CheckClaimFile, Sealed
    <2>4. {CheckClaimFile(bundle.claims[k]) : k \in DOMAIN bundle.claims} = {Check("pass", "required")}
        BY <2>2, <2>3
    <2>5. CheckClaimsContent(bundle) = {Check("pass", "required")}
        BY <2>4, <1>2 DEF CheckClaimsContent, CheckContent
    <2> QED BY <2>5, PlainChecks
<1>9. \A c \in CheckAttestationsContent(bundle) : Harmless(c)
    <2>1. PICK e, s : e = [file |-> Sealed("original"), known |-> TRUE] /\ s = <<e>> /\ s = bundle.attestations
        BY DEF HonestBundle
    <2>2. DOMAIN bundle.attestations = {1} /\ bundle.attestations[1] = e
        <3>1. DOMAIN s = {1} /\ s[1] = e
            BY <2>1
        <3> QED BY <2>1, <3>1
    <2>3. CheckAttestationFile(e) = Check("pass", "required")
        BY <2>1 DEF CheckAttestationFile, Sealed, RequiredCheck
    <2>4. {CheckAttestationFile(bundle.attestations[k]) : k \in DOMAIN bundle.attestations} = {Check("pass", "required")}
        BY <2>2, <2>3
    <2>5. CheckAttestationsContent(bundle) = {Check("pass", "required")}
        BY <2>4, <1>2 DEF CheckAttestationsContent, CheckContent
    <2> QED BY <2>5, PlainChecks
<1>10. Harmless(CheckEvidenceDag(bundle, cycles)) <=> errors = {}
    <2>1. CheckEvidenceDag(bundle, cycles) = RequiredCheck(errors = {})
        BY <1>2 DEF CheckEvidenceDag
    <2> QED BY <2>1, PlainChecks
<1>11. (\A c \in CheckProtocolSemantics(bundle, NoOptions) : Harmless(c)) <=> status \notin {"fail", "error"}
    <2>1. status \in {"not-verified", "fail", "error", "pass"}
        BY ProtocolStatus DEF HonestBundle
    <2>2. CheckProtocolSemantics(bundle, NoOptions) =
             {IF status \in {"fail", "error"} THEN Check("fail", "required") ELSE Check(status, "info")}
             \cup (IF status = "pass" /\ LifecycleWarns(bundle.protocol) THEN {Check("warn", "warning")} ELSE {})
        <3> HIDE DEF status
        <3>1. bundle.rootParses /\ NoOptions.require = FALSE /\ NoOptions.expected = "none"
            BY DEF HonestBundle, NoOptions
        <3>2. CheckProtocolSemantics(bundle, NoOptions) =
             {IF status \in {"fail", "error"} \/ (status = "not-verified" /\ NoOptions.require)
              THEN Check("fail", "required") ELSE Check(status, "info")}
             \cup {}
             \cup (IF status = "pass" /\ LifecycleWarns(bundle.protocol) THEN {Check("warn", "warning")} ELSE {})
            BY <3>1, <1>2 DEF CheckProtocolSemantics, status
        <3> QED BY <3>1, <3>2
    <2> HIDE DEF status
    <2> QED BY <2>1, <2>2, PlainChecks
<1> HIDE DEF errors, status
<1>12. (\A c \in VerifyRun(bundle, NoOptions, cycles) : Harmless(c)) <=> errors = {} /\ status \notin {"fail", "error"}
    BY <1>4, <1>5, <1>6, <1>7, <1>8, <1>9, <1>10, <1>11, Zenon DEF VerifyRun
<1> QED BY <1>12, AggregateHarmless DEF errors, status

(* An untouched bundle: it is searched in full before it is reported on. *)
UntouchedInv ==
    /\ phase \in {"history", "sealed", "searching", "reported"}
    /\ dag \in Dags
    /\ fault = "none" =>
          /\ phase # "history" => HonestBundle
          /\ phase \in {"searching", "reported"} => SearchOK(bundle.inventory)
          /\ phase = "reported" =>
                \/ report = "exception" /\ SearchOverflows
                \/ report = Aggregate(VerifyRun(bundle, options, cyclic)) /\ SearchDone

(* run.py seals what HonestBundle describes. *)
LEMMA SealHonest ==
    ASSUME Seal
    PROVE  HonestBundle'
<1>1. PICK ref \in Refs, signed \in BOOLEAN, tsa \in BOOLEAN, descriptor \in Descriptors :
         bundle' = SealBundle(ref, signed, tsa, descriptor)
    BY DEF Seal
<1>2. PICK e, s : e = Sealed("original") /\ s = <<[file |-> Sealed("original"), known |-> TRUE]>>
    OBVIOUS
<1>3. PICK v : v = WriteDagInventory(dag)'
    OBVIOUS
<1>4. PICK x : x = Export
    OBVIOUS
<1>5. PICK extra : extra = IF tsa THEN {"registry.tsr"} ELSE {}
    OBVIOUS
<1>6. PICK base : base = RequiredFiles \cup RequiredDirs
                           \cup {"evidence-dag-inventory", "anchor-cursor", "results-summary"}
    OBVIOUS
<1>7. bundle' = [present |-> base \cup extra, root |-> e, rootParses |-> TRUE,
                 signature |-> SignBundleHash(signed), overview |-> e, preflight |-> "pass",
                 resultsParse |-> TRUE, claims |-> s, attestations |-> s,
                 anchor |-> IF tsa THEN "rfc3161" ELSE "local-proof",
                 inventory |-> v, ref |-> ref, descriptor |-> descriptor, protocol |-> x]
    BY <1>1, <1>2, <1>3, <1>4, <1>5, <1>6 DEF SealBundle
<1>8. /\ bundle'.present = base \cup extra /\ bundle'.root = e /\ bundle'.overview = e
      /\ bundle'.rootParses /\ bundle'.resultsParse /\ bundle'.preflight = "pass"
      /\ bundle'.claims = s /\ bundle'.attestations = s
      /\ bundle'.anchor = (IF tsa THEN "rfc3161" ELSE "local-proof")
      /\ bundle'.inventory = v /\ bundle'.descriptor = descriptor /\ bundle'.protocol = x
    BY <1>7
<1>9. extra = (IF bundle'.anchor = "rfc3161" THEN {"registry.tsr"} ELSE {})
    BY <1>5, <1>8
<1>10. Export' = x
    <2>1. UNCHANGED historyVars
        BY DEF Seal
    <2> QED BY <2>1, <1>4 DEF historyVars, Export, Witness, StateHashes, Granted
<1>11. RequiredFiles' = RequiredFiles /\ RequiredDirs' = RequiredDirs /\ Sealed("original")' = e
       /\ Descriptors' = Descriptors
    BY <1>2 DEF RequiredFiles, RequiredDirs, Sealed, Descriptors
<1>12. bundle'.descriptor \in Descriptors
    BY <1>8
<1> QED BY <1>2, <1>3, <1>6, <1>8, <1>9, <1>10, <1>11, <1>12, Zenon DEF HonestBundle

(* Nothing that HonestBundle speaks of changes. *)
LEMMA HonestKept ==
    ASSUME HonestBundle, UNCHANGED <<bundle, dag, record, pending, consumed, events>>
    PROVE  HonestBundle'
<1>1. Export' = Export
    BY DEF Export, Witness, StateHashes, Granted
<1> QED BY <1>1 DEF HonestBundle

(* The state of the search is part of what SearchOK speaks of, and all of it. *)
LEMMA SearchKept ==
    ASSUME NEW inv, SearchOK(inv), UNCHANGED searchVars
    PROVE  SearchOK(inv)'
<1>1. colour' = colour /\ stack' = stack /\ cyclic' = cyclic
    BY DEF searchVars
<1> QED BY <1>1 DEF SearchOK, StackOK, LookedAt, Black, Rankable, Ranking, FrameType

(* An untouched bundle stays what it was, and the search goes on as SearchOK
   says. *)
LEMMA NextUntouched == UntouchedInv /\ [Next]_vars => UntouchedInv'
<1> SUFFICES ASSUME UntouchedInv, [Next]_vars PROVE UntouchedInv'
    OBVIOUS
<1>1. CASE Extend
    <2>1. phase = "history" /\ phase' = phase /\ dag' = dag
        BY <1>1 DEF Extend, bundleVars
    <2> QED BY <2>1 DEF UntouchedInv
<1>2. CASE Seal
    <2>1. phase' = "sealed" /\ dag' \in Dags
        BY <1>2 DEF Seal
    <2> QED BY <2>1, <1>2, SealHonest DEF UntouchedInv
<1>3. CASE Lose \/ Stray \/ ChangeRoot \/ ChangeReports \/ ChangeRecords \/ ChangeProtocol
    <2>1. phase' = phase /\ dag' = dag /\ fault' # "none"
        BY <1>3 DEF Lose, Stray, ChangeRoot, ChangeReports, ChangeRecords, ChangeProtocol, Damage
    <2> QED BY <2>1 DEF UntouchedInv
<1>4. CASE Begin
    <2>1. /\ phase = "sealed" /\ phase' = "searching" /\ fault' = fault
          /\ UNCHANGED <<bundle, dag, record, pending, consumed, events>>
        BY <1>4 DEF Begin, historyVars
    <2>2. ASSUME fault = "none" PROVE HonestBundle' /\ SearchOK(bundle.inventory)'
        <3>1. HonestBundle
            BY <2>1, <2>2 DEF UntouchedInv
        <3>2. HonestBundle'
            BY <2>1, <3>1, HonestKept
        <3>3. PICK inv : inv = bundle.inventory
            OBVIOUS
        <3>4. SearchStart(inv)
            <4>1. Has(bundle, "evidence-dag") /\ Has(bundle, "evidence-dag-inventory")
                BY <3>1 DEF HonestBundle, Has, RequiredDirs
            <4> QED BY <4>1, <3>3, <1>4 DEF Begin
        <3>5. IsFiniteSet(InventoryHashes(inv))
            BY <3>1, <3>3, InventoryOf DEF HonestBundle, UntouchedInv
        <3>6. SearchOK(inv)'
            BY <3>4, <3>5, SearchBegins
        <3>7. inv = bundle'.inventory
            BY <2>1, <3>3
        <3> QED BY <3>2, <3>6, <3>7
    <2> QED BY <2>1, <2>2 DEF UntouchedInv
<1>5. CASE Search
    <2>1. /\ phase = "searching" /\ phase' = "searching" /\ fault' = fault
          /\ UNCHANGED <<bundle, dag, record, pending, consumed, events>>
        BY <1>5 DEF Search, historyVars, bundleVars
    <2>2. ASSUME fault = "none" PROVE HonestBundle' /\ SearchOK(bundle.inventory)'
        <3>1. HonestBundle /\ SearchOK(bundle.inventory)
            BY <2>1, <2>2 DEF UntouchedInv
        <3>2. PICK inv : inv = bundle.inventory
            OBVIOUS
        <3>3. SearchOK(inv) /\ (SearchRoot(inv) \/ SearchEdge(inv) \/ SearchReturn)
            BY <3>1, <3>2, <1>5 DEF Search
        <3>4. SearchOK(inv)'
            BY <3>3, SearchRootKeeps, SearchEdgeKeeps, SearchReturnKeeps
        <3>5. inv = bundle'.inventory
            BY <2>1, <3>2
        <3> QED BY <3>1, <3>4, <3>5, <2>1, HonestKept
    <2> QED BY <2>1, <2>2 DEF UntouchedInv
<1>6. CASE Overflow \/ Report
    <2>1. /\ phase = "searching" /\ phase' = "reported" /\ fault' = fault /\ options' = options
          /\ UNCHANGED <<bundle, dag, record, pending, consumed, events>>
          /\ UNCHANGED searchVars
        BY <1>6 DEF Overflow, Report, historyVars, bundleVars
    <2>2. ASSUME fault = "none" PROVE HonestBundle' /\ SearchOK(bundle.inventory)'
        <3>1. HonestBundle /\ SearchOK(bundle.inventory)
            BY <2>1, <2>2 DEF UntouchedInv
        <3>2. PICK inv : inv = bundle.inventory
            OBVIOUS
        <3>3. SearchOK(inv)'
            BY <2>1, <3>1, <3>2, SearchKept
        <3>4. inv = bundle'.inventory
            BY <2>1, <3>2
        <3> QED BY <3>1, <3>3, <3>4, <2>1, HonestKept
    <2>3. \/ report' = "exception" /\ SearchOverflows'
          \/ report' = Aggregate(VerifyRun(bundle, options, cyclic)) /\ SearchDone'
        BY <1>6, <2>1 DEF Overflow, Report, searchVars, SearchOverflows, SearchDone
    <2>4. Aggregate(VerifyRun(bundle, options, cyclic))' = Aggregate(VerifyRun(bundle, options, cyclic))
        BY <2>1 DEF searchVars, VerifyRun, CheckEvidenceDag, EdnFiles
    <2> QED BY <2>1, <2>2, <2>3, <2>4 DEF UntouchedInv
<1>7. CASE Done \/ UNCHANGED vars
    <2>1. /\ UNCHANGED <<phase, fault, options, report, bundle, dag, record, pending, consumed, events>>
          /\ UNCHANGED searchVars
        BY <1>7 DEF Done, vars, historyVars, bundleVars
    <2>2. ASSUME fault = "none", phase \in {"searching", "reported"} PROVE SearchOK(bundle.inventory)'
        <3>1. SearchOK(bundle.inventory)
            BY <2>2 DEF UntouchedInv
        <3>2. PICK inv : inv = bundle.inventory
            OBVIOUS
        <3>3. SearchOK(inv)'
            BY <2>1, <3>1, <3>2, SearchKept
        <3>4. inv = bundle'.inventory
            BY <2>1, <3>2
        <3> QED BY <3>3, <3>4
    <2>3. HonestBundle => HonestBundle'
        BY <2>1, HonestKept
    <2>4. (SearchOverflows' <=> SearchOverflows) /\ (SearchDone' <=> SearchDone)
        BY <2>1 DEF searchVars, SearchOverflows, SearchDone
    <2>5. Aggregate(VerifyRun(bundle, options, cyclic))' = Aggregate(VerifyRun(bundle, options, cyclic))
        BY <2>1 DEF searchVars, VerifyRun, CheckEvidenceDag, EdnFiles
    <2> QED BY <2>1, <2>2, <2>3, <2>4, <2>5 DEF UntouchedInv
<1> QED BY <1>1, <1>2, <1>3, <1>4, <1>5, <1>6, <1>7 DEF Next

(* The search over an untouched bundle is right at every step, and the report is
   made when it is over (verify_run). *)
THEOREM UntouchedInvariant == Spec => []UntouchedInv
<1>1. Init => UntouchedInv
    BY BundleAssumption DEF Init, UntouchedInv
<1> QED BY <1>1, NextUntouched, PTL DEF Spec

(* What an untouched bundle is reported as, with the default options. *)
LEMMA UntouchedReport ==
    ASSUME UntouchedInv, phase = "reported", fault = "none", options = NoOptions
    PROVE  /\ report = "exception" => HasLongPath(dag)
           /\ report # "exception" =>
                 (report = "pass" <=>
                     /\ WellFormedDag(dag, RootRefs(bundle))
                     /\ ValidateProtocolBundle(bundle.descriptor, Export) \notin {"fail", "error"})
<1>1. HonestBundle /\ SearchOK(bundle.inventory) /\ dag \in Dags
    BY DEF UntouchedInv
<1>2. PICK inv : inv = WriteDagInventory(dag)
    OBVIOUS
<1>3. bundle.inventory = inv /\ bundle.protocol = Export
    BY <1>1, <1>2 DEF HonestBundle
<1>4. ASSUME report = "exception" PROVE HasLongPath(dag)
    <2>1. \A checks : Aggregate(checks) # "exception"
        BY DEF Aggregate
    <2>2. SearchOverflows
        BY <1>4, <2>1 DEF UntouchedInv
    <2>3. InventoryHashes(inv) = NodeHashes(dag) /\ inv.edges = BuildEdges(dag)
        BY <1>1, <1>2, InventoryOf
    <2>4. SearchOK(inv)
        BY <1>1, <1>3
    <2> QED BY <2>2, <2>3, <2>4, OverflowPath
<1>5. ASSUME report # "exception"
      PROVE  report = "pass" <=>
                /\ WellFormedDag(dag, RootRefs(bundle))
                /\ ValidateProtocolBundle(bundle.descriptor, Export) \notin {"fail", "error"}
    <2>1. report = Aggregate(VerifyRun(bundle, NoOptions, cyclic)) /\ SearchDone
        BY <1>5 DEF UntouchedInv
    <2>2. cyclic <=> ~Rankable(inv)
        BY <2>1, <1>1, <1>3, SearchExact
    <2>3. ValidateEvidenceDagInventory(inv, RootRefs(bundle), Cardinality(EdnFiles), cyclic) = {}
              <=> WellFormedDag(dag, RootRefs(bundle))
        BY <2>2, <1>1, <1>2, DagErrors DEF EdnFiles
    <2> QED BY <2>1, <2>3, <1>1, <1>3, HonestReport
<1> QED BY <1>4, <1>5

(* The evidence-DAG check accepts exactly the well-formed directories, in
   whatever order the search visits the nodes, and dies only on a path longer
   than the interpreter's stack (validate_evidence_dag_inventory). *)
THEOREM DagVerdictHolds == Spec => []DagVerdict
<1>1. UntouchedInv => DagVerdict
    <2> SUFFICES ASSUME UntouchedInv, phase = "reported", fault = "none",
                        bundle.descriptor = "absent", options = NoOptions
                 PROVE  /\ report = "exception" => HasLongPath(dag)
                        /\ report # "exception" => (report = "pass" <=> WellFormedDag(dag, RootRefs(bundle)))
        BY DEF DagVerdict
    <2>1. ValidateProtocolBundle(bundle.descriptor, Export) = "not-verified"
        BY DEF ValidateProtocolBundle
    <2> QED BY <2>1, UntouchedReport
<1> QED BY <1>1, UntouchedInvariant, PTL

------------------------------------------------------------------------------
(* The protocol history of an untouched bundle.                               *)

(* A record of the protocol state. *)
RecordType == [status : Statuses, consumed : BOOLEAN]

(* An event of one kind about one authorisation, and that there is one. *)
IsEvent(e, type, s, i) == e.type = type /\ e.scenario = s /\ e.id = i

Told(type, s, i) == \E k \in 1..Len(events) : IsEvent(events[k], type, s, i)

(* Only what was granted, and granted once, is spoken of afterwards. *)
GrantedFirst ==
    \A k \in 1..Len(events) :
        /\ record[events[k].scenario][events[k].id].status # "none"
        /\ \E j \in 1..k : IsEvent(events[j], "granted", events[k].scenario, events[k].id)
GrantedOnce ==
    \A s \in Scenarios, i \in Ids : \A j, k \in 1..Len(events) :
        IsEvent(events[j], "granted", s, i) /\ IsEvent(events[k], "granted", s, i) => j = k

(* The records and the events agree on grants and revocations. *)
RecordsTold ==
    \A s \in Scenarios, i \in Ids :
        /\ record[s][i].status # "none" => Told("granted", s, i)
        /\ record[s][i].status = "revoked" <=> Told("revoked", s, i)

(* Only what was executed is consumed, and a consumed record is so entirely. *)
ExecutedTold ==
    \A s \in Scenarios, i \in Ids, c \in Claims :
        <<s, i, c>> \in pending \cup consumed => c \in CoveredClaims(i) /\ Told("executed", s, i)
ConsumedWhole ==
    \A s \in Scenarios, i \in Ids :
        /\ record[s][i].status = "consumed" =>
              record[s][i].consumed /\ \A c \in CoveredClaims(i) : <<s, i, c>> \in consumed
        /\ record[s][i].status \in {"none", "active"} => ~record[s][i].consumed

HistoryType ==
    /\ events \in Seq(EventType)
    /\ record \in [Scenarios -> [Ids -> RecordType]]
    /\ pending \subseteq Scenarios \X Ids \X Claims
    /\ consumed \subseteq Scenarios \X Ids \X Claims

(* The inductive invariant of the history. *)
HistoryInv ==
    HistoryType /\ GrantedFirst /\ GrantedOnce /\ RecordsTold /\ ExecutedTold /\ ConsumedWhole

(* An authorisation covers some of the claims. *)
LEMMA CoveredAreClaims == \A i : CoveredClaims(i) \subseteq Claims /\ CoveredClaims(i) # {}
BY ForceAuthAssumption DEF CoveredClaims

(* One more event in the list. *)
LEMMA Emitted ==
    ASSUME HistoryType, NEW type \in {"granted", "executed", "revoked"}, NEW s \in Scenarios, NEW i \in Ids,
           Emit(type, s, i)
    PROVE  /\ events' \in Seq(EventType)
           /\ Len(events) \in Nat /\ Len(events') = Len(events) + 1
           /\ IsEvent(events'[Len(events) + 1], type, s, i)
           /\ \A k \in 1..Len(events) : events'[k] = events[k]
           /\ \A k \in 1..Len(events) + 1 : k = Len(events) + 1 \/ k \in 1..Len(events)
           /\ \A k \in 1..Len(events) : k \in 1..Len(events) + 1 /\ events[k] \in EventType
           /\ Len(events) + 1 \in 1..Len(events) + 1
<1>1. PICK e : e = Event(type, s, i)
    OBVIOUS
<1>2. e \in EventType /\ IsEvent(e, type, s, i)
    BY <1>1 DEF Event, EventType, IsEvent
<1>3. events \in Seq(EventType) /\ events' = Append(events, e)
    BY <1>1 DEF Emit, HistoryType
<1>4. PICK n \in Nat : n = Len(events)
    BY <1>3
<1>5. /\ events' \in Seq(EventType) /\ Len(events') = n + 1 /\ events'[n + 1] = e
      /\ \A k \in 1..n : events'[k] = events[k]
    BY <1>2, <1>3, <1>4
<1>6. \A k \in 1..n : events[k] \in EventType
    BY <1>3, <1>4, ElementOfSeq
<1>7. /\ \A k \in 1..n + 1 : k = n + 1 \/ k \in 1..n
      /\ \A k \in 1..n : k \in 1..n + 1
      /\ n + 1 \in 1..n + 1
    BY <1>4
<1> QED BY <1>2, <1>4, <1>5, <1>6, <1>7

(* What was told stays told, and one event is added. *)
LEMMA ToldAfter ==
    ASSUME HistoryType, NEW type \in {"granted", "executed", "revoked"}, NEW s \in Scenarios, NEW i \in Ids,
           Emit(type, s, i)
    PROVE  \A ty, t, j : Told(ty, t, j)' <=> Told(ty, t, j) \/ (ty = type /\ t = s /\ j = i)
<1>1. PICK n, ev : n = Len(events) /\ ev = events'
    OBVIOUS
<1>2. /\ Len(ev) = n + 1 /\ IsEvent(ev[n + 1], type, s, i)
      /\ \A k \in 1..n : ev[k] = events[k]
      /\ \A k \in 1..n + 1 : k = n + 1 \/ k \in 1..n
      /\ \A k \in 1..n : k \in 1..n + 1
      /\ n + 1 \in 1..n + 1
    BY <1>1, Emitted
<1>3. \A ty, t, j : Told(ty, t, j) <=> \E k \in 1..n : IsEvent(events[k], ty, t, j)
    BY <1>1 DEF Told
<1>4. \A ty, t, j : Told(ty, t, j)' <=> \E k \in 1..n + 1 : IsEvent(ev[k], ty, t, j)
    BY <1>1, <1>2 DEF Told, IsEvent
<1> QED BY <1>2, <1>3, <1>4 DEF IsEvent

(* An event about an authorisation that is known. *)
LEMMA EmitKeepsOrder ==
    ASSUME HistoryInv, NEW type \in {"granted", "executed", "revoked"}, NEW s \in Scenarios, NEW i \in Ids,
           Emit(type, s, i),
           type = "granted" => record[s][i].status = "none",
           type # "granted" => record[s][i].status # "none",
           record'[s][i].status # "none",
           \A t \in Scenarios, j \in Ids : record[t][j].status # "none" => record'[t][j].status # "none"
    PROVE  GrantedFirst' /\ GrantedOnce'
<1> USE DEF HistoryInv
<1>1. PICK n, ev, rec : n = Len(events) /\ ev = events' /\ rec = record'
    OBVIOUS
<1>2. /\ n \in Nat /\ Len(ev) = n + 1 /\ IsEvent(ev[n + 1], type, s, i)
      /\ \A k \in 1..n : ev[k] = events[k]
      /\ \A k \in 1..n + 1 : k = n + 1 \/ k \in 1..n
      /\ \A k \in 1..n : k \in 1..n + 1 /\ events[k] \in EventType
      /\ n + 1 \in 1..n + 1
    BY <1>1, Emitted
<1>3. \A k \in 1..n : /\ record[events[k].scenario][events[k].id].status # "none"
                      /\ events[k].scenario \in Scenarios /\ events[k].id \in Ids
    BY <1>1, <1>2 DEF GrantedFirst, EventType
<1>4. \A k \in 1..n + 1 : rec[ev[k].scenario][ev[k].id].status # "none"
    BY <1>1, <1>2, <1>3 DEF IsEvent
<1>5. ASSUME NEW k \in 1..n + 1
      PROVE  \E j \in 1..k : IsEvent(ev[j], "granted", ev[k].scenario, ev[k].id)
    <2>1. CASE k \in 1..n
        <3>1. PICK j \in 1..k : IsEvent(events[j], "granted", events[k].scenario, events[k].id)
            BY <2>1, <1>1 DEF GrantedFirst
        <3>2. j \in 1..n
            BY <2>1, <3>1, <1>2
        <3> QED BY <2>1, <3>1, <3>2, <1>2
    <2>2. CASE k = n + 1 /\ type = "granted"
        <3>1. k \in 1..k
            BY <2>2, <1>2
        <3> QED BY <2>2, <3>1, <1>2 DEF IsEvent
    <2>3. CASE k = n + 1 /\ type # "granted"
        <3>1. Told("granted", s, i)
            BY <2>3 DEF RecordsTold
        <3>2. PICK j \in 1..n : IsEvent(events[j], "granted", s, i)
            BY <3>1, <1>1 DEF Told
        <3>3. j \in 1..k
            BY <2>3, <3>2, <1>2
        <3> QED BY <2>3, <3>2, <3>3, <1>2 DEF IsEvent
    <2> QED BY <2>1, <2>2, <2>3, <1>2, <1>5
<1>6. ASSUME NEW t \in Scenarios, NEW x \in Ids, NEW j \in 1..n + 1, NEW k \in 1..n + 1,
             IsEvent(ev[j], "granted", t, x), IsEvent(ev[k], "granted", t, x)
      PROVE  j = k
    <2>1. CASE j \in 1..n /\ k \in 1..n
        BY <2>1, <1>1, <1>2, <1>6 DEF GrantedOnce
    <2>2. ASSUME NEW m \in 1..n, IsEvent(ev[m], "granted", t, x), IsEvent(ev[n + 1], "granted", t, x)
          PROVE  FALSE
        <3>1. type = "granted" /\ t = s /\ x = i
            BY <2>2, <1>2 DEF IsEvent
        <3>2. events[m].scenario = t /\ events[m].id = x
            BY <2>2, <1>2 DEF IsEvent
        <3>3. record[s][i].status # "none"
            BY <2>2, <3>1, <3>2, <1>3
        <3> QED BY <3>1, <3>3
    <2> QED BY <2>1, <2>2, <1>2, <1>6
<1>7. GrantedFirst'
    BY <1>1, <1>2, <1>4, <1>5 DEF GrantedFirst, IsEvent
<1>8. GrantedOnce'
    BY <1>1, <1>2, <1>6 DEF GrantedOnce, IsEvent
<1> QED BY <1>7, <1>8

(* One record is replaced. *)
LEMMA RecordPut ==
    ASSUME NEW rec \in [Scenarios -> [Ids -> RecordType]], NEW s \in Scenarios, NEW i \in Ids,
           NEW v \in RecordType, NEW nxt, nxt = [rec EXCEPT ![s][i] = v]
    PROVE  /\ nxt \in [Scenarios -> [Ids -> RecordType]]
           /\ nxt[s][i] = v
           /\ \A t \in Scenarios, j \in Ids : ~(t = s /\ j = i) => nxt[t][j] = rec[t][j]
OBVIOUS

WithStatus(rec, s, i, st) == [rec EXCEPT ![s][i].status = st]

(* The status of one record is replaced. *)
LEMMA StatusPut ==
    ASSUME NEW rec \in [Scenarios -> [Ids -> RecordType]], NEW s \in Scenarios, NEW i \in Ids,
           NEW st \in Statuses, NEW nxt, nxt = WithStatus(rec, s, i, st)
    PROVE  /\ nxt \in [Scenarios -> [Ids -> RecordType]]
           /\ nxt[s][i].status = st /\ nxt[s][i].consumed = rec[s][i].consumed
           /\ \A t \in Scenarios, j \in Ids : ~(t = s /\ j = i) => nxt[t][j] = rec[t][j]
<1>1. PICK v : v = [rec[s][i] EXCEPT !.status = st]
    OBVIOUS
<1>2. rec[s][i] \in RecordType
    OBVIOUS
<1>3. v \in RecordType /\ v.status = st /\ v.consumed = rec[s][i].consumed
    BY <1>1, <1>2 DEF RecordType
<1>4. nxt = [rec EXCEPT ![s][i] = v]
    BY <1>1 DEF WithStatus
<1>5. /\ nxt \in [Scenarios -> [Ids -> RecordType]]
      /\ nxt[s][i] = v
      /\ \A t \in Scenarios, j \in Ids : ~(t = s /\ j = i) => nxt[t][j] = rec[t][j]
    BY <1>3, <1>4
<1> QED BY <1>3, <1>5

(* grant-force-authorisation. *)
LEMMA GrantHistory ==
    ASSUME HistoryInv, NEW s \in Scenarios, NEW i \in Ids, Grant(s, i)
    PROVE  HistoryInv'
<1>1. /\ record[s][i].status = "none" /\ Emit("granted", s, i)
      /\ record' = [record EXCEPT ![s][i].status = "active"]
      /\ pending' = pending /\ consumed' = consumed
    BY DEF Grant
<1>2. HistoryType
    BY DEF HistoryInv
<1>3. /\ record' \in [Scenarios -> [Ids -> RecordType]]
      /\ record'[s][i].status = "active" /\ record'[s][i].consumed = record[s][i].consumed
      /\ \A t \in Scenarios, j \in Ids : ~(t = s /\ j = i) => record'[t][j] = record[t][j]
    <2>1. record \in [Scenarios -> [Ids -> RecordType]] /\ "active" \in Statuses
        BY <1>2 DEF HistoryType, Statuses
    <2>2. record' = WithStatus(record, s, i, "active")
        BY <1>1 DEF WithStatus
    <2> QED BY <2>1, <2>2, StatusPut
<1>4. \A ty, t, j : Told(ty, t, j)' <=> Told(ty, t, j) \/ (ty = "granted" /\ t = s /\ j = i)
    BY <1>1, <1>2, ToldAfter
<1>5. GrantedFirst' /\ GrantedOnce'
    <2>1. \A t \in Scenarios, j \in Ids : record[t][j].status # "none" => record'[t][j].status # "none"
        BY <1>1, <1>3
    <2> QED BY <2>1, <1>1, <1>3, EmitKeepsOrder
<1>6. HistoryType'
    <2>1. events' \in Seq(EventType)
        BY <1>1, <1>2, Emitted
    <2> QED BY <2>1, <1>1, <1>2, <1>3 DEF HistoryType, EventType, RecordType, Statuses
<1>7. RecordsTold'
    <2>1. RecordsTold
        BY DEF HistoryInv
    <2> QED BY <2>1, <1>1, <1>3, <1>4 DEF RecordsTold
<1>8. ExecutedTold'
    <2>1. ExecutedTold
        BY DEF HistoryInv
    <2> QED BY <2>1, <1>1, <1>4 DEF ExecutedTold, CoveredClaims
<1>9. ConsumedWhole'
    <2>1. ConsumedWhole
        BY DEF HistoryInv
    <2> QED BY <2>1, <1>1, <1>3 DEF ConsumedWhole, CoveredClaims
<1> QED BY <1>5, <1>6, <1>7, <1>8, <1>9 DEF HistoryInv
(* revoke-force-authorisation. *)
LEMMA RevokeHistory ==
    ASSUME HistoryInv, NEW s \in Scenarios, NEW i \in Ids, Revoke(s, i)
    PROVE  HistoryInv'
<1>1. /\ record[s][i].status # "none" /\ Emit("revoked", s, i)
      /\ record' = [record EXCEPT ![s][i].status = "revoked"]
      /\ pending' = pending /\ consumed' = consumed
    BY DEF Revoke
<1>2. HistoryType
    BY DEF HistoryInv
<1>3. /\ record' \in [Scenarios -> [Ids -> RecordType]]
      /\ record'[s][i].status = "revoked" /\ record'[s][i].consumed = record[s][i].consumed
      /\ \A t \in Scenarios, j \in Ids : ~(t = s /\ j = i) => record'[t][j] = record[t][j]
    <2>1. record \in [Scenarios -> [Ids -> RecordType]] /\ "revoked" \in Statuses
        BY <1>2 DEF HistoryType, Statuses
    <2>2. record' = WithStatus(record, s, i, "revoked")
        BY <1>1 DEF WithStatus
    <2> QED BY <2>1, <2>2, StatusPut
<1>4. \A ty, t, j : Told(ty, t, j)' <=> Told(ty, t, j) \/ (ty = "revoked" /\ t = s /\ j = i)
    BY <1>1, <1>2, ToldAfter
<1>5. GrantedFirst' /\ GrantedOnce'
    <2>1. \A t \in Scenarios, j \in Ids : record[t][j].status # "none" => record'[t][j].status # "none"
        BY <1>1, <1>3
    <2> QED BY <2>1, <1>1, <1>3, EmitKeepsOrder
<1>6. HistoryType'
    <2>1. events' \in Seq(EventType)
        BY <1>1, <1>2, Emitted
    <2> QED BY <2>1, <1>1, <1>2, <1>3 DEF HistoryType, EventType, RecordType, Statuses
<1>7. RecordsTold'
    <2>1. RecordsTold
        BY DEF HistoryInv
    <2> QED BY <2>1, <1>1, <1>3, <1>4 DEF RecordsTold
<1>8. ExecutedTold'
    <2>1. ExecutedTold
        BY DEF HistoryInv
    <2> QED BY <2>1, <1>1, <1>4 DEF ExecutedTold, CoveredClaims
<1>9. ConsumedWhole'
    <2>1. ConsumedWhole
        BY DEF HistoryInv
    <2> QED BY <2>1, <1>1, <1>3 DEF ConsumedWhole, CoveredClaims
<1> QED BY <1>5, <1>6, <1>7, <1>8, <1>9 DEF HistoryInv

(* execute-force-authorised-action. *)
LEMMA ExecuteHistory ==
    ASSUME HistoryInv, NEW s \in Scenarios, NEW i \in Ids, NEW c \in Claims, Execute(s, i, c)
    PROVE  HistoryInv'
<1>1. /\ record[s][i].status = "active" /\ Emit("executed", s, i) /\ c \in CoveredClaims(i)
      /\ pending' = pending \cup {<<s, i, c>>}
      /\ record' = record /\ consumed' = consumed
    BY DEF Execute
<1>2. HistoryType
    BY DEF HistoryInv
<1>3. \A ty, t, j : Told(ty, t, j)' <=> Told(ty, t, j) \/ (ty = "executed" /\ t = s /\ j = i)
    BY <1>1, <1>2, ToldAfter
<1>4. GrantedFirst' /\ GrantedOnce'
    BY <1>1, EmitKeepsOrder
<1>5. HistoryType'
    <2>1. events' \in Seq(EventType)
        BY <1>1, <1>2, Emitted
    <2>2. pending' \subseteq Scenarios \X Ids \X Claims
        BY <1>1, <1>2 DEF HistoryType
    <2> QED BY <2>1, <2>2, <1>1, <1>2 DEF HistoryType, EventType, RecordType, Statuses
<1>6. RecordsTold'
    <2>1. RecordsTold
        BY DEF HistoryInv
    <2> QED BY <2>1, <1>1, <1>3 DEF RecordsTold
<1>7. ExecutedTold'
    <2>1. ExecutedTold
        BY DEF HistoryInv
    <2> QED BY <2>1, <1>1, <1>3 DEF ExecutedTold, CoveredClaims
<1>8. ConsumedWhole'
    <2>1. ConsumedWhole
        BY DEF HistoryInv
    <2> QED BY <2>1, <1>1 DEF ConsumedWhole, CoveredClaims
<1> QED BY <1>4, <1>5, <1>6, <1>7, <1>8 DEF HistoryInv

(* Steps that leave no event. *)
LEMMA SilentHistory ==
    ASSUME HistoryInv, events' = events,
           \A t \in Scenarios, j \in Ids :
               (record'[t][j].status = "none" <=> record[t][j].status = "none")
               /\ (record'[t][j].status = "revoked" <=> record[t][j].status = "revoked")
    PROVE  GrantedFirst' /\ GrantedOnce' /\ RecordsTold' /\ \A ty, t, j : Told(ty, t, j)' <=> Told(ty, t, j)
<1>1. \A ty, t, j : Told(ty, t, j)' <=> Told(ty, t, j)
    BY DEF Told, IsEvent
<1>2. \A k \in 1..Len(events) : events[k].scenario \in Scenarios /\ events[k].id \in Ids
    <2>1. \A k \in 1..Len(events) : events[k] \in EventType
        BY ElementOfSeq DEF HistoryInv, HistoryType
    <2> QED BY <2>1 DEF EventType
<1>3. GrantedFirst'
    BY <1>2 DEF HistoryInv, GrantedFirst, IsEvent
<1>4. GrantedOnce'
    BY DEF HistoryInv, GrantedOnce, IsEvent
<1>5. RecordsTold'
    BY <1>1 DEF HistoryInv, RecordsTold
<1> QED BY <1>1, <1>3, <1>4, <1>5

(* The settlement consumes, a related authorisation only with its last claim. *)
LEMMA SettleHistory ==
    ASSUME HistoryInv, NEW s \in Scenarios, NEW i \in Ids, NEW c \in Claims, Settle(s, i, c)
    PROVE  HistoryInv'
<1>1. /\ <<s, i, c>> \in pending /\ record[s][i].status = "active"
      /\ consumed' = consumed \cup {<<s, i, c>>}
      /\ pending' = pending \ {<<s, i, c>>} /\ events' = events
      /\ record' = IF \A d \in CoveredClaims(i) : <<s, i, d>> \in consumed'
                    THEN [record EXCEPT ![s][i] = [status |-> "consumed", consumed |-> TRUE]]
                    ELSE record
    BY DEF Settle
<1>2. HistoryType
    BY DEF HistoryInv
<1>3. /\ record' \in [Scenarios -> [Ids -> RecordType]]
      /\ \/ record' = record
         \/ /\ \A d \in CoveredClaims(i) : <<s, i, d>> \in consumed'
            /\ record'[s][i].status = "consumed" /\ record'[s][i].consumed = TRUE
            /\ \A t \in Scenarios, j \in Ids : ~(t = s /\ j = i) => record'[t][j] = record[t][j]
    <2>1. PICK v : v = [status |-> "consumed", consumed |-> TRUE]
        OBVIOUS
    <2>2. v \in RecordType /\ v.status = "consumed" /\ v.consumed = TRUE
        BY <2>1 DEF RecordType, Statuses
    <2>3. CASE \A d \in CoveredClaims(i) : <<s, i, d>> \in consumed'
        <3>1. record' = [record EXCEPT ![s][i] = v]
            BY <2>1, <2>3, <1>1
        <3>2. /\ record' \in [Scenarios -> [Ids -> RecordType]]
              /\ record'[s][i] = v
              /\ \A t \in Scenarios, j \in Ids : ~(t = s /\ j = i) => record'[t][j] = record[t][j]
            BY <3>1, <2>2, <1>2, RecordPut DEF HistoryType
        <3> QED BY <3>2, <2>2, <2>3
    <2>4. CASE ~\A d \in CoveredClaims(i) : <<s, i, d>> \in consumed'
        <3>1. record' = record
            BY <2>4, <1>1
        <3> QED BY <3>1, <1>2 DEF HistoryType
    <2> QED BY <2>3, <2>4
<1>4. /\ GrantedFirst' /\ GrantedOnce' /\ RecordsTold'
      /\ \A ty, t, j : Told(ty, t, j)' <=> Told(ty, t, j)
    BY <1>1, <1>3, SilentHistory
<1>5. HistoryType'
    <2>1. consumed' \subseteq Scenarios \X Ids \X Claims /\ pending' \subseteq Scenarios \X Ids \X Claims
        BY <1>1, <1>2 DEF HistoryType
    <2> QED BY <2>1, <1>1, <1>2, <1>3 DEF HistoryType, EventType, RecordType, Statuses
<1>6. ExecutedTold'
    <2>1. ExecutedTold
        BY DEF HistoryInv
    <2>2. pending' \cup consumed' \subseteq pending \cup consumed
        BY <1>1
    <2> QED BY <2>1, <2>2, <1>4 DEF ExecutedTold, CoveredClaims
<1>7. ConsumedWhole'
    <2>1. ConsumedWhole /\ consumed \subseteq consumed'
        BY <1>1 DEF HistoryInv
    <2>2. ASSUME NEW t \in Scenarios, NEW j \in Ids
          PROVE  /\ record'[t][j].status = "consumed" =>
                       record'[t][j].consumed /\ \A d \in CoveredClaims(j) : <<t, j, d>> \in consumed'
                 /\ record'[t][j].status \in {"none", "active"} => ~record'[t][j].consumed
        <3>1. CASE record'[t][j] = record[t][j]
            BY <3>1, <2>1, <2>2 DEF ConsumedWhole
        <3>2. CASE record'[t][j] # record[t][j]
            BY <3>2, <2>2, <1>3
        <3> QED BY <3>1, <3>2
    <2> QED BY <2>2 DEF ConsumedWhole, CoveredClaims
<1> QED BY <1>4, <1>5, <1>6, <1>7 DEF HistoryInv

(* An ordinary ruling replaces the forced one. *)
LEMMA SupersedeHistory ==
    ASSUME HistoryInv, NEW s \in Scenarios, NEW i \in Ids, NEW c \in Claims, Supersede(s, i, c)
    PROVE  HistoryInv'
<1>1. /\ pending' = pending \ {<<s, i, c>>} /\ record' = record /\ consumed' = consumed
      /\ events' = events
    BY DEF Supersede
<1>2. /\ GrantedFirst' /\ GrantedOnce' /\ RecordsTold'
      /\ \A ty, t, j : Told(ty, t, j)' <=> Told(ty, t, j)
    BY <1>1, SilentHistory
<1>3. HistoryType'
    BY <1>1 DEF HistoryInv, HistoryType, EventType, RecordType, Statuses
<1>4. ExecutedTold'
    BY <1>1, <1>2 DEF HistoryInv, ExecutedTold, CoveredClaims
<1>5. ConsumedWhole'
    BY <1>1 DEF HistoryInv, ConsumedWhole, CoveredClaims
<1> QED BY <1>2, <1>3, <1>4, <1>5 DEF HistoryInv

(* Steps of the verifier leave the history alone. *)
LEMMA UnchangedHistory ==
    ASSUME HistoryInv, UNCHANGED historyVars
    PROVE  HistoryInv'
<1>1. record' = record /\ pending' = pending /\ consumed' = consumed /\ events' = events
    BY DEF historyVars
<1>2. /\ GrantedFirst' /\ GrantedOnce' /\ RecordsTold'
      /\ \A ty, t, j : Told(ty, t, j)' <=> Told(ty, t, j)
    BY <1>1, SilentHistory
<1>3. HistoryType'
    BY <1>1 DEF HistoryInv, HistoryType, EventType, RecordType, Statuses
<1>4. ExecutedTold'
    BY <1>1, <1>2 DEF HistoryInv, ExecutedTold, CoveredClaims
<1>5. ConsumedWhole'
    BY <1>1 DEF HistoryInv, ConsumedWhole, CoveredClaims
<1> QED BY <1>2, <1>3, <1>4, <1>5 DEF HistoryInv

(* Records, consumptions and evidence events agree in every history
   (sew.clj, accounting.clj). *)
THEOREM HistoryInvariant == Spec => []HistoryInv
<1>1. Init => HistoryInv
    <2> SUFFICES ASSUME Init PROVE HistoryInv
        OBVIOUS
    <2>1. /\ record = [s \in Scenarios |-> [i \in Ids |-> [status |-> "none", consumed |-> FALSE]]]
          /\ pending = {} /\ consumed = {} /\ events = <<>>
        BY DEF Init, HistoryInit
    <2>2. events \in Seq(EventType) /\ Len(events) = 0
        BY <2>1
    <2>3. \A s \in Scenarios, i \in Ids : record[s][i] = [status |-> "none", consumed |-> FALSE]
        BY <2>1
    <2>4. HistoryType
        <3>1. PICK v : v = [status |-> "none", consumed |-> FALSE]
            OBVIOUS
        <3>2. v \in RecordType
            BY <3>1 DEF RecordType, Statuses
        <3> QED BY <2>1, <2>2, <3>1, <3>2 DEF HistoryType
    <2> QED BY <2>1, <2>2, <2>3, <2>4 DEF HistoryInv, GrantedFirst, GrantedOnce, RecordsTold, Told,
            ExecutedTold, ConsumedWhole
<1>2. HistoryInv /\ [Next]_vars => HistoryInv'
    <2> SUFFICES ASSUME HistoryInv, [Next]_vars PROVE HistoryInv'
        OBVIOUS
    <2>1. HistoryStep \/ UNCHANGED historyVars
        BY DEF Next, vars, Extend, Seal, Lose, Stray, ChangeRoot, ChangeReports, ChangeRecords,
               ChangeProtocol, Damage, Begin, Search, Overflow, Report, Done
    <2> QED BY <2>1, GrantHistory, RevokeHistory, ExecuteHistory, SettleHistory, SupersedeHistory,
               UnchangedHistory DEF HistoryStep
<1> QED BY <1>1, <1>2, PTL DEF Spec

(* The events of a history, and what its export says (bundle_root.clj). *)
LEMMA ExportSays ==
    /\ Export.witness = Witness /\ Export.witnessHash = Witness /\ Export.hashes = StateHashes
    /\ Export.events = events
    /\ Witness.record = record /\ Witness.consumed = consumed /\ Witness.adjustments = consumed
BY DEF Export, Witness

(* Every event is about an authorisation that was granted. *)
LEMMA HistoryEvents ==
    ASSUME HistoryInv
    PROVE  /\ Len(events) \in Nat /\ DOMAIN events = 1..Len(events)
           /\ \A k \in 1..Len(events) :
                 /\ events[k].scenario \in Scenarios /\ events[k].id \in Ids
                 /\ record[events[k].scenario][events[k].id].status # "none"
           /\ \A j, k \in 1..Len(events) :
                 /\ events[j].type = events[k].type /\ events[j].scenario = events[k].scenario
                 /\ events[j].id = events[k].id
                 => events[j] = events[k]
<1>1. events \in Seq(EventType)
    BY DEF HistoryInv, HistoryType
<1>2. \A k \in 1..Len(events) : events[k] \in EventType
    BY <1>1, ElementOfSeq
<1>3. \A e, f \in EventType : e.type = f.type /\ e.scenario = f.scenario /\ e.id = f.id => e = f
    BY DEF EventType
<1> QED BY <1>1, <1>2, <1>3 DEF HistoryInv, GrantedFirst, EventType

(* An authorisation with a consumption entry was executed. *)
LEMMA EntryExecuted ==
    ASSUME HistoryInv, NEW s \in Scenarios, NEW i \in Ids, HasEntry(Witness, s, i)
    PROVE  \E k \in 1..Len(events) : IsEvent(events[k], "executed", s, i)
<1>1. PICK c \in Claims : <<s, i, c>> \in consumed
    BY ExportSays DEF HasEntry
<1>2. ExecutedTold
    BY DEF HistoryInv
<1> QED BY <1>1, <1>2 DEF ExecutedTold, Told

(* The places of the events of one kind about one id. *)
LEMMA PositionsAre ==
    ASSUME HistoryInv, NEW type, NEW i
    PROVE  /\ Positions(Export, type, i) \in SUBSET (1..Len(events))
           /\ IsFiniteSet(Positions(Export, type, i))
           /\ \A k : k \in Positions(Export, type, i) <=>
                        k \in 1..Len(events) /\ events[k].type = type /\ events[k].id = i
<1>1. Positions(Export, type, i) = {k \in 1..Len(events) : events[k].type = type /\ events[k].id = i}
    BY ExportSays, HistoryEvents DEF Positions
<1>2. IsFiniteSet(1..Len(events))
    BY HistoryEvents, FS_Interval
<1>3. Positions(Export, type, i) \in SUBSET (1..Len(events))
    BY <1>1
<1> QED BY <1>1, <1>2, <1>3, FS_Subset

(* An honest export that passes is of an accepted history. *)
LEMMA PassedIsAccepted ==
    ASSUME HistoryInv, SewStatus(Export) = "pass"
    PROVE  AcceptedHistory
<1> DEFINE w == Witness
           n == Len(events)
<1>1. SewFailures(Export) = {}
    BY DEF SewStatus
<1>2. /\ BundleRootFailures(Export) = {} /\ ProtocolStateFailures(Export) = {}
      /\ LifecycleFailures(Export) = {} /\ EvidenceStateFailures(Export) = {}
    BY <1>1 DEF SewFailures
<1>3. consumed # {}
    <2>1. "consumed" \in StateHashes
        BY <1>2, ExportSays DEF BundleRootFailures, StateHashes
    <2> QED BY <2>1 DEF StateHashes
<1>4. \A k \in 1..n : ~EventMismatches(w, events[k])
    BY <1>2, ExportSays, HistoryEvents DEF EvidenceStateFailures
<1>5. ASSUME NEW k \in 1..n, NEW s \in Scenarios, NEW t \in Scenarios,
             record[s][events[k].id].status # "none", record[t][events[k].id].status # "none"
      PROVE  s = t
    <2>1. PICK M : M = {x \in Scenarios : w.record[x][events[k].id].status # "none"}
        OBVIOUS
    <2>2. Cardinality(M) = 1
        BY <2>1, <1>4, <1>5 DEF EventMismatches
    <2>3. IsFiniteSet(M)
        BY <2>1, ForceAuthAssumption, FS_Subset
    <2>4. s \in M /\ t \in M
        BY <2>1, <1>5, ExportSays
    <2>5. ~(Cardinality(M) > 1)
        BY <2>2
    <2> QED BY <2>3, <2>4, <2>5, AtMostOne
<1>6. \A s, t \in Scenarios, i \in Ids :
          record[s][i].status # "none" /\ record[t][i].status # "none" => s = t
    <2> SUFFICES ASSUME NEW s \in Scenarios, NEW t \in Scenarios, NEW i \in Ids,
                        record[s][i].status # "none", record[t][i].status # "none"
                 PROVE  s = t
        OBVIOUS
    <2>1. Told("granted", s, i)
        BY DEF HistoryInv, RecordsTold
    <2>2. PICK k \in 1..n : events[k].id = i
        BY <2>1 DEF Told, IsEvent
    <2> QED BY <2>2, <1>5
<1>7. ASSUME NEW k \in 1..n, events[k].type = "executed"
      PROVE  /\ events[k].id \notin RelatedIds
             /\ record[events[k].scenario][events[k].id].status = "consumed"
             /\ \A j \in 1..n : events[j] = events[k] => j = k
    <2>1. PICK s, i : s = events[k].scenario /\ i = events[k].id
        OBVIOUS
    <2>2. s \in Scenarios /\ i \in Ids /\ record[s][i].status # "none"
        BY <2>1, <1>7, HistoryEvents
    <2>3. record[s][i].status = "consumed"
        BY <2>1, <2>2, <1>4, <1>7, ExportSays DEF EventMismatches
    <2>4. ~RecordViolates(w, s, i)
        BY <2>2, <1>2, ExportSays DEF ProtocolStateFailures
    <2>5. i \notin RelatedIds
        BY <2>3, <2>4, ExportSays DEF RecordViolates, EntryNamesAdjustment
    <2>6. ASSUME NEW j \in 1..n, events[j] = events[k] PROVE j = k
        <3>1. PICK S : S = Positions(Export, "executed", i)
            OBVIOUS
        <3>2. IsFiniteSet(S) /\ j \in S /\ k \in S
            BY <3>1, <2>1, <2>6, <1>7, PositionsAre
        <3>3. ~(Cardinality(S) > 1)
            BY <3>1, <3>2, <2>2, <1>2 DEF LifecycleFailures
        <3> QED BY <3>2, <3>3, AtMostOne
    <2> QED BY <2>1, <2>3, <2>5, <2>6
<1> QED BY <1>3, <1>6, <1>7, HistoryEvents DEF AcceptedHistory

(* The checks of the state witness pass. *)
LEMMA AcceptedState ==
    ASSUME HistoryInv, AcceptedHistory
    PROVE  ProtocolStateFailures(Export) = {}
<1> DEFINE w == Witness
<1>1. ASSUME NEW s \in Scenarios, NEW i \in Ids, HasEntry(w, s, i)
      PROVE  record[s][i].status = "consumed" /\ i \notin RelatedIds
    <2>1. PICK k \in 1..Len(events) : IsEvent(events[k], "executed", s, i)
        BY <1>1, EntryExecuted
    <2> QED BY <2>1, HistoryEvents DEF AcceptedHistory, IsEvent
<1>2. ASSUME NEW s \in Scenarios, NEW i \in Ids, record[s][i].status = "consumed"
      PROVE  /\ record[s][i].consumed /\ HasEntry(w, s, i)
             /\ Cardinality(Linked(w, s, i)) = 1 /\ EntryNamesAdjustment(w, s, i)
    <2>1. record[s][i].consumed /\ \A c \in CoveredClaims(i) : <<s, i, c>> \in consumed
        BY <1>2 DEF HistoryInv, ConsumedWhole
    <2>2. PICK c \in CoveredClaims(i) : c \in Claims /\ <<s, i, c>> \in consumed
        BY <2>1, CoveredAreClaims
    <2>3. HasEntry(w, s, i)
        BY <2>2, ExportSays DEF HasEntry
    <2>4. i \notin RelatedIds
        BY <2>3, <1>1, <1>2
    <2>5. \A d \in CoveredClaims(i) : d = c
        BY <2>2, <2>4 DEF CoveredClaims
    <2>6. \A d \in Claims : <<s, i, d>> \in consumed => d \in CoveredClaims(i)
        BY <1>2 DEF HistoryInv, ExecutedTold
    <2>7. Linked(w, s, i) = {c}
        BY <2>2, <2>5, <2>6, ExportSays DEF Linked
    <2>8. Cardinality(Linked(w, s, i)) = 1
        BY <2>7, FS_Singleton
    <2>9. EntryNamesAdjustment(w, s, i)
        BY <2>2, <2>4, ExportSays DEF EntryNamesAdjustment
    <2> QED BY <2>1, <2>3, <2>8, <2>9
<1>3. ASSUME NEW s \in Scenarios, NEW i \in Ids
      PROVE  ~RecordViolates(w, s, i) /\ ~OrphanConsumption(w, s, i)
    <2>1. record[s][i].status = "active" => ~record[s][i].consumed
        BY <1>3 DEF HistoryInv, ConsumedWhole
    <2>2. w.record[s][i] = record[s][i]
        BY ExportSays
    <2> QED BY <2>1, <2>2, <1>1, <1>2, <1>3 DEF RecordViolates, OrphanConsumption
<1> QED BY <1>3, ExportSays DEF ProtocolStateFailures

(* The lifecycle checks pass. *)
LEMMA AcceptedLifecycle ==
    ASSUME HistoryInv, AcceptedHistory
    PROVE  LifecycleFailures(Export) = {}
<1> DEFINE n == Len(events)
           grants(i) == Positions(Export, "granted", i)
           runs(i) == Positions(Export, "executed", i)
           revokes(i) == Positions(Export, "revoked", i)
<1>1. n \in Nat /\ DOMAIN events = 1..n
    BY HistoryEvents
<1>2. ASSUME NEW i \in Ids, NEW k \in runs(i)
      PROVE  /\ grants(i) # {} /\ ~(Cardinality(runs(i)) > 1)
             /\ ~(Latest(runs(i)) < Latest(grants(i))) /\ revokes(i) = {}
    <2>1. k \in 1..n /\ events[k].type = "executed" /\ events[k].id = i
        BY <1>2, PositionsAre
    <2>2. PICK s : s = events[k].scenario
        OBVIOUS
    <2>3. s \in Scenarios /\ record[s][i].status = "consumed"
        BY <2>1, <2>2, <1>1, HistoryEvents DEF AcceptedHistory
    <2>4. \A j \in 1..n : events[j].id = i => events[j].scenario = s
        BY <2>1, <2>2, <1>1, HistoryEvents DEF AcceptedHistory
    <2>5. \A j \in runs(i) : j = k
        <3> SUFFICES ASSUME NEW j \in runs(i) PROVE j = k
            OBVIOUS
        <3>1. j \in 1..n /\ events[j].type = "executed" /\ events[j].id = i
            BY PositionsAre
        <3>2. events[j] = events[k]
            BY <3>1, <2>1, <2>2, <2>4, HistoryEvents
        <3> QED BY <3>1, <3>2, <2>1, <1>1 DEF AcceptedHistory
    <2>6. runs(i) = {k}
        BY <2>5, <1>2
    <2>7. ~(Cardinality(runs(i)) > 1)
        <3>1. Cardinality({k}) = 1
            BY FS_Singleton
        <3> QED BY <3>1, <2>6
    <2>8. Latest(runs(i)) = k
        BY <2>6, <2>1, <1>1, LatestIn
    <2>9. PICK g \in 1..k : IsEvent(events[g], "granted", s, i)
        BY <2>1, <2>2 DEF HistoryInv, GrantedFirst
    <2>10. g \in 1..n /\ g <= k
        BY <2>1, <2>9, <1>1
    <2>11. g \in grants(i)
        BY <2>9, <2>10, PositionsAre DEF IsEvent
    <2>12. \A j \in grants(i) : j = g
        <3> SUFFICES ASSUME NEW j \in grants(i) PROVE j = g
            OBVIOUS
        <3>1. j \in 1..n /\ IsEvent(events[j], "granted", s, i)
            BY <2>4, PositionsAre DEF IsEvent
        <3> QED BY <3>1, <2>3, <2>9, <2>10, <1>2 DEF HistoryInv, GrantedOnce
    <2>13. Latest(grants(i)) = g
        <3>1. PICK S : S = grants(i)
            OBVIOUS
        <3>2. S \in SUBSET (1..n) /\ S # {}
            BY <3>1, <2>11, PositionsAre
        <3>3. Latest(S) \in S
            BY <3>2, <1>1, LatestIn
        <3> QED BY <3>1, <3>3, <2>12
    <2>14. revokes(i) = {}
        <3> SUFFICES ASSUME NEW j \in revokes(i) PROVE FALSE
            OBVIOUS
        <3>1. j \in 1..n /\ IsEvent(events[j], "revoked", s, i)
            BY <2>4, PositionsAre DEF IsEvent
        <3>2. Told("revoked", s, i)
            BY <3>1 DEF Told
        <3> QED BY <3>2, <2>3, <1>2 DEF HistoryInv, RecordsTold
    <2>15. ~(k < g)
        BY <2>1, <2>10, <1>1
    <2> QED BY <2>7, <2>8, <2>11, <2>13, <2>14, <2>15
<1> QED BY <1>2 DEF LifecycleFailures

(* The events agree with the state. *)
LEMMA AcceptedEvents ==
    ASSUME HistoryInv, AcceptedHistory
    PROVE  EvidenceStateFailures(Export) = {}
<1> DEFINE w == Witness
<1>1. ASSUME NEW k \in 1..Len(events) PROVE ~EventMismatches(w, events[k])
    <2>1. PICK e, s, i : e = events[k] /\ s = e.scenario /\ i = e.id
        OBVIOUS
    <2>2. s \in Scenarios /\ i \in Ids /\ record[s][i].status # "none"
        BY <2>1, <1>1, HistoryEvents
    <2>3. PICK M : M = {x \in Scenarios : w.record[x][i].status # "none"}
        OBVIOUS
    <2>4. M = {s}
        BY <2>2, <2>3, ExportSays DEF AcceptedHistory
    <2>5. Cardinality(M) = 1
        BY <2>4, FS_Singleton
    <2>6. ASSUME e.type = "executed" PROVE record[s][i].status = "consumed" /\ HasEntry(w, s, i)
        <3>1. record[s][i].status = "consumed"
            BY <2>1, <2>6, <1>1, HistoryEvents DEF AcceptedHistory
        <3>2. \A c \in CoveredClaims(i) : <<s, i, c>> \in consumed
            BY <2>2, <3>1 DEF HistoryInv, ConsumedWhole
        <3> QED BY <3>1, <3>2, CoveredAreClaims, ExportSays DEF HasEntry
    <2>7. ASSUME e.type = "revoked" PROVE record[s][i].status = "revoked"
        <3>1. Told("revoked", s, i)
            BY <2>1, <2>7, <1>1 DEF Told, IsEvent
        <3> QED BY <3>1, <2>2 DEF HistoryInv, RecordsTold
    <2> QED BY <2>1, <2>3, <2>4, <2>5, <2>6, <2>7, ExportSays DEF EventMismatches
<1> QED BY <1>1, ExportSays, HistoryEvents DEF EvidenceStateFailures

(* The honest export of an accepted history passes. *)
LEMMA AcceptedPasses ==
    ASSUME HistoryInv, AcceptedHistory
    PROVE  SewStatus(Export) = "pass"
<1>1. PICK x \in consumed : TRUE
    BY DEF AcceptedHistory
<1>2. PICK s \in Scenarios, i \in Ids, c \in Claims : <<s, i, c>> \in consumed
    BY <1>1 DEF HistoryInv, HistoryType
<1>3. record[s][i].status # "none"
    <2>1. Told("executed", s, i)
        BY <1>2 DEF HistoryInv, ExecutedTold
    <2> QED BY <2>1, HistoryEvents DEF Told, IsEvent
<1>4. Granted(record) # {}
    <2>1. <<s, i>> \in Granted(record)
        BY <1>2, <1>3 DEF Granted
    <2> QED BY <2>1
<1>5. BundleRootFailures(Export) = {}
    BY <1>2, <1>4, ExportSays DEF BundleRootFailures, StateHashes
<1>6. SewFailures(Export) = {}
    BY <1>5, AcceptedState, AcceptedLifecycle, AcceptedEvents DEF SewFailures
<1> QED BY <1>4, <1>6, ExportSays DEF SewStatus

(* An honest export is accepted exactly when some authorisation was consumed, no
   id recurs in two scenarios, and every execution is the only one of a
   single-claim authorisation that was consumed and not revoked
   (validate_sew.py). *)
THEOREM HonestVerdictHolds == Spec => []HonestVerdict
<1>1. UntouchedInv /\ HistoryInv => HonestVerdict
    <2> SUFFICES ASSUME UntouchedInv, HistoryInv, phase = "reported", fault = "none", dag = PlainDag,
                        bundle.descriptor = "sew", options = NoOptions
                 PROVE  /\ report = "exception" => HasLongPath(dag)
                        /\ report # "exception" =>
                              (report = "pass" <=> WellFormedDag(dag, RootRefs(bundle)) /\ AcceptedHistory)
        BY DEF HonestVerdict
    <2>1. ValidateProtocolBundle(bundle.descriptor, Export) = SewStatus(Export)
        BY DEF ValidateProtocolBundle
    <2>2. SewStatus(Export) \in {"error", "pass", "fail"}
        BY DEF SewStatus
    <2>3. SewStatus(Export) = "pass" <=> AcceptedHistory
        BY PassedIsAccepted, AcceptedPasses
    <2> QED BY <2>1, <2>2, <2>3, UntouchedReport
<1> QED BY <1>1, UntouchedInvariant, HistoryInvariant, PTL

------------------------------------------------------------------------------
(* Receipt inclusion proofs. *)

(* The path of s after its first n nibbles. *)
After(s, n) == SubSeq(s, n + 1, Len(s))

Agree(s, t, n) == n <= Len(t) /\ \A j \in 1..n : s[j] = t[j]

(* The places of a list whose keys start like the key of i. *)
Sharing(list, i, n) == {k \in DOMAIN list : Agree(Key(i), Key(k - 1), n)}

(* The trie node that is reached after n nibbles of the key of i. *)
NodeAt(list, i, n) == {<<After(Key(k - 1), n), list[k]>> : k \in Sharing(list, i, n)}

------------------------------------------------------------------------------
(* Nibbles keep all of their bytes (_nibbles). *)
LEMMA NibblesInjective ==
    ASSUME NEW b \in Seq(Nat), NEW c \in Seq(Nat), Nibbles(b) = Nibbles(c)
    PROVE  b = c
<1>1. /\ DOMAIN Nibbles(b) = 1..2 * Len(b) /\ DOMAIN Nibbles(c) = 1..2 * Len(c)
      /\ Len(b) \in Nat /\ Len(c) \in Nat
    BY DEF Nibbles
<1>2. Len(b) = Len(c)
    BY <1>1
<1>3. ASSUME NEW k \in 1..Len(b) PROVE b[k] = c[k]
    <2>1. /\ 2 * k \in 1..2 * Len(b) /\ 2 * k - 1 \in 1..2 * Len(b)
          /\ (2 * k) % 2 = 0 /\ (2 * k - 1) % 2 = 1 /\ (2 * k) \div 2 = k /\ ((2 * k - 1) + 1) \div 2 = k
        BY <1>1
    <2>2. b[k] \in Nat /\ c[k] \in Nat
        BY <1>1, <1>2, ElementOfSeq
    <2>3. b[k] % 16 = c[k] % 16
        <3>1. Nibbles(b)[2 * k] = b[k] % 16
            BY <2>1 DEF Nibbles
        <3>2. Nibbles(c)[2 * k] = c[k] % 16
            BY <1>2, <2>1 DEF Nibbles
        <3> QED BY <3>1, <3>2
    <2>4. b[k] \div 16 = c[k] \div 16
        <3>1. Nibbles(b)[2 * k - 1] = b[k] \div 16
            BY <2>1 DEF Nibbles
        <3>2. Nibbles(c)[2 * k - 1] = c[k] \div 16
            BY <1>2, <2>1 DEF Nibbles
        <3> QED BY <3>1, <3>2
    <2> QED BY <2>2, <2>3, <2>4, SMTT(30)
<1> QED BY <1>1, <1>2, <1>3, SeqEqual

(* The encoded index is one to three bytes (rlp.encode). *)
LEMMA RlpBytes ==
    ASSUME NEW i \in Nat, i < 65536
    PROVE  /\ RlpIndex(i) \in Seq(Nat) /\ Len(RlpIndex(i)) \in Nat
           /\ 1 <= Len(RlpIndex(i)) /\ Len(RlpIndex(i)) <= 3
<1>1. CASE i = 0
    BY <1>1 DEF RlpIndex
<1>2. CASE i # 0 /\ i < 128
    BY <1>2 DEF RlpIndex
<1>3. CASE i >= 128 /\ i < 256
    BY <1>3 DEF RlpIndex
<1>4. CASE i >= 256
    <2>1. RlpIndex(i) = <<130, i \div 256, i % 256>>
        BY <1>4 DEF RlpIndex
    <2>2. i \div 256 \in Nat /\ i % 256 \in Nat
        BY <1>4
    <2> QED BY <2>1, <2>2
<1> QED BY <1>1, <1>2, <1>3, <1>4

(* Different indices have different keys. *)
LEMMA KeyInjective ==
    ASSUME NEW i \in Nat, NEW j \in Nat, i < 65536, j < 65536, Key(i) = Key(j)
    PROVE  i = j
<1>1. RlpIndex(i) = RlpIndex(j)
    BY RlpBytes, NibblesInjective DEF Key
<1>2. ASSUME NEW n \in Nat, n < 65536
      PROVE  /\ n < 128 => Len(RlpIndex(n)) = 1
             /\ n = 0 => RlpIndex(n)[1] = 128
             /\ n # 0 /\ n < 128 => RlpIndex(n)[1] = n
             /\ n >= 128 /\ n < 256 => Len(RlpIndex(n)) = 2 /\ RlpIndex(n)[2] = n
             /\ n >= 256 => Len(RlpIndex(n)) = 3 /\ RlpIndex(n)[2] = n \div 256 /\ RlpIndex(n)[3] = n % 256
    <2>1. CASE n = 0
        BY <2>1 DEF RlpIndex
    <2>2. CASE n # 0 /\ n < 128
        BY <2>2 DEF RlpIndex
    <2>3. CASE n >= 128 /\ n < 256
        BY <2>3 DEF RlpIndex
    <2>4. CASE n >= 256
        <3>1. RlpIndex(n) = <<130, n \div 256, n % 256>>
            BY <2>4 DEF RlpIndex
        <3> QED BY <2>4, <3>1
    <2> QED BY <2>1, <2>2, <2>3, <2>4
<1>3. CASE i < 128
    BY <1>1, <1>2, <1>3
<1>4. CASE i >= 128 /\ i < 256
    BY <1>1, <1>2, <1>4
<1>5. CASE i >= 256
    <2>1. j >= 256
        BY <1>1, <1>2, <1>5
    <2> QED BY <1>1, <1>2, <1>5, <2>1
<1> QED BY <1>3, <1>4, <1>5

(* A key is a sequence of two, four or six nibbles. *)
LEMMA KeyType ==
    ASSUME NEW i \in Nat, i < 65536
    PROVE  Key(i) \in Seq(Nat) /\ Len(Key(i)) \in Nat /\ Len(Key(i)) <= 6
<1> DEFINE b == RlpIndex(i)
<1>1. b \in Seq(Nat) /\ Len(b) \in Nat /\ 1 <= Len(b) /\ Len(b) <= 3
    BY RlpBytes
<1> HIDE DEF b
<1>2. ASSUME NEW k \in 1..2 * Len(b)
      PROVE  (IF k % 2 = 1 THEN b[(k + 1) \div 2] \div 16 ELSE b[k \div 2] % 16) \in Nat
    <2>1. CASE k % 2 = 1
        <3>1. (k + 1) \div 2 \in 1..Len(b)
            BY <1>1, <2>1
        <3> QED BY <1>1, <2>1, <3>1, ElementOfSeq
    <2>2. CASE k % 2 # 1
        <3>1. k \div 2 \in 1..Len(b)
            BY <1>1, <2>2
        <3> QED BY <1>1, <2>2, <3>1, ElementOfSeq
    <2> QED BY <2>1, <2>2
<1>3. Nibbles(b) \in [1..2 * Len(b) -> Nat]
    BY <1>2 DEF Nibbles
<1>4. PICK m \in Nat : m = 2 * Len(b) /\ 1 <= m /\ m <= 6
    BY <1>1
<1>5. Nibbles(b) \in [1..m -> Nat]
    BY <1>3, <1>4
<1>6. Nibbles(b) \in Seq(Nat) /\ Len(Nibbles(b)) = m
    BY <1>5, FunctionIsSeq
<1> QED BY <1>4, <1>5, <1>6 DEF Key, b

------------------------------------------------------------------------------
(* Paths: what is left of a sequence, and prefixes, element by element. *)

(* The rest of a path holds what follows its first n nibbles. *)
LEMMA AfterProps ==
    ASSUME NEW s \in Seq(Nat), NEW n \in 0..Len(s)
    PROVE  /\ After(s, n) \in Seq(Nat) /\ Len(After(s, n)) = Len(s) - n
           /\ \A j \in 1..Len(s) - n : After(s, n)[j] = s[n + j]
<1>1. Len(s) \in Nat /\ n + 1 \in Int /\ \A k \in n + 1..Len(s) : s[k] \in Nat
    BY ElementOfSeq
<1>2. /\ After(s, n) \in Seq(Nat)
      /\ Len(After(s, n)) = IF n + 1 <= Len(s) THEN Len(s) - (n + 1) + 1 ELSE 0
      /\ \A j \in 1..Len(s) - (n + 1) + 1 : After(s, n)[j] = s[n + 1 + j - 1]
    BY <1>1, SubSeqProperties DEF After
<1>3. ASSUME NEW j \in 1..Len(s) - n PROVE After(s, n)[j] = s[n + j]
    <2>1. j \in 1..Len(s) - (n + 1) + 1 /\ n + 1 + j - 1 = n + j
        BY <1>1
    <2> QED BY <1>2, <2>1
<1> QED BY <1>1, <1>2, <1>3

(* Nothing is missing after no nibble. *)
LEMMA AfterNone ==
    ASSUME NEW s \in Seq(Nat)
    PROVE  After(s, 0) = s
<1>1. Len(s) \in Nat
    OBVIOUS
<1>2. PICK z \in 0..Len(s) : z = 0
    BY <1>1
<1>3. /\ After(s, z) \in Seq(Nat) /\ Len(After(s, z)) = Len(s) - z
      /\ \A j \in 1..Len(s) - z : After(s, z)[j] = s[z + j]
    BY AfterProps
<1>4. Len(s) - z = Len(s) /\ \A j \in 1..Len(s) : z + j = j
    BY <1>1, <1>2
<1>5. Len(After(s, z)) = Len(s) /\ \A j \in 1..Len(s) : After(s, z)[j] = s[j]
    BY <1>3, <1>4
<1>6. After(s, z) = s
    BY <1>3, <1>5, SeqEqual
<1> QED BY <1>2, <1>6

(* The first n nibbles of a path. *)
LEMMA FirstProps ==
    ASSUME NEW s \in Seq(Nat), NEW n \in 0..Len(s)
    PROVE  /\ SubSeq(s, 1, n) \in Seq(Nat) /\ Len(SubSeq(s, 1, n)) = n
           /\ \A j \in 1..n : SubSeq(s, 1, n)[j] = s[j]
<1>1. Len(s) \in Nat /\ \A k \in 1..n : s[k] \in Nat
    BY ElementOfSeq
<1>2. /\ SubSeq(s, 1, n) \in Seq(Nat)
      /\ Len(SubSeq(s, 1, n)) = IF 1 <= n THEN n - 1 + 1 ELSE 0
      /\ \A j \in 1..n - 1 + 1 : SubSeq(s, 1, n)[j] = s[1 + j - 1]
    BY <1>1, SubSeqProperties
<1>3. ASSUME NEW j \in 1..n PROVE SubSeq(s, 1, n)[j] = s[j]
    <2>1. j \in 1..n - 1 + 1 /\ 1 + j - 1 = j
        BY <1>1
    <2> QED BY <1>2, <2>1
<1> QED BY <1>1, <1>2, <1>3

(* Taking away nibbles twice is taking away their sum. *)
LEMMA AfterAfter ==
    ASSUME NEW s \in Seq(Nat), NEW n \in Nat, NEW m \in Nat, n + m <= Len(s)
    PROVE  After(After(s, n), m) = After(s, n + m)
<1>1. Len(s) \in Nat /\ n \in 0..Len(s) /\ n + m \in 0..Len(s)
    OBVIOUS
<1>2. /\ After(s, n) \in Seq(Nat) /\ Len(After(s, n)) = Len(s) - n
      /\ \A j \in 1..Len(s) - n : After(s, n)[j] = s[n + j]
    BY <1>1, AfterProps
<1>3. m \in 0..Len(After(s, n))
    BY <1>1, <1>2
<1>4. /\ After(After(s, n), m) \in Seq(Nat)
      /\ Len(After(After(s, n), m)) = Len(s) - n - m
      /\ \A j \in 1..Len(s) - n - m : After(After(s, n), m)[j] = After(s, n)[m + j]
    <2>1. Len(After(s, n)) - m = Len(s) - n - m
        BY <1>2
    <2> QED BY <1>2, <1>3, <2>1, AfterProps
<1>5. /\ After(s, n + m) \in Seq(Nat)
      /\ Len(After(s, n + m)) = Len(s) - (n + m)
      /\ \A j \in 1..Len(s) - (n + m) : After(s, n + m)[j] = s[n + m + j]
    BY <1>1, AfterProps
<1>6. Len(s) - (n + m) = Len(s) - n - m
    BY <1>1
<1>7. ASSUME NEW j \in 1..Len(s) - n - m PROVE After(After(s, n), m)[j] = After(s, n + m)[j]
    <2>1. m + j \in 1..Len(s) - n /\ n + (m + j) = n + m + j /\ j \in 1..Len(s) - (n + m)
        BY <1>1
    <2>2. After(After(s, n), m)[j] = s[n + m + j]
        BY <1>2, <1>4, <2>1
    <2> QED BY <1>5, <2>1, <2>2
<1> HIDE DEF After
<1> QED BY <1>4, <1>5, <1>6, <1>7, SeqEqual

(* IsPrefix compares element by element. *)
LEMMA PrefixByElement ==
    ASSUME NEW s \in Seq(Nat), NEW t \in Seq(Nat)
    PROVE  IsPrefix(s, t) <=> Len(s) <= Len(t) /\ \A j \in 1..Len(s) : s[j] = t[j]
<1>1. Len(s) \in Nat /\ Len(t) \in Nat
    OBVIOUS
<1>2. Len(s) <= Len(t) => Len(s) \in 0..Len(t) /\ Len(s) \in 0..Len(s)
    BY <1>1
<1>3. ASSUME Len(s) <= Len(t)
      PROVE  SubSeq(s, 1, Len(s)) = SubSeq(t, 1, Len(s)) <=> \A j \in 1..Len(s) : s[j] = t[j]
    <2>1. /\ SubSeq(s, 1, Len(s)) \in Seq(Nat) /\ Len(SubSeq(s, 1, Len(s))) = Len(s)
          /\ \A j \in 1..Len(s) : SubSeq(s, 1, Len(s))[j] = s[j]
        BY <1>2, <1>3, FirstProps
    <2>2. /\ SubSeq(t, 1, Len(s)) \in Seq(Nat) /\ Len(SubSeq(t, 1, Len(s))) = Len(s)
          /\ \A j \in 1..Len(s) : SubSeq(t, 1, Len(s))[j] = t[j]
        BY <1>2, <1>3, FirstProps
    <2> DEFINE u == SubSeq(s, 1, Len(s))
               v == SubSeq(t, 1, Len(s))
    <2> HIDE DEF u, v
    <2>3. u \in Seq(Nat) /\ v \in Seq(Nat) /\ Len(u) = Len(v) /\ Len(u) = Len(s)
          /\ \A j \in 1..Len(s) : u[j] = s[j] /\ v[j] = t[j]
        BY <2>1, <2>2 DEF u, v
    <2>4. (\A j \in 1..Len(s) : s[j] = t[j]) => u = v
        BY <2>3, SeqEqual
    <2>5. u = v => \A j \in 1..Len(s) : s[j] = t[j]
        BY <2>3
    <2> QED BY <2>4, <2>5 DEF u, v
<1> QED BY <1>3 DEF IsPrefix

(* A nonempty set of naturals below a bound has a greatest element. *)
LEMMA Greatest ==
    ASSUME NEW n \in Nat, NEW S \in SUBSET (0..n), S # {}
    PROVE  \E m \in S : \A k \in S : k <= m
<1> DEFINE T == {n - k : k \in S}
           R == {ss \in Nat \X Nat : ss[1] < ss[2]}
<1>1. T \subseteq Nat /\ T # {}
    <2>1. \A k \in S : n - k \in Nat
        OBVIOUS
    <2> QED BY <2>1
<1>2. IsWellFoundedOn(R, Nat)
    BY NatLessThanWellFounded DEF OpToRel
<1>3. PICK x \in T : \A y \in T : ~(<<y, x>> \in R)
    <2> HIDE DEF R, T
    <2> QED BY <1>1, <1>2, WFMin
<1>4. \A x1, y1 \in Nat : y1 < x1 => <<y1, x1>> \in R
    OBVIOUS
<1>5. PICK m \in S : x = n - m
    BY <1>3
<1>6. ASSUME NEW k \in S PROVE k <= m
    <2>1. n - k \in T /\ n - k \in Nat /\ n - m \in Nat
        OBVIOUS
    <2>2. ~(n - k < n - m)
        <3> HIDE DEF R, T
        <3> QED BY <1>3, <1>4, <1>5, <2>1
    <2>3. k \in Nat /\ m \in Nat
        OBVIOUS
    <2> QED BY <2>2, <2>3
<1> QED BY <1>6

(* The shared length of the paths of a node: they agree that far. *)
LEMMA SharedAgree ==
    ASSUME NEW node, node # {}, \A e \in node : e[1] \in Seq(Nat)
    PROVE  /\ Shared(node) \in Nat
           /\ \A e \in node, f \in node :
                Shared(node) <= Len(e[1]) /\ \A j \in 1..Shared(node) : e[1][j] = f[1][j]
<1> DEFINE p == (CHOOSE e \in node : TRUE)[1]
           Common(n) == \A e \in node : IsPrefix(SubSeq(p, 1, n), e[1])
           S == {n \in 0..Len(p) : Common(n)}
<1>1. p \in Seq(Nat) /\ Len(p) \in Nat
    OBVIOUS
<1>2. ASSUME NEW n \in 0..Len(p)
      PROVE  Common(n) <=> \A e \in node : n <= Len(e[1]) /\ \A j \in 1..n : p[j] = e[1][j]
    <2> HIDE DEF p
    <2>1. SubSeq(p, 1, n) \in Seq(Nat) /\ Len(SubSeq(p, 1, n)) = n
          /\ \A j \in 1..n : SubSeq(p, 1, n)[j] = p[j]
        BY <1>1, FirstProps
    <2> DEFINE u == SubSeq(p, 1, n)
    <2> HIDE DEF u
    <2>2. u \in Seq(Nat) /\ Len(u) = n /\ \A j \in 1..n : u[j] = p[j]
        BY <2>1 DEF u
    <2>3. ASSUME NEW e \in node
          PROVE  IsPrefix(u, e[1]) <=> n <= Len(e[1]) /\ \A j \in 1..n : p[j] = e[1][j]
        <3>1. e[1] \in Seq(Nat)
            OBVIOUS
        <3>2. IsPrefix(u, e[1]) <=> Len(u) <= Len(e[1]) /\ \A j \in 1..Len(u) : u[j] = e[1][j]
            BY <2>2, <3>1, PrefixByElement
        <3> QED BY <2>2, <3>2
    <2> QED BY <2>3 DEF u
<1>3. Common(0)
    <2>1. \A e \in node : 0 <= Len(e[1])
        OBVIOUS
    <2>2. 0 \in 0..Len(p)
        BY <1>1
    <2> HIDE DEF Common, p
    <2> QED BY <1>2, <2>1, <2>2
<1>4. PICK m \in S : \A k \in S : k <= m
    <2>1. 0 \in S
        BY <1>1, <1>3
    <2> HIDE DEF p, Common
    <2> QED BY <1>1, <2>1, Greatest
<1>5. m < Len(p) => ~Common(m + 1)
    <2> HIDE DEF p, Common
    <2>1. SUFFICES ASSUME m < Len(p), Common(m + 1) PROVE FALSE
        OBVIOUS
    <2>2. m + 1 \in S
        BY <1>1, <2>1
    <2> QED BY <1>1, <1>4, <2>2
<1>6. \E n \in 0..Len(p) : Common(n) /\ (n < Len(p) => \E e \in node : ~IsPrefix(SubSeq(p, 1, n + 1), e[1]))
    BY <1>4, <1>5
<1>7. Shared(node) \in 0..Len(p) /\ Common(Shared(node))
    <2> DEFINE Longest(n) == /\ Common(n)
                             /\ n < Len(p) => \E e \in node : ~IsPrefix(SubSeq(p, 1, n + 1), e[1])
    <2>1. Shared(node) = CHOOSE n \in 0..Len(p) : Longest(n)
        BY DEF Shared
    <2>2. \E n \in 0..Len(p) : Longest(n)
        BY <1>6
    <2>3. ASSUME NEW n, Longest(n) PROVE Common(n)
        BY <2>3
    <2> HIDE DEF p, Common, Longest
    <2> QED BY <2>1, <2>2, <2>3
<1> HIDE DEF p, Common
<1>8. \A e \in node : Shared(node) <= Len(e[1]) /\ \A j \in 1..Shared(node) : p[j] = e[1][j]
    BY <1>2, <1>7
<1> QED BY <1>1, <1>7, <1>8

(* _compact_path gives back the path and the kind that a trie wrote, and
   finds its form canonical. *)
LEMMA CompactOfHexPrefix ==
    ASSUME NEW path \in Seq(Nat), NEW leaf \in BOOLEAN
    PROVE  /\ CanonicalPath(HexPrefix(path, leaf))
           /\ CompactPath(HexPrefix(path, leaf)) = [segment |-> path, leaf |-> leaf]
<1>1. Len(path) \in Nat
    OBVIOUS
<1>2. CASE Len(path) % 2 = 1
    <2>1. PICK flag \in {1, 3} : flag = (IF leaf THEN 3 ELSE 1)
        OBVIOUS
    <2> DEFINE ns == <<flag>> \o path
    <2>2. HexPrefix(path, leaf) = ns
        BY <1>2, <2>1 DEF HexPrefix
    <2>3. ns \in Seq(Nat) /\ Len(ns) = 1 + Len(path) /\ ns[1] = flag
          /\ \A j \in 1..Len(path) : ns[j + 1] = path[j]
        BY <1>1, <2>1
    <2>4. ns # <<>>
        BY <1>1, <2>3
    <2> HIDE DEF ns
    <2>5. Tail(ns) = path
        <3>1. Tail(ns) \in Seq(Nat) /\ Len(Tail(ns)) = Len(path)
              /\ \A j \in 1..Len(path) : Tail(ns)[j] = ns[j + 1]
            BY <1>1, <2>3, <2>4, HeadTailProperties
        <3> QED BY <2>3, <3>1, SeqEqual
    <2>6. flag % 2 = 1 /\ flag \in 0..3 /\ (leaf <=> flag >= 2)
        BY <2>1
    <2>7. CanonicalPath(ns)
        BY <2>3, <2>4, <2>6 DEF CanonicalPath
    <2>8. CompactPath(ns) = [segment |-> path, leaf |-> flag >= 2]
        BY <2>3, <2>5, <2>6 DEF CompactPath
    <2>9. leaf = (flag >= 2)
        BY <2>1
    <2> QED BY <2>2, <2>7, <2>8, <2>9, Zenon
<1>3. CASE Len(path) % 2 # 1
    <2>1. PICK flag \in {0, 2} : flag = (IF leaf THEN 2 ELSE 0)
        OBVIOUS
    <2> DEFINE ns == <<flag, 0>> \o path
    <2>2. HexPrefix(path, leaf) = ns
        BY <1>3, <2>1 DEF HexPrefix
    <2>3. ns \in Seq(Nat) /\ Len(ns) = 2 + Len(path) /\ ns[1] = flag /\ ns[2] = 0
          /\ \A j \in 1..Len(path) : ns[j + 2] = path[j]
        BY <1>1, <2>1
    <2>4. ns # <<>>
        BY <1>1, <2>3
    <2> HIDE DEF ns
    <2>5. SubSeq(ns, 3, Len(ns)) = path
        <3>1. After(ns, 2) \in Seq(Nat) /\ Len(After(ns, 2)) = Len(ns) - 2
              /\ \A j \in 1..Len(ns) - 2 : After(ns, 2)[j] = ns[2 + j]
            <4>1. 2 \in 0..Len(ns)
                BY <1>1, <2>3
            <4> QED BY <2>3, <4>1, AfterProps
        <3>2. \A j \in 1..Len(path) : After(ns, 2)[j] = path[j]
            BY <1>1, <2>3, <3>1
        <3>3. After(ns, 2) = path
            BY <1>1, <2>3, <3>1, <3>2, SeqEqual, SMTT(30)
        <3> QED BY <3>3 DEF After
    <2>6. flag % 2 # 1 /\ flag \in 0..3 /\ (leaf <=> flag >= 2)
        BY <2>1
    <2>7. CanonicalPath(ns)
        BY <1>1, <2>3, <2>4, <2>6 DEF CanonicalPath
    <2>8. CompactPath(ns) = [segment |-> path, leaf |-> flag >= 2]
        BY <2>3, <2>5, <2>6 DEF CompactPath
    <2>9. leaf = (flag >= 2)
        BY <2>1
    <2> QED BY <2>2, <2>7, <2>8, <2>9, Zenon
<1> QED BY <1>2, <1>3

------------------------------------------------------------------------------
(* The chain of headers. *)

(* The sets of headers that hold the parent of every member. *)
Closed(S) == \A x \in S : Chain[x].parent \in Headers => Chain[x].parent \in S

ParentOrSelf(f) ==
    [h \in Headers |-> {h} \cup IF Chain[h].parent \in Headers THEN f[Chain[h].parent] ELSE {}]

(* What every closed set that holds h holds too. *)
Reached == [h \in Headers |-> {a \in Headers : \A S \in SUBSET Headers : h \in S /\ Closed(S) => a \in S}]

(* The ancestors of a header are itself and those of its parent. *)
LEMMA AncestorsDef == Ancestors = ParentOrSelf(Ancestors)
<1>1. Reached = ParentOrSelf(Reached)
    <2>1. ASSUME NEW h \in Headers, Chain[h].parent \in Headers
          PROVE  Reached[h] = {h} \cup Reached[Chain[h].parent]
        <3> DEFINE p == Chain[h].parent
                   U == {h} \cup Reached[p]
        <3>1. h \in Reached[h] /\ p \in Reached[p]
            BY <2>1 DEF Reached
        <3>2. ASSUME NEW a \in Reached[p] PROVE a \in Reached[h]
            <4>1. a \in Headers /\ \A S \in SUBSET Headers : p \in S /\ Closed(S) => a \in S
                BY <2>1, <3>2 DEF Reached
            <4>2. ASSUME NEW S \in SUBSET Headers, h \in S, Closed(S) PROVE a \in S
                BY <2>1, <4>1, <4>2 DEF Closed
            <4> QED BY <4>1, <4>2 DEF Reached
        <3>3. U \in SUBSET Headers
            BY <2>1 DEF Reached
        <3>4. Closed(U)
            <4>1. ASSUME NEW x \in Reached[p], Chain[x].parent \in Headers PROVE Chain[x].parent \in Reached[p]
                <5>1. x \in Headers /\ \A S \in SUBSET Headers : p \in S /\ Closed(S) => x \in S
                    BY <2>1, <4>1 DEF Reached
                <5>2. ASSUME NEW S \in SUBSET Headers, p \in S, Closed(S) PROVE Chain[x].parent \in S
                    BY <4>1, <5>1, <5>2 DEF Closed
                <5> QED BY <2>1, <4>1, <5>2 DEF Reached
            <4> QED BY <3>1, <4>1 DEF Closed
        <3>5. ASSUME NEW a \in Reached[h] PROVE a \in U
            <4>1. \A S \in SUBSET Headers : h \in S /\ Closed(S) => a \in S
                BY <3>5 DEF Reached
            <4> HIDE DEF U
            <4>2. h \in U
                BY DEF U
            <4> QED BY <3>3, <3>4, <4>1, <4>2
        <3> QED BY <3>1, <3>2, <3>5
    <2>2. ASSUME NEW h \in Headers, Chain[h].parent \notin Headers PROVE Reached[h] = {h}
        <3>1. {h} \in SUBSET Headers /\ h \in {h} /\ Closed({h})
            BY <2>2 DEF Closed
        <3>2. \A a \in Reached[h] : a \in {h}
            BY <3>1 DEF Reached
        <3>3. h \in Reached[h]
            BY DEF Reached
        <3> QED BY <3>2, <3>3
    <2>3. \A h \in Headers : Reached[h] = ParentOrSelf(Reached)[h]
        BY <2>1, <2>2 DEF ParentOrSelf
    <2>4. Reached = [h \in Headers |-> Reached[h]]
        BY DEF Reached
    <2>5. ParentOrSelf(Reached) = [h \in Headers |-> ParentOrSelf(Reached)[h]]
        BY DEF ParentOrSelf
    <2> QED BY <2>3, <2>4, <2>5
<1>2. Ancestors = CHOOSE f : f = ParentOrSelf(f)
    BY DEF Ancestors, ParentOrSelf
<1> QED BY <1>1, <1>2

(* A header is its own ancestor, the ancestors of its parent are its own,
   and all of them are headers. *)
LEMMA AncestorsOf ==
    ASSUME NEW h \in Headers
    PROVE  /\ h \in Ancestors[h]
           /\ Chain[h].parent \in Headers => Ancestors[Chain[h].parent] \subseteq Ancestors[h]
           /\ Ancestors[h] \subseteq Headers
<1>1. \A x \in Headers : Ancestors[x] =
            {x} \cup IF Chain[x].parent \in Headers THEN Ancestors[Chain[x].parent] ELSE {}
    BY AncestorsDef DEF ParentOrSelf
<1>2. \A x \in Headers : Ancestors[x] \subseteq Headers
    <2>1. SUFFICES ASSUME NEW x0 \in Headers, ~(Ancestors[x0] \subseteq Headers) PROVE FALSE
        OBVIOUS
    <2> DEFINE Bad == {x \in Headers : ~(Ancestors[x] \subseteq Headers)}
               T == {Chain[x].number : x \in Bad}
               R == {ss \in Nat \X Nat : ss[1] < ss[2]}
    <2>2. T \subseteq Nat /\ T # {}
        BY <2>1, HeaderAssumption
    <2>3. IsWellFoundedOn(R, Nat)
        BY NatLessThanWellFounded DEF OpToRel
    <2>4. PICK n \in T : \A m \in T : ~(<<m, n>> \in R)
        <3> HIDE DEF R, T
        <3> QED BY <2>2, <2>3, WFMin
    <2>5. PICK x \in Bad : Chain[x].number = n
        BY <2>4
    <2>6. /\ Chain[x].parent \in Headers /\ Chain[x].parent \in Bad
        BY <1>1, <2>5
    <2>7. Chain[Chain[x].parent].number \in T
        BY <2>6
    <2>8. Chain[x].number = Chain[Chain[x].parent].number + 1 /\ Chain[Chain[x].parent].number \in Nat
        BY <2>5, <2>6, HeaderAssumption
    <2>9. <<Chain[Chain[x].parent].number, n>> \in R
        BY <2>5, <2>8
    <2> QED BY <2>4, <2>7, <2>9
<1> QED BY <1>1, <1>2

------------------------------------------------------------------------------
(* The nodes on the way to a key. *)

ListOK(list) == DOMAIN list = 1..Len(list) /\ Len(list) \in Nat /\ Len(list) <= 65536

IndexOK(i) == i \in Nat /\ i < 65536

(* The keys of the entries below a node go on after its n nibbles. *)
LEMMA SharingKeys ==
    ASSUME NEW list, ListOK(list), NEW i, IndexOK(i), NEW n \in 0..Len(Key(i)),
           NEW k \in Sharing(list, i, n)
    PROVE  /\ k \in 1..Len(list) /\ IndexOK(k - 1) /\ Key(k - 1) \in Seq(Nat)
           /\ n \in 0..Len(Key(k - 1)) /\ \A j \in 1..n : Key(i)[j] = Key(k - 1)[j]
<1>1. k \in 1..Len(list) /\ IndexOK(k - 1)
    BY DEF Sharing, ListOK, IndexOK
<1>2. Key(k - 1) \in Seq(Nat) /\ Len(Key(k - 1)) \in Nat /\ Len(Key(i)) \in Nat
    <2>1. \A x \in Nat : x < 65536 => Key(x) \in Seq(Nat) /\ Len(Key(x)) \in Nat
        BY KeyType
    <2>2. k - 1 \in Nat /\ k - 1 < 65536 /\ i \in Nat /\ i < 65536
        BY <1>1 DEF IndexOK
    <2> QED BY <2>1, <2>2
<1>3. n <= Len(Key(k - 1)) /\ \A j \in 1..n : Key(i)[j] = Key(k - 1)[j]
    BY DEF Sharing, Agree
<1> QED BY <1>1, <1>2, <1>3

(* The paths below a node are sequences of nibbles. *)
LEMMA NodePaths ==
    ASSUME NEW list, ListOK(list), NEW i, IndexOK(i), NEW n \in 0..Len(Key(i)),
           NEW e \in NodeAt(list, i, n)
    PROVE  e[1] \in Seq(Nat)
<1>1. PICK k \in Sharing(list, i, n) : e = <<After(Key(k - 1), n), list[k]>>
    BY DEF NodeAt
<1>2. After(Key(k - 1), n) \in Seq(Nat)
    BY SharingKeys, AfterProps
<1> QED BY <1>1, <1>2

(* The root of a trie is the node before the first nibble. *)
LEMMA NodeRoot ==
    ASSUME NEW list, ListOK(list), NEW i, IndexOK(i)
    PROVE  Root(list) = NodeAt(list, i, 0)
<1>1. ASSUME NEW k \in DOMAIN list PROVE After(Key(k - 1), 0) = Key(k - 1)
    <2>1. PICK x : x = k - 1
        OBVIOUS
    <2>2. x \in Nat /\ x < 65536
        BY <1>1, <2>1 DEF ListOK
    <2>3. Key(x) \in Seq(Nat) /\ Len(Key(x)) \in Nat
        BY <2>2, KeyType
    <2> QED BY <2>1, <2>3, AfterNone
<1>2. Sharing(list, i, 0) = DOMAIN list
    <2>1. ASSUME NEW k \in DOMAIN list PROVE Agree(Key(i), Key(k - 1), 0)
        <3>1. Len(Key(k - 1)) \in Nat
            BY KeyType DEF ListOK
        <3> QED BY <3>1 DEF Agree
    <2> QED BY <2>1 DEF Sharing
<1> QED BY <1>1, <1>2 DEF NodeAt, Root, Entries

(* Of the entries below a node, those that go on like the key by m nibbles
   make the node m nibbles further on. *)
LEMMA Descend ==
    ASSUME NEW list, ListOK(list), NEW i, IndexOK(i), NEW n \in Nat, NEW m \in Nat,
           n + m <= Len(Key(i)), NEW part \in SUBSET NodeAt(list, i, n),
           \A e \in NodeAt(list, i, n) :
              e \in part <=> m <= Len(e[1]) /\ \A j \in 1..m : e[1][j] = Key(i)[n + j]
    PROVE  Below(part, m) = NodeAt(list, i, n + m)
<1>1. Len(Key(i)) \in Nat /\ n \in 0..Len(Key(i)) /\ n + m \in 0..Len(Key(i))
    BY KeyType DEF IndexOK
<1>2. ASSUME NEW k \in Sharing(list, i, n)
      PROVE  k \in Sharing(list, i, n + m) <=> <<After(Key(k - 1), n), list[k]>> \in part
    <2> DEFINE s == Key(k - 1)
               e == <<After(Key(k - 1), n), list[k]>>
    <2>1. s \in Seq(Nat) /\ Len(s) \in Nat /\ n \in 0..Len(s) /\ \A j \in 1..n : Key(i)[j] = s[j]
        BY <1>1, SharingKeys
    <2>2. After(s, n) \in Seq(Nat) /\ Len(After(s, n)) = Len(s) - n
          /\ \A j \in 1..Len(s) - n : After(s, n)[j] = s[n + j]
        BY <2>1, AfterProps
    <2>3. e \in NodeAt(list, i, n) /\ e[1] = After(s, n)
        BY DEF NodeAt
    <2>4. e \in part <=> m <= Len(After(s, n)) /\ \A j \in 1..m : After(s, n)[j] = Key(i)[n + j]
        BY <2>3
    <2>5. k \in DOMAIN list
        BY DEF Sharing
    <2>6. k \in Sharing(list, i, n + m) <=> Agree(Key(i), s, n + m)
        BY <2>5 DEF Sharing
    <2> HIDE DEF s, e
    <2>7. ASSUME Agree(Key(i), s, n + m) PROVE e \in part
        <3>1. n + m <= Len(s) /\ \A j \in 1..n + m : Key(i)[j] = s[j]
            BY <2>7 DEF Agree
        <3>2. m <= Len(s) - n /\ \A j \in 1..m : n + j \in 1..n + m /\ j \in 1..Len(s) - n
            BY <2>1, <3>1
        <3> QED BY <2>2, <2>4, <3>1, <3>2
    <2>8. ASSUME e \in part PROVE Agree(Key(i), s, n + m)
        <3>1. m <= Len(s) - n /\ n + m <= Len(s)
            BY <2>1, <2>2, <2>4, <2>8
        <3>2. ASSUME NEW j \in 1..n + m PROVE Key(i)[j] = s[j]
            <4>1. CASE j <= n
                BY <2>1, <4>1
            <4>2. CASE j > n
                <5>1. j - n \in 1..m /\ j - n \in 1..Len(s) - n /\ n + (j - n) = j
                    BY <2>1, <3>1, <4>2
                <5> QED BY <2>2, <2>4, <2>8, <5>1
            <4> QED BY <4>1, <4>2
        <3> QED BY <3>1, <3>2 DEF Agree
    <2> QED BY <2>6, <2>7, <2>8 DEF e
<1>3. Sharing(list, i, n + m) \subseteq Sharing(list, i, n)
    <2>1. ASSUME NEW k \in Sharing(list, i, n + m) PROVE k \in Sharing(list, i, n)
        <3>1. /\ k \in DOMAIN list /\ Len(Key(k - 1)) \in Nat /\ n + m <= Len(Key(k - 1))
              /\ \A j \in 1..n + m : Key(i)[j] = Key(k - 1)[j]
            BY <1>1, SharingKeys DEF Sharing
        <3>2. n <= Len(Key(k - 1)) /\ \A j \in 1..n : j \in 1..n + m
            BY <3>1
        <3> QED BY <3>1, <3>2 DEF Sharing, Agree
    <2> QED BY <2>1
<1>4. ASSUME NEW k \in Sharing(list, i, n + m)
      PROVE  /\ SubSeq(After(Key(k - 1), n), m + 1, Len(After(Key(k - 1), n))) = After(Key(k - 1), n + m)
    <2>1. Key(k - 1) \in Seq(Nat) /\ n + m <= Len(Key(k - 1))
        BY <1>1, SharingKeys
    <2>2. After(After(Key(k - 1), n), m) = After(Key(k - 1), n + m)
        BY <2>1, AfterAfter
    <2> QED BY <2>2 DEF After
<1>5. ASSUME NEW x \in Below(part, m) PROVE x \in NodeAt(list, i, n + m)
    <2>1. PICK e \in part : x = <<SubSeq(e[1], m + 1, Len(e[1])), e[2]>>
        BY <1>5 DEF Below
    <2>2. PICK k \in Sharing(list, i, n) : e = <<After(Key(k - 1), n), list[k]>>
        BY DEF NodeAt
    <2>3. k \in Sharing(list, i, n + m) /\ e[1] = After(Key(k - 1), n) /\ e[2] = list[k]
        BY <1>2, <2>2
    <2>4. x = <<After(Key(k - 1), n + m), list[k]>>
        BY <1>4, <2>1, <2>3
    <2> QED BY <2>3, <2>4 DEF NodeAt
<1>6. ASSUME NEW x \in NodeAt(list, i, n + m) PROVE x \in Below(part, m)
    <2>1. PICK k \in Sharing(list, i, n + m) : x = <<After(Key(k - 1), n + m), list[k]>>
        BY DEF NodeAt
    <2> DEFINE e == <<After(Key(k - 1), n), list[k]>>
    <2>2. e \in part /\ e[1] = After(Key(k - 1), n) /\ e[2] = list[k]
        BY <1>2, <1>3
    <2> HIDE DEF e
    <2>3. x = <<SubSeq(e[1], m + 1, Len(e[1])), e[2]>>
        BY <1>4, <2>1, <2>2
    <2> QED BY <2>2, <2>3 DEF Below
<1> QED BY <1>5, <1>6

(* The entry of the key itself is below every node on its way. *)
LEMMA OwnEntry ==
    ASSUME NEW list, ListOK(list), NEW i, IndexOK(i), NEW n \in 0..Len(Key(i)), i + 1 \in DOMAIN list
    PROVE  <<After(Key(i), n), list[i + 1]>> \in NodeAt(list, i, n)
<1>1. PICK k \in DOMAIN list : k = i + 1
    OBVIOUS
<1>2. k - 1 = i
    BY <1>1 DEF IndexOK
<1>3. Agree(Key(i), Key(k - 1), n)
    <2>1. Len(Key(i)) \in Nat
        BY KeyType DEF IndexOK
    <2> QED BY <1>2, <2>1 DEF Agree
<1>4. k \in Sharing(list, i, n)
    BY <1>3 DEF Sharing
<1>5. <<After(Key(k - 1), n), list[k]>> \in NodeAt(list, i, n)
    BY <1>4 DEF NodeAt
<1> QED BY <1>1, <1>2, <1>5

(* Only the entry of the key itself ends where the key ends. *)
LEMMA OnlyOwnEntry ==
    ASSUME NEW list, ListOK(list), NEW i, IndexOK(i), NEW n \in 0..Len(Key(i)),
           NEW e \in NodeAt(list, i, n), e[1] = After(Key(i), n)
    PROVE  i + 1 \in DOMAIN list /\ e[2] = list[i + 1]
<1>1. PICK k \in Sharing(list, i, n) : e = <<After(Key(k - 1), n), list[k]>>
    BY DEF NodeAt
<1> DEFINE s == Key(i)
           t == Key(k - 1)
<1>2. /\ t \in Seq(Nat) /\ n \in 0..Len(t) /\ \A j \in 1..n : s[j] = t[j]
      /\ IndexOK(k - 1) /\ k \in DOMAIN list
    BY SharingKeys DEF Sharing
<1>3. s \in Seq(Nat) /\ Len(s) \in Nat
    BY KeyType DEF IndexOK
<1>4. After(t, n) = After(s, n)
    BY <1>1
<1>5. s = t
    <2> HIDE DEF s, t
    <2>1. Len(After(s, n)) = Len(s) - n /\ \A j \in 1..Len(s) - n : After(s, n)[j] = s[n + j]
        <3>1. n \in 0..Len(s)
            BY DEF s
        <3> QED BY <1>3, <3>1, AfterProps
    <2>2. Len(After(t, n)) = Len(t) - n /\ \A j \in 1..Len(t) - n : After(t, n)[j] = t[n + j]
        BY <1>2, AfterProps
    <2>3. Len(s) - n = Len(t) - n
        BY <1>4, <2>1, <2>2, Zenon
    <2>4. Len(s) = Len(t) /\ n \in Nat
        BY <1>2, <1>3, <2>3
    <2>5. ASSUME NEW j \in 1..Len(s) PROVE s[j] = t[j]
        <3>1. CASE j <= n
            BY <1>2, <3>1
        <3>2. CASE j > n
            <4>1. j - n \in 1..Len(s) - n /\ n + (j - n) = j
                BY <1>3, <2>4, <3>2
            <4>2. s[n + (j - n)] = t[n + (j - n)]
                BY <1>4, <2>1, <2>2, <2>3, <4>1
            <4> QED BY <4>1, <4>2
        <3> QED BY <2>4, <3>1, <3>2
    <2> QED BY <1>2, <1>3, <2>4, <2>5, SeqEqual
<1>6. i = k - 1
    <2>1. \A x, y \in Nat : x < 65536 /\ y < 65536 /\ Key(x) = Key(y) => x = y
        BY KeyInjective
    <2> QED BY <1>2, <1>5, <2>1 DEF IndexOK
<1>7. i + 1 = k
    BY <1>2, <1>6 DEF IndexOK, ListOK
<1> QED BY <1>1, <1>2, <1>7

(* There are finitely many entries below a node. *)
LEMMA NodeFinite ==
    ASSUME NEW list, ListOK(list), NEW i, NEW n
    PROVE  IsFiniteSet(NodeAt(list, i, n))
<1>1. IsFiniteSet(1..Len(list))
    BY FS_Interval DEF ListOK
<1>2. IsFiniteSet(Sharing(list, i, n))
    BY <1>1, FS_Subset DEF Sharing, ListOK
<1> DEFINE f == [k \in Sharing(list, i, n) |-> <<After(Key(k - 1), n), list[k]>>]
<1>3. f \in Surjection(Sharing(list, i, n), NodeAt(list, i, n))
    <2>1. f \in [Sharing(list, i, n) -> NodeAt(list, i, n)]
        BY DEF NodeAt
    <2>2. \A e \in NodeAt(list, i, n) : \E k \in Sharing(list, i, n) : f[k] = e
        BY DEF NodeAt
    <2> QED BY <2>1, <2>2 DEF Surjection
<1> HIDE DEF f
<1> QED BY <1>2, <1>3, FS_Surjection

(* A node with one entry is a leaf with the rest of its path, one with a
   shared path an extension (_compact_path of what a trie holds). *)
LEMMA PairNode ==
    ASSUME NEW node, IsFiniteSet(node), node # {}, \A e \in node : e[1] \in Seq(Nat), IsPair(node)
    PROVE  /\ CanonicalPath(PairPath(node))
           /\ \/ \E e \in node : node = {e} /\ CompactPath(PairPath(node)) = [segment |-> e[1], leaf |-> TRUE]
              \/ \E g \in Seq(Nat) :
                   /\ CompactPath(PairPath(node)) = [segment |-> g, leaf |-> FALSE]
                   /\ Len(g) > 0
                   /\ \A e \in node : Len(g) <= Len(e[1]) /\ \A j \in 1..Len(g) : e[1][j] = g[j]
<1>1. CASE Cardinality(node) = 1
    <2>1. PICK e : node = {e}
        BY <1>1, FS_Singleton
    <2>2. PairPath(node) = HexPrefix(e[1], TRUE)
        BY <1>1, <2>1 DEF PairPath
    <2>3. e \in node /\ e[1] \in Seq(Nat)
        BY <2>1
    <2>4. /\ CanonicalPath(HexPrefix(e[1], TRUE))
          /\ CompactPath(HexPrefix(e[1], TRUE)) = [segment |-> e[1], leaf |-> TRUE]
        BY <2>3, CompactOfHexPrefix
    <2> QED BY <2>1, <2>2, <2>3, <2>4, Zenon
<1>2. CASE Cardinality(node) # 1
    <2>1. Shared(node) > 0
        BY <1>2 DEF IsPair
    <2>2. PICK c \in node : c = CHOOSE e \in node : TRUE
        OBVIOUS
    <2> DEFINE g == SubSeq(c[1], 1, Shared(node))
    <2>3. PairPath(node) = HexPrefix(g, FALSE)
        BY <1>2, <2>2 DEF PairPath
    <2>4. /\ Shared(node) \in Nat
          /\ \A e \in node, f \in node :
               Shared(node) <= Len(e[1]) /\ \A j \in 1..Shared(node) : e[1][j] = f[1][j]
        BY SharedAgree
    <2>5. c[1] \in Seq(Nat) /\ Shared(node) \in 0..Len(c[1])
        BY <2>4
    <2>6. g \in Seq(Nat) /\ Len(g) = Shared(node) /\ \A j \in 1..Shared(node) : g[j] = c[1][j]
        BY <2>5, FirstProps
    <2> HIDE DEF g
    <2>7. /\ CanonicalPath(HexPrefix(g, FALSE))
          /\ CompactPath(HexPrefix(g, FALSE)) = [segment |-> g, leaf |-> FALSE]
        BY <2>6, CompactOfHexPrefix
    <2>8. \A e \in node : Len(g) <= Len(e[1]) /\ \A j \in 1..Len(g) : e[1][j] = g[j]
        BY <2>4, <2>6, ZenonT(30)
    <2>9. Len(g) > 0
        BY <2>1, <2>6
    <2> QED BY <2>3, <2>6, <2>7, <2>8, <2>9, Zenon
<1> QED BY <1>1, <1>2

------------------------------------------------------------------------------
(* One step of the walk.                                                    *)

OnPath(list, i, w) ==
    \E n \in 0..Len(Key(i)) :
        /\ w.ref = NodeAt(list, i, n)
        /\ w.remaining = After(Key(i), n)
        /\ w.steps \in 0..n

Held(list, i) == i + 1 \in DOMAIN list

(* A step of the walk along a branch (verify_indexed_trie_proof) ends it only
   where the trie has no entry for the index, goes on along the key, or
   arrives at the entry of the index. *)
LEMMA BranchStep ==
    ASSUME NEW list, ListOK(list), IndexOK(index), OnPath(list, index, walk),
           NEW unused, FollowBranch(walk.ref, unused)
    PROVE  \/ stage' = "invalid" /\ ~Held(list, index)
           \/ stage' = stage /\ OnPath(list, index, walk')
           \/ Arrive(<<>>, unused) /\ ~Held(list, index)
           \/ Arrive(list[index + 1], unused) /\ Held(list, index)
<1>1. PICK n \in 0..Len(Key(index)) :
          walk.ref = NodeAt(list, index, n) /\ walk.remaining = After(Key(index), n) /\ walk.steps \in 0..n
    BY DEF OnPath
<1> DEFINE K == Key(index)
           node == NodeAt(list, index, n)
           s == After(K, n)
<1>2. K \in Seq(Nat) /\ Len(K) \in Nat /\ n \in Nat /\ n <= Len(K)
    BY KeyType DEF IndexOK
<1>3. s \in Seq(Nat) /\ Len(s) = Len(K) - n /\ \A j \in 1..Len(K) - n : s[j] = K[n + j]
    BY <1>2, AfterProps
<1>4. Held(list, index) => <<s, list[index + 1]>> \in node
    BY OwnEntry DEF Held
<1>5. ASSUME NEW e \in node, e[1] = s PROVE Held(list, index) /\ e[2] = list[index + 1]
    BY <1>5, OnlyOwnEntry DEF Held
<1>6. CASE s = <<>>
    <2>1. Arrive(BranchValue(node), unused)
        BY <1>1, <1>6 DEF FollowBranch
    <2> DEFINE here == {e \in node : e[1] = <<>>}
    <2>2. CASE here = {}
        <3>1. BranchValue(node) = <<>>
            BY <2>2 DEF BranchValue
        <3>2. ~Held(list, index)
            BY <1>4, <1>6, <2>2
        <3> QED BY <2>1, <3>1, <3>2
    <2>3. CASE here # {}
        <3>1. PICK e \in here : e = CHOOSE x \in here : TRUE
            BY <2>3
        <3>2. BranchValue(node) = e[2]
            BY <2>3, <3>1 DEF BranchValue
        <3>3. Held(list, index) /\ e[2] = list[index + 1]
            BY <1>5, <1>6, <3>1
        <3> QED BY <2>1, <3>2, <3>3
    <2> QED BY <2>2, <2>3
<1>7. CASE s # <<>>
    <2> DEFINE child == ChildAt(node, s[1])
               part == {e \in node : e[1] # <<>> /\ e[1][1] = s[1]}
    <2>1. /\ stage' = (IF child # {} THEN stage ELSE "invalid")
          /\ walk' = [ref |-> child, remaining |-> Tail(s), steps |-> walk.steps + 1]
        BY <1>1, <1>7 DEF FollowBranch, Decide
    <2>2. Len(s) > 0 /\ n + 1 <= Len(K) /\ s[1] = K[n + 1]
        <3>1. Len(s) \in Nat /\ Len(s) # 0
            BY <1>3, <1>7
        <3> QED BY <1>2, <1>3, <3>1
    <2>3. \A e \in node : e \in part <=> 1 <= Len(e[1]) /\ \A j \in 1..1 : e[1][j] = K[n + j]
        <3>1. ASSUME NEW e \in node PROVE e[1] # <<>> <=> 1 <= Len(e[1])
            <4>1. e[1] \in Seq(Nat)
                BY NodePaths
            <4> QED BY <4>1
        <3>2. \A e : (\A j \in 1..1 : e[1][j] = K[n + j]) <=> e[1][1] = K[n + 1]
            OBVIOUS
        <3> HIDE DEF node, K
        <3> QED BY <2>2, <3>1, <3>2
    <2>4. child = NodeAt(list, index, n + 1)
        <3>1. part \in SUBSET NodeAt(list, index, n)
            OBVIOUS
        <3>2. Below(part, 1) = NodeAt(list, index, n + 1)
            <4>1. PICK m \in Nat : m = 1
                OBVIOUS
            <4>2. n + m <= Len(Key(index)) /\ n \in Nat
                BY <1>2, <2>2, <4>1
            <4> HIDE DEF part
            <4>3. \A e \in NodeAt(list, index, n) :
                     e \in part <=> m <= Len(e[1]) /\ \A j \in 1..m : e[1][j] = Key(index)[n + j]
                BY <2>3, <4>1
            <4>4. Below(part, m) = NodeAt(list, index, n + m)
                BY <3>1, <4>2, <4>3, Descend
            <4> QED BY <4>1, <4>4
        <3> QED BY <3>2 DEF ChildAt
    <2>5. Tail(s) = After(K, n + 1)
        <3>1. Tail(s) \in Seq(Nat) /\ Len(Tail(s)) = Len(s) - 1 /\ \A j \in 1..Len(s) - 1 : Tail(s)[j] = s[j + 1]
            <4> HIDE DEF s
            <4> QED BY <1>3, <1>7, HeadTailProperties
        <3>2. /\ After(K, n + 1) \in Seq(Nat) /\ Len(After(K, n + 1)) = Len(K) - (n + 1)
              /\ \A j \in 1..Len(K) - (n + 1) : After(K, n + 1)[j] = K[n + 1 + j]
            <4>1. n + 1 \in 0..Len(K)
                BY <1>2, <2>2
            <4> HIDE DEF K
            <4> QED BY <1>2, <4>1, AfterProps
        <3> HIDE DEF s, K
        <3>3. ASSUME NEW j \in 1..Len(s) - 1 PROVE Tail(s)[j] = After(K, n + 1)[j]
            <4>1. PICK l : l = Len(K)
                OBVIOUS
            <4>2. l \in Nat /\ n \in Nat /\ j \in 1..(l - n) - 1
                BY <3>3, <4>1, <1>2, <1>3
            <4>3. j + 1 \in 1..l - n /\ j \in 1..l - (n + 1) /\ n + (j + 1) = n + 1 + j
                BY <4>2
            <4> QED BY <1>3, <3>1, <3>2, <3>3, <4>1, <4>3
        <3>4. Len(s) - 1 = Len(K) - (n + 1)
            BY <1>2, <1>3
        <3> QED BY <3>1, <3>2, <3>3, <3>4, SeqEqual
    <2>6. Held(list, index) => child # {}
        <3>1. n + 1 \in 0..Len(K)
            BY <1>2, <2>2
        <3> QED BY <2>4, <3>1, OwnEntry DEF Held
    <2>7. CASE child = {}
        BY <2>1, <2>6, <2>7
    <2>8. CASE child # {}
        <3>1. stage' = stage
            BY <2>1, <2>8
        <3>2. n + 1 \in 0..Len(Key(index)) /\ walk.steps + 1 \in 0..n + 1
            BY <1>1, <1>2, <2>2
        <3>3. OnPath(list, index, walk')
            BY <2>1, <2>4, <2>5, <3>2 DEF OnPath
        <3> QED BY <3>1, <3>3
    <2> QED BY <2>7, <2>8
<1> QED BY <1>6, <1>7

(* The same for a leaf or an extension. *)
LEMMA PairStep ==
    ASSUME NEW list, ListOK(list), IndexOK(index), OnPath(list, index, walk), walk.ref # {},
           NEW unused, IsPair(walk.ref), FollowPair(walk.ref, unused)
    PROVE  \/ stage' = "invalid" /\ ~Held(list, index)
           \/ stage' = stage /\ OnPath(list, index, walk')
           \/ Arrive(list[index + 1], unused) /\ Held(list, index)
<1>1. PICK n \in 0..Len(Key(index)) :
          walk.ref = NodeAt(list, index, n) /\ walk.remaining = After(Key(index), n) /\ walk.steps \in 0..n
    BY DEF OnPath
<1> DEFINE K == Key(index)
           node == walk.ref
           s == walk.remaining
           path == CompactPath(PairPath(node))
           left == SubSeq(s, Len(path.segment) + 1, Len(s))
<1>2. K \in Seq(Nat) /\ Len(K) \in Nat /\ n \in Nat /\ n <= Len(K)
    BY KeyType DEF IndexOK
<1>3. s \in Seq(Nat) /\ Len(s) = Len(K) - n /\ \A j \in 1..Len(K) - n : s[j] = K[n + j]
    BY <1>1, <1>2, AfterProps
<1>4. Held(list, index) => <<s, list[index + 1]>> \in node
    BY <1>1, OwnEntry DEF Held
<1>5. ASSUME NEW e \in node, e[1] = s PROVE Held(list, index) /\ e[2] = list[index + 1]
    BY <1>1, <1>5, OnlyOwnEntry DEF Held
<1>6. IsFiniteSet(node) /\ \A e \in node : e[1] \in Seq(Nat)
    BY <1>1, NodeFinite, NodePaths
<1>7. /\ CanonicalPath(PairPath(node))
      /\ \/ \E e \in node : node = {e} /\ path = [segment |-> e[1], leaf |-> TRUE]
         \/ \E g \in Seq(Nat) :
              /\ path = [segment |-> g, leaf |-> FALSE]
              /\ Len(g) > 0
              /\ \A e \in node : Len(g) <= Len(e[1]) /\ \A j \in 1..Len(g) : e[1][j] = g[j]
    <2>1. node # {} /\ IsPair(node)
        OBVIOUS
    <2> HIDE DEF node
    <2> QED BY <1>6, <2>1, PairNode
<1>8. IF ~CanonicalPath(PairPath(node)) \/ ~PathMatches(path.segment) \/ (path.leaf /\ left # <<>>)
      THEN stage' = "invalid" /\ UNCHANGED walk
      ELSE IF path.leaf THEN \E e \in node : Arrive(e[2], unused)
      ELSE /\ Decide(TRUE, stage)
           /\ walk' = [ref |-> Below(node, Len(path.segment)), remaining |-> left, steps |-> walk.steps + 1]
    BY DEF FollowPair
<1> HIDE DEF path
<1>9. ASSUME NEW g \in Seq(Nat)
      PROVE  PathMatches(g) <=> Len(g) <= Len(s) /\ \A j \in 1..Len(g) : g[j] = s[j]
    BY <1>3, PrefixByElement DEF PathMatches
<1>10. CASE \E e \in node : node = {e} /\ path = [segment |-> e[1], leaf |-> TRUE]
    <2>1. PICK e \in node : node = {e} /\ path = [segment |-> e[1], leaf |-> TRUE]
        BY <1>10
    <2>2. path.segment = e[1] /\ path.leaf = TRUE /\ e[1] \in Seq(Nat)
        BY <1>6, <2>1
    <2>3. PathMatches(e[1]) => Len(e[1]) \in 0..Len(s) /\ left = After(s, Len(e[1]))
        BY <1>3, <1>9, <2>2 DEF After
    <2>4. PathMatches(e[1]) => Len(left) = Len(s) - Len(e[1]) /\ left \in Seq(Nat)
        <3> HIDE DEF s, left
        <3> QED BY <1>3, <2>3, AfterProps
    <2>5. PathMatches(e[1]) /\ left = <<>> <=> e[1] = s
        <3> HIDE DEF s, left
        <3>1. ASSUME PathMatches(e[1]), left = <<>> PROVE e[1] = s
            <4>1. Len(e[1]) = Len(s)
                BY <1>3, <2>2, <2>3, <2>4, <3>1
            <4>2. \A j \in 1..Len(e[1]) : e[1][j] = s[j]
                BY <1>9, <2>2, <3>1
            <4> QED BY <1>3, <2>2, <4>1, <4>2, SeqEqual
        <3>2. ASSUME e[1] = s PROVE PathMatches(e[1]) /\ left = <<>>
            <4>1. PathMatches(e[1])
                BY <1>3, <1>9, <2>2, <3>2
            <4>2. Len(left) = 0 /\ left \in Seq(Nat)
                BY <1>3, <2>4, <3>2, <4>1
            <4> QED BY <4>1, <4>2
        <3> QED BY <3>1, <3>2
    <2>6. CASE e[1] = s
        <3>1. \E x \in node : Arrive(x[2], unused)
            BY <1>7, <1>8, <2>2, <2>5, <2>6
        <3>2. Arrive(e[2], unused)
            BY <2>1, <3>1
        <3>3. Held(list, index) /\ e[2] = list[index + 1]
            BY <1>5, <2>6
        <3> QED BY <3>2, <3>3
    <2>7. CASE e[1] # s
        <3>1. stage' = "invalid"
            BY <1>8, <2>2, <2>5, <2>7
        <3>2. ~Held(list, index)
            <4>1. SUFFICES ASSUME Held(list, index) PROVE FALSE
                OBVIOUS
            <4>2. e = <<s, list[index + 1]>>
                BY <1>4, <2>1, <4>1
            <4> QED BY <2>7, <4>2
        <3> QED BY <3>1, <3>2
    <2> QED BY <2>6, <2>7
<1>11. CASE \E g \in Seq(Nat) :
              /\ path = [segment |-> g, leaf |-> FALSE]
              /\ Len(g) > 0
              /\ \A e \in node : Len(g) <= Len(e[1]) /\ \A j \in 1..Len(g) : e[1][j] = g[j]
    <2>1. PICK g \in Seq(Nat) :
              /\ path = [segment |-> g, leaf |-> FALSE]
              /\ Len(g) > 0
              /\ \A e \in node : Len(g) <= Len(e[1]) /\ \A j \in 1..Len(g) : e[1][j] = g[j]
        BY <1>11
    <2>2. path.segment = g /\ path.leaf = FALSE /\ Len(g) \in Nat
        BY <2>1
    <2>3. CASE ~PathMatches(g)
        <3>1. stage' = "invalid"
            BY <1>8, <2>2, <2>3
        <3>2. ~Held(list, index)
            <4>1. SUFFICES ASSUME Held(list, index) PROVE FALSE
                OBVIOUS
            <4> DEFINE e == <<s, list[index + 1]>>
            <4>2. e \in node /\ e[1] = s
                BY <1>4, <4>1
            <4> HIDE DEF e, s, node
            <4>3. Len(g) <= Len(s) /\ \A j \in 1..Len(g) : s[j] = g[j]
                BY <2>1, <4>2
            <4> QED BY <1>9, <2>3, <4>3
        <3> QED BY <3>1, <3>2
    <2>4. CASE PathMatches(g)
        <3>1. /\ stage' = stage
              /\ walk' = [ref |-> Below(node, Len(g)), remaining |-> left, steps |-> walk.steps + 1]
            BY <1>7, <1>8, <2>2, <2>4 DEF Decide
        <3>2. PICK m \in Nat : m = Len(g) /\ m > 0
            BY <2>1, <2>2
        <3>3. m <= Len(s) /\ \A j \in 1..m : g[j] = s[j]
            BY <1>9, <2>4, <3>2
        <3>4. n + m <= Len(K) /\ \A j \in 1..m : g[j] = K[n + j]
            BY <1>2, <1>3, <3>3
        <3>5. Below(node, m) = NodeAt(list, index, n + m)
            <4>1. \A e \in node : m <= Len(e[1]) /\ \A j \in 1..m : e[1][j] = K[n + j]
                BY <2>1, <3>2, <3>4
            <4>2. \A e \in NodeAt(list, index, n) :
                    e \in NodeAt(list, index, n) <=> m <= Len(e[1]) /\ \A j \in 1..m : e[1][j] = K[n + j]
                BY <1>1, <4>1
            <4>3. Below(NodeAt(list, index, n), m) = NodeAt(list, index, n + m)
                <5>1. NodeAt(list, index, n) \in SUBSET NodeAt(list, index, n)
                    OBVIOUS
                <5> QED BY <1>2, <3>4, <4>2, <5>1, Descend
            <4> QED BY <1>1, <4>3
        <3>6. left = After(K, n + m)
            <4>1. left = After(s, m)
                BY <2>2, <3>2 DEF After
            <4>2. After(After(K, n), m) = After(K, n + m)
                <5> HIDE DEF K
                <5> QED BY <1>2, <3>4, AfterAfter
            <4> QED BY <1>1, <4>1, <4>2
        <3>7. n + m \in 0..Len(Key(index)) /\ walk.steps + 1 \in 0..n + m
            BY <1>1, <1>2, <3>2, <3>4
        <3>8. OnPath(list, index, walk')
            <4>1. walk'.ref = NodeAt(list, index, n + m) /\ walk'.remaining = After(Key(index), n + m)
                  /\ walk'.steps = walk.steps + 1
                BY <3>1, <3>2, <3>5, <3>6
            <4> QED BY <3>7, <4>1 DEF OnPath
        <3> QED BY <3>1, <3>8
    <2> QED BY <2>3, <2>4
<1> QED BY <1>7, <1>10, <1>11

------------------------------------------------------------------------------
(* The invariant of a case. *)

AfterHeader == {"ancestry", "transaction", "receipt", "txproof", "receiptproof", "verified"}
AfterAnchor == AfterHeader \ {"ancestry"}
AfterTransaction == AfterAnchor \ {"transaction"}

(* What the checks made so far have established. *)
CaseInv ==
    /\ stage \in AfterHeader \cup {"context", "header", "invalid"}
    /\ depth \in Nat
    /\ stage # "context" => trust \in Contexts
    /\ stage \in AfterHeader => block \in Headers /\ tip \in Headers /\ block \in Ancestors[tip]
    /\ stage \in AfterAnchor => tip = trust.anchorHeader
    /\ stage \in AfterTransaction => index \in Indices /\ tx \in Transactions
    /\ stage = "txproof" => receipt # <<>> /\ OnPath(Chain[block].txs, index, walk)
    /\ stage = "receiptproof" => receipt # <<>> /\ OnPath(Chain[block].receipts, index, walk)
    /\ stage \in {"receiptproof", "verified"} =>
         Held(Chain[block].txs, index) /\ tx = Chain[block].txs[index + 1]
    /\ stage = "verified" => receipt = Chain[block].receipts[index + 1]

(* What an honest case has besides. *)
HonestSoFar ==
    /\ stage # "invalid"
    /\ stage # "context" => Chain[trust.anchorHeader].number = trust.anchorNumber
    /\ stage \in AfterTransaction =>
         /\ Held(Chain[block].txs, index) /\ tx = Chain[block].txs[index + 1]
         /\ Signed[tx].type \in {0, 2}
    /\ stage \in {"txproof", "receiptproof"} => receipt = Chain[block].receipts[index + 1]

InclusionInv == CaseInv /\ (honest => HonestSoFar)

(* Both lists of a block can be looked up. *)
LEMMA BlockLists ==
    ASSUME NEW h \in Headers
    PROVE  /\ ListOK(Chain[h].txs) /\ ListOK(Chain[h].receipts)
           /\ DOMAIN Chain[h].receipts = DOMAIN Chain[h].txs
BY BlockAssumption DEF ListOK

(* A walk starts at the root with the whole key. *)
LEMMA StartOnPath ==
    ASSUME NEW list, ListOK(list), NEW i, IndexOK(i), NEW w,
           w.ref = Root(list), w.remaining = Key(i), w.steps = 0
    PROVE  OnPath(list, i, w)
<1>1. Key(i) \in Seq(Nat) /\ Len(Key(i)) \in Nat
    <2>1. i \in Nat /\ i < 65536
        BY DEF IndexOK
    <2> QED BY <2>1, KeyType
<1>2. PICK n \in 0..Len(Key(i)) : n = 0
    BY <1>1
<1>3. w.steps \in 0..n
    BY <1>2
<1>4. Root(list) = NodeAt(list, i, n)
    BY <1>2, NodeRoot
<1>5. After(Key(i), n) = Key(i)
    BY <1>1, <1>2, AfterNone
<1> QED BY <1>3, <1>4, <1>5 DEF OnPath

(* The invariant holds when the verifier starts. *)
LEMMA InitInclusion == CaseInit => InclusionInv
<1> SUFFICES ASSUME CaseInit PROVE InclusionInv
    OBVIOUS
<1>1. stage = "context" /\ depth = 0
    BY DEF CaseInit
<1>2. CaseInv
    BY <1>1 DEF CaseInv, AfterHeader, AfterAnchor, AfterTransaction
<1>3. HonestSoFar
    BY <1>1 DEF HonestSoFar, AfterHeader, AfterAnchor, AfterTransaction
<1> QED BY <1>2, <1>3 DEF InclusionInv

(* The trust context. *)
LEMMA ContextInclusion == InclusionInv /\ CheckContext => InclusionInv'
<1> SUFFICES ASSUME InclusionInv, CheckContext PROVE InclusionInv'
    OBVIOUS
<1>1. PICK ok \in BOOLEAN, context \in Contexts :
        /\ stage' = IF ok THEN "header" ELSE "invalid"
        /\ trust' = context
        /\ honest' = (ok /\ Chain[context.anchorHeader].number = context.anchorNumber)
    <2>1. PICK context \in Contexts, pinned \in Contexts, now \in Times, wellFormed \in BOOLEAN :
            LET ok == wellFormed /\ TrustContextValid(context, pinned, now)
            IN /\ Decide(ok, "header")
               /\ trust' = context
               /\ honest' = (ok /\ Chain[context.anchorHeader].number = context.anchorNumber)
        BY DEF CheckContext
    <2> DEFINE ok == wellFormed /\ TrustContextValid(context, pinned, now)
    <2>2. ok \in BOOLEAN
        BY DEF TrustContextValid
    <2>3. /\ stage' = IF ok THEN "header" ELSE "invalid"
          /\ trust' = context
          /\ honest' = (ok /\ Chain[context.anchorHeader].number = context.anchorNumber)
        BY <2>1 DEF Decide
    <2> HIDE DEF ok
    <2> QED BY <2>2, <2>3
<1>2. stage' \in {"header", "invalid"} /\ (honest' => stage' = "header")
      /\ (honest' => Chain[trust'.anchorHeader].number = trust'.anchorNumber) /\ trust' \in Contexts
    BY <1>1
<1>3. depth' = depth
    BY DEF CheckContext
<1>4. CaseInv'
    BY <1>2, <1>3 DEF InclusionInv, CaseInv, AfterHeader, AfterAnchor, AfterTransaction
<1>5. honest' => HonestSoFar'
    BY <1>2 DEF HonestSoFar, AfterHeader, AfterAnchor, AfterTransaction
<1> QED BY <1>4, <1>5 DEF InclusionInv

(* The header of the case. *)
LEMMA HeaderInclusion == InclusionInv /\ CheckHeader => InclusionInv'
<1> SUFFICES ASSUME InclusionInv, CheckHeader PROVE InclusionInv'
    OBVIOUS
<1>1. PICK h \in Headers \cup {NoHeader} :
        /\ stage' = IF h # NoHeader THEN "ancestry" ELSE "invalid"
        /\ block' = h /\ tip' = h
        /\ honest' = (honest /\ h \in Ancestors[trust.anchorHeader])
    BY DEF CheckHeader, Decide, HeaderIdentity
<1>2. stage = "header" /\ trust' = trust /\ depth' = depth /\ trust \in Contexts
      /\ trust.anchorHeader \in Headers
    BY HeaderAssumption DEF CheckHeader, InclusionInv, CaseInv
<1>3. stage' = "ancestry" => h \in Headers /\ h \in Ancestors[h]
    BY <1>1, AncestorsOf
<1>4. stage' \in {"ancestry", "invalid"}
    BY <1>1
<1>5. CaseInv'
    BY <1>1, <1>2, <1>3, <1>4 DEF InclusionInv, CaseInv, AfterHeader, AfterAnchor, AfterTransaction
<1>6. honest' => HonestSoFar'
    <2>1. SUFFICES ASSUME honest' PROVE HonestSoFar'
        OBVIOUS
    <2>2. honest /\ h \in Headers
        BY <1>1, <1>2, <2>1, AncestorsOf
    <2>3. stage' = "ancestry"
        BY <1>1, <2>2, HeaderAssumption
    <2>4. Chain[trust.anchorHeader].number = trust.anchorNumber
        BY <1>2, <2>2 DEF InclusionInv, HonestSoFar
    <2> QED BY <1>2, <2>3, <2>4 DEF HonestSoFar, AfterHeader, AfterAnchor, AfterTransaction
<1> QED BY <1>5, <1>6 DEF InclusionInv

(* One header of the ancestry. *)
LEMMA AncestorInclusion == InclusionInv /\ CheckAncestor => InclusionInv'
<1> SUFFICES ASSUME InclusionInv, CheckAncestor PROVE InclusionInv'
    OBVIOUS
<1>1. PICK h \in Headers \cup {NoHeader} :
        /\ stage' = IF depth < MaxAncestry /\ h # NoHeader /\ Links(h, tip) THEN "ancestry" ELSE "invalid"
        /\ tip' = h /\ depth' = depth + 1
        /\ honest' = (honest /\ tip # trust.anchorHeader /\ h \in Ancestors[trust.anchorHeader]
                             /\ Chain[h].parent = tip /\ depth < MaxAncestry)
    BY DEF CheckAncestor, Decide, HeaderIdentity
<1>2. /\ stage = "ancestry" /\ trust' = trust /\ block' = block /\ trust \in Contexts
      /\ trust.anchorHeader \in Headers /\ block \in Headers /\ tip \in Headers
      /\ block \in Ancestors[tip] /\ depth \in Nat
    BY HeaderAssumption DEF CheckAncestor, InclusionInv, CaseInv, AfterHeader
<1>3. stage' = "ancestry" => h \in Headers /\ block \in Ancestors[h]
    BY <1>1, <1>2, AncestorsOf DEF Links
<1>4. stage' \in {"ancestry", "invalid"} /\ depth' \in Nat
    BY <1>1, <1>2
<1>5. CaseInv'
    BY <1>1, <1>2, <1>3, <1>4 DEF CaseInv, AfterHeader, AfterAnchor, AfterTransaction
<1>6. honest' => HonestSoFar'
    <2>1. SUFFICES ASSUME honest' PROVE HonestSoFar'
        OBVIOUS
    <2>2. honest /\ h \in Headers /\ h # NoHeader /\ Chain[h].parent = tip /\ depth < MaxAncestry
        BY <1>1, <1>2, <2>1, AncestorsOf, HeaderAssumption
    <2>3. Links(h, tip)
        BY <1>2, <2>2, HeaderAssumption DEF Links
    <2>4. stage' = "ancestry"
        BY <1>1, <2>2, <2>3
    <2>5. Chain[trust.anchorHeader].number = trust.anchorNumber
        BY <1>2, <2>2 DEF InclusionInv, HonestSoFar
    <2> QED BY <1>2, <2>4, <2>5 DEF HonestSoFar, AfterHeader, AfterAnchor, AfterTransaction
<1> QED BY <1>5, <1>6 DEF InclusionInv

(* The end of the ancestry at the anchor. *)
LEMMA AnchorInclusion == InclusionInv /\ CheckAnchor => InclusionInv'
<1> SUFFICES ASSUME InclusionInv, CheckAnchor PROVE InclusionInv'
    OBVIOUS
<1>1. /\ stage = "ancestry"
      /\ stage' = IF tip = trust.anchorHeader /\ Chain[tip].number = trust.anchorNumber
                  THEN "transaction" ELSE "invalid"
      /\ honest' = (honest /\ tip = trust.anchorHeader)
      /\ UNCHANGED <<trust, block, tip, depth, index, tx, receipt, walk>>
    BY DEF CheckAnchor, Decide
<1>2. /\ trust \in Contexts /\ block \in Headers /\ tip \in Headers
      /\ block \in Ancestors[tip] /\ depth \in Nat
      /\ honest => Chain[trust.anchorHeader].number = trust.anchorNumber
    BY <1>1 DEF InclusionInv, CaseInv, HonestSoFar, AfterHeader
<1>3. stage' \in {"transaction", "invalid"} /\ (stage' = "transaction" => tip = trust.anchorHeader)
      /\ (honest' => honest /\ stage' = "transaction")
    BY <1>1, <1>2
<1>4. CaseInv'
    BY <1>1, <1>2, <1>3 DEF CaseInv, AfterHeader, AfterAnchor, AfterTransaction
<1>5. honest' => HonestSoFar'
    BY <1>1, <1>2, <1>3 DEF HonestSoFar, AfterHeader, AfterAnchor, AfterTransaction
<1> QED BY <1>4, <1>5 DEF InclusionInv

(* The transaction and its sender. *)
LEMMA TransactionInclusion == InclusionInv /\ CheckTransaction => InclusionInv'
<1> SUFFICES ASSUME InclusionInv, CheckTransaction PROVE InclusionInv'
    OBVIOUS
<1>1. PICK i \in Indices, t \in Transactions, sender \in {Signed[u].sender : u \in Transactions} :
        /\ stage' = IF RecoverTransaction(t, trust.chainId) /\ sender = Signed[t].sender
                    THEN "receipt" ELSE "invalid"
        /\ index' = i /\ tx' = t
        /\ honest' = (/\ honest /\ Included(block, i) /\ t = Chain[block].txs[i + 1]
                      /\ sender = Signed[t].sender /\ RecoverTransaction(t, trust.chainId))
    BY DEF CheckTransaction, Decide
<1>2. /\ stage = "transaction" /\ trust' = trust /\ block' = block /\ tip' = tip /\ depth' = depth
      /\ trust \in Contexts /\ block \in Headers /\ tip \in Headers
      /\ block \in Ancestors[tip] /\ depth \in Nat /\ tip = trust.anchorHeader
    BY DEF CheckTransaction, InclusionInv, CaseInv, AfterHeader, AfterAnchor
<1>3. stage' \in {"receipt", "invalid"}
    BY <1>1
<1>4. CaseInv'
    BY <1>1, <1>2, <1>3 DEF CaseInv, AfterHeader, AfterAnchor, AfterTransaction
<1>5. honest' => HonestSoFar'
    <2>1. SUFFICES ASSUME honest' PROVE HonestSoFar'
        OBVIOUS
    <2>2. /\ honest /\ i < Len(Chain[block].txs) /\ t = Chain[block].txs[i + 1]
          /\ Signed[t].type \in {0, 2} /\ stage' = "receipt"
        BY <1>1, <2>1 DEF Included, RecoverTransaction
    <2>3. i + 1 \in DOMAIN Chain[block].txs
        BY <1>2, <2>2, BlockAssumption
    <2>4. Chain[trust.anchorHeader].number = trust.anchorNumber
        BY <1>2, <2>2 DEF InclusionInv, HonestSoFar
    <2> QED BY <1>1, <1>2, <2>2, <2>3, <2>4 DEF HonestSoFar, Held, AfterHeader, AfterAnchor, AfterTransaction
<1> QED BY <1>4, <1>5 DEF InclusionInv

(* The fields of the receipt. *)
LEMMA ReceiptInclusionInv == InclusionInv /\ CheckReceipt => InclusionInv'
<1> SUFFICES ASSUME InclusionInv, CheckReceipt PROVE InclusionInv'
    OBVIOUS
<1>1. PICK c \in Receipts : \E r \in {RpcReceipt(c)} \cup Misfits(RpcReceipt(c)) :
        /\ Decide(ReceiptFits(r), "txproof")
        /\ receipt' = EncodeRpcReceipt(r)
        /\ honest' = (honest /\ r = RpcReceipt(c) /\ c = Chain[block].receipts[index + 1])
    BY DEF CheckReceipt
<1>2. PICK r : 
        /\ stage' = IF ReceiptFits(r) THEN "txproof" ELSE "invalid"
        /\ receipt' = EncodeRpcReceipt(r)
        /\ honest' = (honest /\ r = RpcReceipt(c) /\ c = Chain[block].receipts[index + 1])
    BY <1>1 DEF Decide
<1>3. /\ stage = "receipt" /\ trust' = trust /\ block' = block /\ tip' = tip /\ depth' = depth
      /\ index' = index /\ tx' = tx
      /\ trust \in Contexts /\ block \in Headers /\ tip \in Headers
      /\ block \in Ancestors[tip] /\ depth \in Nat /\ tip = trust.anchorHeader
      /\ index \in Indices /\ tx \in Transactions
    BY DEF CheckReceipt, InclusionInv, CaseInv, AfterHeader, AfterAnchor, AfterTransaction
<1>4. stage' \in {"txproof", "invalid"}
    BY <1>2
<1>5. OnPath(Chain[block].txs, index, walk')
    <2>1. walk' = [ref |-> Root(Chain[block].txs), remaining |-> Key(index), steps |-> 0]
        BY DEF CheckReceipt, StartWalk
    <2>2. walk'.ref = Root(Chain[block].txs) /\ walk'.remaining = Key(index) /\ walk'.steps = 0
        BY <2>1
    <2>3. ListOK(Chain[block].txs) /\ IndexOK(index)
        BY <1>3, BlockLists, BlockAssumption DEF IndexOK
    <2> QED BY <2>2, <2>3, StartOnPath
<1>6. receipt' # <<>>
    BY <1>2 DEF EncodeRpcReceipt
<1>7. OnPath(Chain[block'].txs, index', walk')
    BY <1>3, <1>5
<1>8. CaseInv'
    BY <1>3, <1>4, <1>6, <1>7 DEF CaseInv, AfterHeader, AfterAnchor, AfterTransaction
<1>9. honest' => HonestSoFar'
    <2>1. SUFFICES ASSUME honest' PROVE HonestSoFar'
        OBVIOUS
    <2>2. honest /\ r = RpcReceipt(c) /\ c = Chain[block].receipts[index + 1]
        BY <1>2, <2>1
    <2>3. /\ Chain[trust.anchorHeader].number = trust.anchorNumber
          /\ Held(Chain[block].txs, index) /\ tx = Chain[block].txs[index + 1]
          /\ Signed[tx].type \in {0, 2}
        BY <1>3, <2>2 DEF InclusionInv, HonestSoFar, AfterHeader, AfterAnchor, AfterTransaction
    <2>4. index + 1 \in 1..Len(Chain[block].txs)
        BY <1>3, <2>3, BlockAssumption DEF Held
    <2>5. /\ c = <<"receipt", Signed[tx].type, c[3], c[4], c[5]>>
          /\ c[3] \in {<<"status", 0>>, <<"status", 1>>} \/ c[3][1] = "root"
        BY <1>3, <2>2, <2>3, <2>4, BlockAssumption
    <2>6. c[2] = Signed[tx].type
        BY <2>5
    <2>7. /\ r.transactionHash = tx /\ r.transactionIndex = index /\ r.blockHash = block
          /\ r.blockNumber = Chain[block].number /\ r.type = c[2] /\ r.state = c[3] /\ r.gas = c[4]
          /\ r.logsBloom = LogsBloom(c[5]) /\ r.logs = c[5]
        BY <2>2 DEF RpcReceipt
    <2>8. ReceiptFits(r)
        BY <2>3, <2>5, <2>6, <2>7 DEF ReceiptFits, EncodableReceipt
    <2>9. receipt' = c
        BY <1>2, <2>5, <2>6, <2>7 DEF EncodeRpcReceipt
    <2>10. stage' = "txproof"
        BY <1>2, <2>8
    <2> QED BY <1>3, <2>2, <2>3, <2>9, <2>10 DEF HonestSoFar
<1> QED BY <1>8, <1>9 DEF InclusionInv

(* The list that the walk under way goes through. *)
WalkedList == IF stage = "txproof" THEN Chain[block].txs ELSE Chain[block].receipts

Walking == stage \in {"txproof", "receiptproof"}

(* What is known of a case while a proof is followed. *)
LEMMA WalkFacts ==
    ASSUME InclusionInv, Walking
    PROVE  /\ trust \in Contexts /\ block \in Headers /\ tip \in Headers /\ block \in Ancestors[tip]
           /\ tip = trust.anchorHeader /\ depth \in Nat
           /\ index \in Indices /\ tx \in Transactions /\ IndexOK(index)
           /\ receipt # <<>> /\ <<>> \notin Transactions
           /\ ListOK(WalkedList) /\ OnPath(WalkedList, index, walk)
           /\ Held(WalkedList, index) <=> Held(Chain[block].txs, index)
           /\ stage = "receiptproof" => Held(Chain[block].txs, index) /\ tx = Chain[block].txs[index + 1]
           /\ honest => /\ Chain[trust.anchorHeader].number = trust.anchorNumber
                        /\ Held(Chain[block].txs, index) /\ tx = Chain[block].txs[index + 1]
                        /\ Signed[tx].type \in {0, 2}
                        /\ receipt = Chain[block].receipts[index + 1]
<1>1. /\ trust \in Contexts /\ block \in Headers /\ tip \in Headers /\ block \in Ancestors[tip]
      /\ tip = trust.anchorHeader /\ depth \in Nat
      /\ index \in Indices /\ tx \in Transactions /\ receipt # <<>>
      /\ OnPath(WalkedList, index, walk)
      /\ stage = "receiptproof" => Held(Chain[block].txs, index) /\ tx = Chain[block].txs[index + 1]
    BY DEF InclusionInv, CaseInv, Walking, WalkedList, AfterHeader, AfterAnchor, AfterTransaction
<1>2. ListOK(WalkedList) /\ (Held(WalkedList, index) <=> Held(Chain[block].txs, index))
    BY <1>1, BlockLists DEF WalkedList, Held
<1>3. IndexOK(index) /\ <<>> \notin Transactions
    BY <1>1, BlockAssumption DEF IndexOK
<1>4. honest => /\ Chain[trust.anchorHeader].number = trust.anchorNumber
                /\ Held(Chain[block].txs, index) /\ tx = Chain[block].txs[index + 1]
                /\ Signed[tx].type \in {0, 2}
                /\ receipt = Chain[block].receipts[index + 1]
    BY DEF InclusionInv, HonestSoFar, Walking, AfterHeader, AfterAnchor, AfterTransaction
<1> QED BY <1>1, <1>2, <1>3, <1>4

caseParts == <<trust, block, tip, depth, index, tx, receipt>>

(* The proof stops: nothing further is claimed, and the case was not honest. *)
LEMMA StopInclusion ==
    ASSUME InclusionInv, Walking, UNCHANGED caseParts, stage' = "invalid", ~honest'
    PROVE  InclusionInv'
<1>1. trust \in Contexts /\ depth \in Nat
    BY WalkFacts
<1>2. trust' = trust /\ depth' = depth
    BY DEF caseParts
<1> QED BY <1>1, <1>2 DEF InclusionInv, CaseInv, AfterHeader, AfterAnchor, AfterTransaction

(* The proof goes on. *)
LEMMA OnInclusion ==
    ASSUME InclusionInv, Walking, UNCHANGED caseParts, stage' = stage, honest' => honest,
           OnPath(WalkedList, index, walk')
    PROVE  InclusionInv'
<1>1. UNCHANGED <<trust, block, tip, depth, index, tx, receipt>>
    BY DEF caseParts
<1>2. stage = "txproof" \/ stage = "receiptproof"
    BY DEF Walking
<1>3. /\ stage = "txproof" => OnPath(Chain[block'].txs, index', walk')
      /\ stage = "receiptproof" => OnPath(Chain[block'].receipts, index', walk')
    BY <1>1 DEF WalkedList
<1>4. CaseInv'
    BY <1>1, <1>2, <1>3 DEF InclusionInv, CaseInv, AfterHeader, AfterAnchor, AfterTransaction
<1>5. honest' => HonestSoFar'
    BY <1>1, <1>2 DEF InclusionInv, HonestSoFar, AfterHeader, AfterAnchor, AfterTransaction
<1> QED BY <1>4, <1>5 DEF InclusionInv

(* The proof arrives at the value of the index. *)
LEMMA ArriveInclusion ==
    ASSUME InclusionInv, Walking, UNCHANGED caseParts, NEW value, NEW unused \in BOOLEAN,
           Arrive(value, unused), honest' => honest /\ ~unused,
           Held(WalkedList, index), value = WalkedList[index + 1]
    PROVE  InclusionInv'
<1>1. UNCHANGED <<trust, block, tip, depth, index, tx, receipt>>
    BY DEF caseParts
<1>2. /\ trust \in Contexts /\ block \in Headers /\ tip \in Headers /\ block \in Ancestors[tip]
      /\ tip = trust.anchorHeader /\ depth \in Nat /\ index \in Indices /\ tx \in Transactions
      /\ receipt # <<>> /\ Held(Chain[block].txs, index) /\ IndexOK(index)
    BY WalkFacts
<1>3. honest => /\ Chain[trust.anchorHeader].number = trust.anchorNumber
                /\ tx = Chain[block].txs[index + 1] /\ Signed[tx].type \in {0, 2}
                /\ receipt = Chain[block].receipts[index + 1]
    BY WalkFacts
<1>4. CASE stage = "txproof"
    <2>1. /\ stage' = IF ~unused /\ value = tx THEN "receiptproof" ELSE "invalid"
          /\ walk' = [ref |-> Root(Chain[block].receipts), remaining |-> Key(index), steps |-> 0]
        BY <1>4 DEF Arrive, Decide, StartWalk
    <2>2. value = Chain[block].txs[index + 1]
        BY <1>4 DEF WalkedList
    <2>3. OnPath(Chain[block].receipts, index, walk')
        <3>1. walk'.ref = Root(Chain[block].receipts) /\ walk'.remaining = Key(index) /\ walk'.steps = 0
            BY <2>1
        <3>2. ListOK(Chain[block].receipts)
            BY <1>2, BlockLists
        <3> QED BY <1>2, <3>1, <3>2, StartOnPath
    <2>4. OnPath(Chain[block'].receipts, index', walk')
        BY <1>1, <2>3
    <2>5. stage' \in {"receiptproof", "invalid"} /\ (stage' = "receiptproof" => tx = Chain[block].txs[index + 1])
        BY <2>1, <2>2
    <2>6. CaseInv'
        BY <1>1, <1>2, <2>4, <2>5 DEF CaseInv, AfterHeader, AfterAnchor, AfterTransaction
    <2>7. honest' => HonestSoFar'
        <3>1. SUFFICES ASSUME honest' PROVE HonestSoFar'
            OBVIOUS
        <3>2. stage' = "receiptproof"
            BY <1>3, <2>1, <2>2, <3>1
        <3> QED BY <1>1, <1>2, <1>3, <3>1, <3>2 DEF HonestSoFar, AfterHeader, AfterAnchor, AfterTransaction
    <2> QED BY <2>6, <2>7 DEF InclusionInv
<1>5. CASE stage = "receiptproof"
    <2>1. stage' = IF ~unused /\ value = receipt THEN "verified" ELSE "invalid"
        BY <1>5 DEF Arrive, Decide
    <2>2. value = Chain[block].receipts[index + 1]
        BY <1>5 DEF WalkedList
    <2>3. tx = Chain[block].txs[index + 1]
        BY <1>5, WalkFacts
    <2>4. stage' \in {"verified", "invalid"} /\ (stage' = "verified" => receipt = Chain[block].receipts[index + 1])
        BY <2>1, <2>2
    <2>5. CaseInv'
        BY <1>1, <1>2, <2>3, <2>4 DEF CaseInv, AfterHeader, AfterAnchor, AfterTransaction
    <2>6. honest' => HonestSoFar'
        <3>1. SUFFICES ASSUME honest' PROVE HonestSoFar'
            OBVIOUS
        <3>2. stage' = "verified"
            BY <1>3, <2>1, <2>2, <3>1
        <3> QED BY <1>1, <1>2, <1>3, <3>1, <3>2 DEF HonestSoFar, AfterHeader, AfterAnchor, AfterTransaction
    <2> QED BY <2>5, <2>6 DEF InclusionInv
<1> QED BY <1>4, <1>5 DEF Walking

(* One node of a proof: missing, foreign, or the one referred to. *)
LEMMA NodeInclusion == InclusionInv /\ FollowNode => InclusionInv'
<1> SUFFICES ASSUME InclusionInv, FollowNode PROVE InclusionInv'
    OBVIOUS
<1>1. Walking /\ UNCHANGED caseParts
    BY DEF FollowNode, Walking, caseParts
<1>2. /\ ListOK(WalkedList) /\ IndexOK(index) /\ OnPath(WalkedList, index, walk)
      /\ Held(WalkedList, index) <=> Held(Chain[block].txs, index)
      /\ honest => Held(WalkedList, index)
    BY <1>1, WalkFacts
<1>3. CASE stage' = "invalid" /\ honest' = FALSE
    BY <1>1, <1>3, StopInclusion
<1>4. CASE \E node \in OfferedNodes, unused \in BOOLEAN :
            /\ honest' = (honest /\ node = walk.ref /\ ~unused)
            /\ IF node # walk.ref \/ walk.steps >= MaxNodes
               THEN stage' = "invalid" /\ UNCHANGED walk
               ELSE IF IsPair(node) THEN FollowPair(node, unused) ELSE FollowBranch(node, unused)
    <2>1. PICK node \in OfferedNodes, unused \in BOOLEAN :
            /\ honest' = (honest /\ node = walk.ref /\ ~unused)
            /\ IF node # walk.ref \/ walk.steps >= MaxNodes
               THEN stage' = "invalid" /\ UNCHANGED walk
               ELSE IF IsPair(node) THEN FollowPair(node, unused) ELSE FollowBranch(node, unused)
        BY <1>4
    <2>2. CASE node # walk.ref
        BY <1>1, <2>1, <2>2, StopInclusion
    <2>3. CASE node = walk.ref
        <3>1. walk.steps < MaxNodes
            <4>1. PICK n \in 0..Len(Key(index)) : walk.steps \in 0..n
                BY <1>2 DEF OnPath
            <4>2. Len(Key(index)) \in Nat /\ Len(Key(index)) <= 6
                <5>1. index \in Nat /\ index < 65536
                    BY <1>2 DEF IndexOK
                <5> QED BY <5>1, KeyType
            <4> QED BY <4>1, <4>2, LimitAssumption
        <3>2. ~(node # walk.ref \/ walk.steps >= MaxNodes)
            <4>1. walk.steps \in Nat
                BY <1>2 DEF OnPath
            <4> QED BY <2>3, <3>1, <4>1, LimitAssumption
        <3>3. IF IsPair(walk.ref) THEN FollowPair(walk.ref, unused) ELSE FollowBranch(walk.ref, unused)
            BY <2>1, <2>3, <3>2
        <3>4. walk.ref # {}
            <4>1. node # {}
                BY ZenonT(30) DEF OfferedNodes
            <4> QED BY <2>3, <4>1
        <3>5. \/ stage' = "invalid" /\ ~Held(WalkedList, index)
              \/ stage' = stage /\ OnPath(WalkedList, index, walk')
              \/ Arrive(<<>>, unused) /\ ~Held(WalkedList, index)
              \/ Arrive(WalkedList[index + 1], unused) /\ Held(WalkedList, index)
            <4>1. CASE IsPair(walk.ref)
                <5>1. FollowPair(walk.ref, unused)
                    BY <3>3, <4>1
                <5> QED BY <1>2, <3>4, <4>1, <5>1, PairStep
            <4>2. CASE ~IsPair(walk.ref)
                <5>1. FollowBranch(walk.ref, unused)
                    BY <3>3, <4>2
                <5> QED BY <1>2, <5>1, BranchStep
            <4> QED BY <4>1, <4>2
        <3>6. CASE stage' = "invalid" /\ ~Held(WalkedList, index)
            BY <1>1, <1>2, <2>1, <3>6, StopInclusion
        <3>7. CASE stage' = stage /\ OnPath(WalkedList, index, walk')
            BY <1>1, <2>1, <3>7, OnInclusion
        <3>8. CASE Arrive(<<>>, unused) /\ ~Held(WalkedList, index)
            <4>1. tx # <<>> /\ receipt # <<>>
                BY <1>1, WalkFacts
            <4>2. stage' = "invalid"
                BY <3>8, <4>1 DEF Arrive, Decide
            <4> QED BY <1>1, <1>2, <2>1, <3>8, <4>2, StopInclusion
        <3>9. CASE Arrive(WalkedList[index + 1], unused) /\ Held(WalkedList, index)
            <4>1. honest' => honest /\ ~unused
                BY <2>1
            <4> QED BY <1>1, <3>9, <4>1, ArriveInclusion
        <3> QED BY <3>5, <3>6, <3>7, <3>8, <3>9
    <2> QED BY <2>2, <2>3
<1> QED BY <1>3, <1>4 DEF FollowNode

(* What is known of a case at every point of verify_case, for any chain of
   headers with forks, any pinned contexts and any parts put together. *)
THEOREM InclusionInvariant == CaseSpec => []InclusionInv
<1>1. InclusionInv /\ [CaseNext]_caseVars => InclusionInv'
    <2> SUFFICES ASSUME InclusionInv, [CaseNext]_caseVars PROVE InclusionInv'
        OBVIOUS
    <2>1. CASE UNCHANGED caseVars
        <3>1. UNCHANGED <<stage, trust, block, tip, depth, index, tx, receipt, walk, honest>>
            BY <2>1 DEF caseVars
        <3>2. CaseInv'
            BY <3>1 DEF InclusionInv, CaseInv
        <3>3. HonestSoFar' <=> HonestSoFar
            BY <3>1 DEF HonestSoFar
        <3> QED BY <3>1, <3>2, <3>3 DEF InclusionInv
    <2>2. CASE CaseNext
        <3>1. CASE CaseDone
            <4>1. UNCHANGED <<stage, trust, block, tip, depth, index, tx, receipt, walk, honest>>
                BY <3>1 DEF CaseDone, caseVars
            <4>2. CaseInv'
                BY <4>1 DEF InclusionInv, CaseInv
            <4>3. HonestSoFar' <=> HonestSoFar
                BY <4>1 DEF HonestSoFar
            <4> QED BY <4>1, <4>2, <4>3 DEF InclusionInv
        <3> QED BY <2>2, <3>1, ContextInclusion, HeaderInclusion, AncestorInclusion, AnchorInclusion,
                   TransactionInclusion, ReceiptInclusionInv, NodeInclusion DEF CaseNext
    <2> QED BY <2>1, <2>2
<1> QED BY <1>1, InitInclusion, PTL DEF CaseSpec

(* Whatever a case is put together from, "verified" means that the pinned
   anchor's chain holds its transaction and receipt at its index
   (verify_case). *)
THEOREM VerifiedIsIncluded == CaseSpec => []ProvenIsIncluded
<1>1. InclusionInv => ProvenIsIncluded
    <2> SUFFICES ASSUME InclusionInv, stage = "verified"
                 PROVE  /\ block \in Ancestors[trust.anchorHeader] /\ Included(block, index)
                        /\ tx = Chain[block].txs[index + 1]
                        /\ receipt = Chain[block].receipts[index + 1]
        BY DEF ProvenIsIncluded
    <2>1. /\ block \in Headers /\ block \in Ancestors[tip] /\ tip = trust.anchorHeader
          /\ index \in Indices /\ Held(Chain[block].txs, index)
          /\ tx = Chain[block].txs[index + 1] /\ receipt = Chain[block].receipts[index + 1]
        BY DEF InclusionInv, CaseInv, AfterHeader, AfterAnchor, AfterTransaction
    <2>2. index + 1 \in 1..Len(Chain[block].txs) /\ Len(Chain[block].txs) \in Nat /\ index \in Nat
        BY <2>1, BlockAssumption DEF Held
    <2> QED BY <2>1, <2>2 DEF Included
<1> QED BY <1>1, InclusionInvariant, PTL

(* A case of what the chain holds is never refused: the walk finds a node for
   each nibble of any key in any trie (verify_indexed_trie_proof). *)
THEOREM HonestAccepted == CaseSpec => []HonestCaseAccepted
<1>1. InclusionInv => HonestCaseAccepted
    BY DEF InclusionInv, HonestSoFar, HonestCaseAccepted
<1> QED BY <1>1, InclusionInvariant, PTL
=============================================================================
