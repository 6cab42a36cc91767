----------------------------- MODULE ForensicRun -----------------------------
(***************************************************************************)
(* Concurrent invocations of the forensic run orchestrator (run.py with    *)
(* preflight.py) over one output base: the run id taken from the clock,    *)
(* the blocking file lock, the steps that fill the run directory, the      *)
(* closing verification, hardening, and the retention pass that follows    *)
(* the release of the lock.  Any step may raise, and a process may die.    *)
(*                                                                         *)
(* The files of a run directory are grouped by the step that writes them.  *)
(***************************************************************************)
EXTENDS Integers, FiniteSets, Sequences

CONSTANTS Procs,
          MaxTime,   \* bound on the clock, whose seconds are the run ids
          MaxRuns    \* PRF_MAX_RUNS; 0 keeps every run

NoProc == "none"
RunIds == 0..MaxTime

ASSUME ForensicRunAssumption == MaxTime \in Nat /\ MaxRuns \in Nat /\ NoProc \notin Procs

VARIABLES clock, lock,
          dir,      \* dir[i]: the run directory named i
          pc, rid,  \* where a process is, and its run id
          exit,     \* its exit code so far
          victims,  \* run directories it still has to remove, oldest first
          listing,  \* entries of the first of them still to be unlinked
          doomed    \* directories that some retention pass selected (history)

runVars == <<clock, lock, dir, pc, rid, exit, victims, listing, doomed>>
diskVars == <<clock, dir, doomed>>
retentionVars == <<victims, listing>>

Groups == {"preflight", "inputs", "workspace", "records", "overview", "root"}
Stages == {"setup", "inputs", "execute", "records", "overview", "root", "verify", "harden"}
Ended == {"done", "dry", "raised"}

NoDir == [exists |-> FALSE, entries |-> {}, hard |-> FALSE]

RunInit ==
    /\ clock = 0 /\ lock = NoProc
    /\ dir = [i \in RunIds |-> NoDir]
    /\ pc = [p \in Procs |-> "idle"]
    /\ rid = [p \in Procs |-> 0]
    /\ exit = [p \in Procs |-> 0]
    /\ victims = [p \in Procs |-> <<>>]
    /\ listing = [p \in Procs |-> {}]
    /\ doomed = {}

Tick ==
    /\ clock < MaxTime
    /\ clock' = clock + 1
    /\ UNCHANGED <<lock, dir, pc, rid, exit, retentionVars, doomed>>

Goto(p, stage) == pc' = [pc EXCEPT ![p] = stage]

------------------------------------------------------------------------------
(* Run id and preflight, before the lock.                                   *)

Start(p) ==
    /\ pc[p] = "idle"
    /\ rid' = [rid EXCEPT ![p] = clock]
    /\ Goto(p, "preflight")
    /\ UNCHANGED <<lock, exit, retentionVars, diskVars>>

\* The files preflight reads.  An unreadable request counts as an empty one.
Inputs == [request : {"absent", "invalid", "incomplete", "ok"},
           registry : {"absent", "invalid", "ok"},
           policy : {"absent", "invalid", "ok"},
           outside : BOOLEAN,  \* the output base is outside the repository
           commit : BOOLEAN]   \* the source revision can be determined

OutputDirectoryClean(i) == dir[i].entries = {}

RunRequestValid(in) == in.request \in {"incomplete", "ok"}
RegistrySnapshotValid(in) == in.registry = "ok"
\* an incomplete request names no pinned runner or no network policy
RunnerIdentity(in) == in.request = "ok"
ExternalNetworkDeclared(in) == in.request = "ok"
\* without a suite the registry's default one is used
ScenarioSetDeclared(in) == in.request \in {"incomplete", "ok"}
EvidencePolicyPresent(in) == in.policy = "ok"
NoSourceTreeWrites(in) == in.outside
SourceSnapshot(in) == in.commit

RunPreflight(in, i) ==
    IF ~(/\ RunRequestValid(in) /\ RegistrySnapshotValid(in)
         /\ RunnerIdentity(in) /\ EvidencePolicyPresent(in)
         /\ ScenarioSetDeclared(in) /\ ExternalNetworkDeclared(in)
         /\ OutputDirectoryClean(i) /\ NoSourceTreeWrites(in))
    THEN "fail"
    ELSE IF SourceSnapshot(in) THEN "pass" ELSE "pass-with-warnings"

Preflight(p) ==
    /\ pc[p] = "preflight"
    /\ \E in \in Inputs, dryRun \in BOOLEAN :
          LET failed == RunPreflight(in, rid[p]) = "fail"
          IN /\ Goto(p, IF failed THEN "done" ELSE IF dryRun THEN "dry" ELSE "lock")
             /\ exit' = [exit EXCEPT ![p] = IF failed THEN 1 ELSE 0]
    /\ UNCHANGED <<lock, rid, retentionVars, diskVars>>

\* flock(LOCK_EX) on the lock file of the output base; it blocks.
AcquireLock(p) ==
    /\ pc[p] = "lock"
    /\ lock = NoProc
    /\ lock' = p
    /\ Goto(p, "setup")
    /\ UNCHANGED <<rid, exit, retentionVars, diskVars>>

------------------------------------------------------------------------------
(* Filling the run directory, under the lock.                               *)

\* The body raises: the lock is released, the directory stays as it is, and
\* retention is not reached.
Raise(p) ==
    /\ Goto(p, "raised")
    /\ lock' = NoProc
    /\ exit' = [exit EXCEPT ![p] = 1]
    /\ UNCHANGED <<dir, rid, retentionVars, clock, doomed>>

(* mutant: mkdir with exist_ok *)
SetupReuses(p) ==
    /\ pc[p] = "setup"
    /\ dir' = [dir EXCEPT ![rid[p]] =
                 [exists |-> TRUE, hard |-> FALSE,
                  entries |-> @.entries \cup {<<g, p>> : g \in {"preflight", "workspace"}}]]
    /\ Goto(p, "inputs")
    /\ UNCHANGED <<clock, doomed, lock, rid, exit, retentionVars>>

\* mkdir(exist_ok=False), the subdirectories and the preflight report.
Setup(p) ==
    /\ pc[p] = "setup"
    /\ \/ /\ dir[rid[p]].exists
          /\ Raise(p)
       \/ /\ ~dir[rid[p]].exists
          /\ dir' = [dir EXCEPT ![rid[p]] =
                       [exists |-> TRUE, hard |-> FALSE,
                        entries |-> {<<g, p>> : g \in {"preflight", "workspace"}}]]
          /\ Goto(p, "inputs")
          /\ UNCHANGED <<clock, doomed, lock, rid, exit, retentionVars>>

\* write_sealed_json makes the parent directories it misses, so a run whose
\* directory was removed under it writes on into a new one.
WriteSealed(p, group) ==
    dir' = [dir EXCEPT ![rid[p]] =
              [exists |-> TRUE, hard |-> FALSE, entries |-> @.entries \cup {<<group, p>>}]]

Advance(p, from, group, to) ==
    /\ pc[p] = from
    /\ WriteSealed(p, group)
    /\ Goto(p, to)
    /\ UNCHANGED <<clock, doomed, lock, rid, exit, retentionVars>>

\* Source and environment snapshots, the copied inputs and their manifest;
\* copy2 of the request raises when the directory is gone.
WriteInputs(p) ==
    /\ pc[p] = "inputs"
    /\ \/ dir[rid[p]].exists /\ Advance(p, "inputs", "inputs", "execute")
       \/ ~dir[rid[p]].exists /\ Raise(p)

\* The Clojure pipeline writes below the workspace, which it makes when it
\* has to.
ExecuteScenarios(p) ==
    /\ pc[p] = "execute"
    /\ \E code \in {0, 1} : exit' = [exit EXCEPT ![p] = code]
    /\ WriteSealed(p, "workspace")
    /\ Goto(p, "records")
    /\ UNCHANGED <<clock, doomed, lock, rid, retentionVars>>

\* Results summary, evidence nodes, claims, attestations and inventory.  What
\* the workspace does not hold (or no longer holds) is not copied.
CollectRecords(p) ==
    /\ pc[p] = "records"
    /\ \/ /\ <<"workspace", p>> \in dir[rid[p]].entries
          /\ WriteSealed(p, "records")
       \/ UNCHANGED dir
    /\ Goto(p, "overview")
    /\ UNCHANGED <<clock, doomed, lock, rid, exit, retentionVars>>

WriteOverview(p) == Advance(p, "overview", "overview", "root")

\* The bundle root and, last, the anchor cursor.
WriteBundleRoot(p) == Advance(p, "root", "root", "verify")

GroupsOf(i) == {e[1] : e \in dir[i].entries}

\* The required files and directories (BundleVerification has the checks).
Verifies(i) == Groups \ {"workspace"} \subseteq GroupsOf(i)

(* mutant: the verdict is printed but leaves the exit code alone *)
VerifyIgnored(p) ==
    /\ pc[p] = "verify"
    /\ Goto(p, "harden")
    /\ UNCHANGED <<lock, rid, exit, retentionVars, diskVars>>

Verify(p) ==
    /\ pc[p] = "verify"
    /\ exit' = [exit EXCEPT ![p] = IF Verifies(rid[p]) THEN @ ELSE 1]
    /\ Goto(p, "harden")
    /\ UNCHANGED <<lock, rid, retentionVars, diskVars>>

\* chmod -R a-w after a success, unless it is declined or fails; then the
\* lock is released.
HardenAndRelease(p) ==
    /\ pc[p] = "harden"
    /\ \/ /\ exit[p] = 0 /\ dir[rid[p]].exists
          /\ dir' = [dir EXCEPT ![rid[p]].hard = TRUE]
       \/ UNCHANGED dir
    /\ lock' = NoProc
    /\ Goto(p, "retention")
    /\ UNCHANGED <<clock, doomed, rid, exit, retentionVars>>

\* An exception in any step under the lock (the pipeline's timeout, signing,
\* the disk), or the death of the process.
Interrupt(p) == pc[p] \in Stages /\ Raise(p)

------------------------------------------------------------------------------
(* Retention, outside the lock.                                             *)

Existing == {i \in RunIds : dir[i].exists}

\* How many run directories are one too many.
Surplus ==
    IF MaxRuns = 0 \/ Cardinality(Existing) <= MaxRuns THEN 0
    ELSE Cardinality(Existing) - MaxRuns

\* The first n run directories of the sorted listing.
OldestFirst(n) ==
    {s \in [1..n -> Existing] :
        /\ \A j, k \in 1..n : j < k => s[j] < s[k]
        /\ \A i \in Existing : (\A k \in 1..n : s[k] # i) => \A k \in 1..n : s[k] < i}

EnforceRetention(p) ==
    /\ pc[p] = "retention"
    /\ \E chosen \in OldestFirst(Surplus) :
          /\ victims' = [victims EXCEPT ![p] = chosen]
          /\ listing' = [listing EXCEPT ![p] =
                           IF chosen = <<>> THEN {} ELSE GroupsOf(chosen[1])]
          /\ doomed' = doomed \cup {chosen[k] : k \in DOMAIN chosen}
    /\ Goto(p, "remove")
    /\ UNCHANGED <<clock, dir, lock, rid, exit>>

(* mutant: the removal is given the permissions it lacks *)
UnlinkForced(p) ==
    /\ pc[p] = "remove"
    /\ victims[p] # <<>>
    /\ \E g \in listing[p] :
          /\ listing' = [listing EXCEPT ![p] = @ \ {g}]
          /\ dir' = [dir EXCEPT ![Head(victims[p])].entries = {e \in @ : e[1] # g}]
    /\ UNCHANGED <<clock, doomed, lock, pc, rid, exit, victims>>

(* mutant: a failing unlink is tried again *)
UnlinkRetries(p) ==
    /\ pc[p] = "remove"
    /\ victims[p] # <<>>
    /\ ~dir[Head(victims[p])].hard
    /\ \E g \in listing[p] :
          /\ listing' = [listing EXCEPT ![p] = @ \ {g}]
          /\ dir' = [dir EXCEPT ![Head(victims[p])].entries = {e \in @ : e[1] # g}]
    /\ UNCHANGED <<clock, doomed, lock, pc, rid, exit, victims>>

\* rmtree unlinks what it listed; in a hardened directory every unlink fails
\* and the failure is ignored.
Unlink(p) ==
    /\ pc[p] = "remove"
    /\ victims[p] # <<>>
    /\ \E g \in listing[p] :
          /\ listing' = [listing EXCEPT ![p] = @ \ {g}]
          /\ dir' = IF dir[Head(victims[p])].hard THEN dir
                    ELSE [dir EXCEPT ![Head(victims[p])].entries = {e \in @ : e[1] # g}]
    /\ UNCHANGED <<clock, doomed, lock, pc, rid, exit, victims>>

\* rmdir succeeds on an empty directory only, and its failure is ignored too.
Rmdir(p) ==
    /\ pc[p] = "remove"
    /\ victims[p] # <<>> /\ listing[p] = {}
    /\ LET i == Head(victims[p])
           rest == Tail(victims[p])
       IN /\ dir' = IF dir[i].entries = {} THEN [dir EXCEPT ![i] = NoDir] ELSE dir
          /\ victims' = [victims EXCEPT ![p] = rest]
          /\ listing' = [listing EXCEPT ![p] = IF rest = <<>> THEN {} ELSE GroupsOf(Head(rest))]
    /\ UNCHANGED <<clock, doomed, lock, pc, rid, exit>>

Finish(p) ==
    /\ pc[p] = "remove"
    /\ victims[p] = <<>>
    /\ Goto(p, "done")
    /\ UNCHANGED <<lock, rid, exit, retentionVars, diskVars>>

------------------------------------------------------------------------------
Step(p) ==
    \/ Preflight(p) \/ AcquireLock(p) \/ Setup(p) \/ WriteInputs(p)
    \/ ExecuteScenarios(p) \/ CollectRecords(p) \/ WriteOverview(p) \/ WriteBundleRoot(p) \/ Verify(p) \/ HardenAndRelease(p)
    \/ EnforceRetention(p) \/ Unlink(p) \/ Rmdir(p) \/ Finish(p)

RunNext == Tick \/ \E p \in Procs : Start(p) \/ Step(p) \/ Interrupt(p)

\* A started process keeps running; flock grants a free lock to some waiter.
Fairness == \A p \in Procs : WF_runVars(Step(p))

RunSpec == RunInit /\ [][RunNext]_runVars /\ Fairness

------------------------------------------------------------------------------
\* A run directory never holds files of two runs, although two processes may
\* take the same second as their id, each find the directory clean, and run
\* one after the other, with partial directories of dead runs and removals
\* in between.
UnmixedBundle ==
    \A i \in RunIds : \A e, f \in dir[i].entries : e[2] = f[2]

\* A run that ended with exit code 0, and that no retention pass selected,
\* left a complete bundle of its own.  (A selected one may be gone, even while
\* it was still running: retention does not take the lock.)
SuccessIsWhole ==
    \A p \in Procs :
        pc[p] = "done" /\ exit[p] = 0 /\ rid[p] \notin doomed =>
            /\ Verifies(rid[p])
            /\ \A e \in dir[rid[p]].entries : e[2] = p

\* Once hardened, what a run directory holds never changes again: later runs,
\* their failures and their retention passes leave it alone.  (A directory
\* emptied before chmod can still be removed: rmdir writes to its parent.)
HardenedStands ==
    [][\A i \in RunIds : dir[i].hard /\ dir[i].entries # {} => dir'[i] = dir[i]]_runVars

\* Every started run ends: the lock is always released, by its holder or by
\* the death of its holder, and retention passes terminate.
RunsEnd ==
    \A p \in Procs : pc[p] = "preflight" ~> pc[p] \in Ended
==============================================================================
