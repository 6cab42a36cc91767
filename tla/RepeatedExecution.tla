-------------------------- MODULE RepeatedExecution --------------------------
(***************************************************************************)
(* The two tools that execute a suite again and compare: the local quorum  *)
(* (quorum.py), which runs it Runs times in a thread pool, and reproduce   *)
(* (reproduce.py), which runs it once against an earlier bundle.  The      *)
(* checkout may be edited meanwhile, and an execution may be flaky, fail,  *)
(* leave no bundle root or time out.                                       *)
(***************************************************************************)
EXTENDS RunComparison

CONSTANTS Runs,        \* --runs
          Thresholds,  \* --threshold, or Nothing
          Originals,   \* [hash, algorithm, fields] of the bundle to reproduce
          MaxSource    \* bound on the versions of the checkout

CurrentAlgorithm == "v2"
UnknownHash == -1    \* "unknown": the tree could not be hashed
PrecheckReasons == {"missing/original-field", "missing/algorithm-field",
                    "algorithm-mismatch", "matched", "expected-drift"}

ASSUME RunsAssumption ==
    /\ Runs \in Nat \ {0} /\ MaxSource \in Nat
    /\ Thresholds \subseteq Int \cup {Nothing}
    /\ \A o \in Originals : \A f \in DOMAIN o.fields : o.fields[f] # Nothing
    /\ Nothing \notin Int \cup {"confirmed", CurrentAlgorithm} \cup Reproduced
                      \cup [hash : UnknownHash..MaxSource, reason : PrecheckReasons]

VARIABLES tool,      \* "quorum" or "reproduce"
          argument,  \* its threshold, or the original
          source,    \* version of the checkout; also its tree hash
          precheck,  \* [hash, reason] of the source pre-check
          job,       \* job[i]: execution i
          verdict

execVars == <<tool, argument, source, precheck, job, verdict>>

Jobs == 1..Runs
Ended(exists, fields, exit) ==
    [pc |-> "end", exists |-> exists, fields |-> fields, exit |-> exit]

ExecInit ==
    /\ \/ tool = "quorum" /\ argument \in Thresholds /\ job = [i \in Jobs |-> [pc |-> "wait"]]
       \/ tool = "reproduce" /\ argument \in Originals /\ job = [i \in {1} |-> [pc |-> "wait"]]
    /\ source = 0 /\ precheck = Nothing /\ verdict = Nothing

EditSource ==
    /\ source < MaxSource
    /\ source' = source + 1
    /\ UNCHANGED <<tool, argument, precheck, job, verdict>>

\* The pre-check compares the checkout with the source hash of the bundle.
\* A checkout that cannot be hashed counts as other source.
Precheck ==
    /\ tool = "reproduce" /\ precheck = Nothing
    /\ \E hash \in {source, UnknownHash} :
          precheck' = [hash |-> hash,
                       reason |-> ClassifySourcePrecheck(argument.hash, argument.algorithm,
                                                         hash, CurrentAlgorithm)]
    /\ UNCHANGED <<tool, argument, source, job, verdict>>

\* The process loads the checkout as it is now.
Execute(i) ==
    /\ job[i].pc = "wait"
    /\ tool = "reproduce" => precheck # Nothing
    /\ job' = [job EXCEPT ![i] = [pc |-> "run", version |-> source]]
    /\ UNCHANGED <<tool, argument, source, precheck, verdict>>

\* What an execution of version v can leave: the result of that version, or
\* a result that varies from run to run.  The bundle root records the source
\* hash it is given in PRF_SOURCE_TREE_HASH, which reproduce sets.
ResultFields(v, recorded) ==
    {[overview |-> o, totals |-> v, registry |-> v, tree |-> recorded,
      algorithm |-> CurrentAlgorithm] : o \in {v, MaxSource + 1}}

Complete(i) ==
    /\ job[i].pc = "run"
    /\ LET v == job[i].version
           recorded == IF tool = "reproduce" THEN precheck.hash ELSE v
       IN \/ \E fields \in ResultFields(v, recorded), code \in {0, 1} :
                job' = [job EXCEPT ![i] = Ended(TRUE, fields, code)]
          \/ job' = [job EXCEPT ![i] = Ended(FALSE, <<>>, 1)]
    /\ UNCHANGED <<tool, argument, source, precheck, verdict>>

\* subprocess.run raises: the tool ends with a traceback and no report.
TimeOut(i) ==
    /\ job[i].pc = "run" /\ verdict = Nothing
    /\ verdict' = "raised"
    /\ UNCHANGED <<tool, argument, source, precheck, job>>

AllEnded == \A i \in DOMAIN job : job[i].pc = "end"

Quorum ==
    /\ tool = "quorum" /\ AllEnded /\ verdict = Nothing
    /\ verdict' = QuorumStatus(job, Default(argument, Runs))
    /\ UNCHANGED <<tool, argument, source, precheck, job>>

ReproduceRun ==
    /\ tool = "reproduce" /\ AllEnded /\ verdict = Nothing
    /\ verdict' = IF ~job[1].exists \/ job[1].exit # 0 THEN "reproduce-failed"
                  ELSE ReproduceVerdict(CompareBundleFields(argument.fields, job[1].fields,
                                                            precheck.reason))
    /\ UNCHANGED <<tool, argument, source, precheck, job>>

ExecNext == \/ EditSource \/ Precheck \/ Quorum \/ ReproduceRun
            \/ \E i \in DOMAIN job : Execute(i) \/ Complete(i) \/ TimeOut(i)

ExecSpec == ExecInit /\ [][ExecNext]_execVars

------------------------------------------------------------------------------

\* The executions that report something else for f than execution i does.
Dissenters(f, i) == {j \in Present(job, f) : job[j].fields[f] # job[i].fields[f]}

\* A confirmed quorum means that every execution left a bundle root and that
\* on every field at most as many of them dissent from the rest as the
\* threshold leaves out, even when the checkout was edited between them.  A
\* reproduction that exits 0 left no difference in a core field unexplained:
\* where both bundles have the field and differ, the pre-check had found
\* other source than the bundle records (or had failed to hash the checkout,
\* which it takes for other source), or the field is the source hash
\* under another algorithm; and "verified" leaves no difference at all.
RepeatedResultsSound ==
    /\ tool = "quorum" /\ verdict = "confirmed" =>
         /\ \A i \in Jobs : job[i].exists
         /\ \A f \in UNION {DOMAIN job[i].fields : i \in Jobs} : \E i \in Present(job, f) :
               \/ Dissenters(f, i) = {}
               \/ Cardinality(Dissenters(f, i)) <= Runs - Default(argument, Runs)
    /\ tool = "reproduce" /\ verdict \in Reproduced =>
         /\ job[1].exists /\ job[1].exit = 0
         /\ \A f \in CoreFields \cap DOMAIN argument.fields \cap DOMAIN job[1].fields :
               \/ argument.fields[f] = job[1].fields[f]
               \/ /\ verdict # "verified"
                  /\ \/ argument.hash \notin {precheck.hash, Nothing}
                        /\ argument.algorithm = CurrentAlgorithm
                     \/ f = "tree" /\ argument.algorithm # CurrentAlgorithm
==============================================================================
