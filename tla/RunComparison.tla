---------------------------- MODULE RunComparison ----------------------------
(***************************************************************************)
(* How the forensic tools compare the bundle roots of several executions:  *)
(* per-field agreement and the verdict of the consensus coordinator        *)
(* (consensus.py), of the local quorum (quorum.py), and the field-by-field *)
(* reproduction verdict (reproduce.py).                                    *)
(*                                                                         *)
(* A bundle root is [layout, fields, exit]: its field values, and whether  *)
(* its "a/b" keys are written flat or as nested maps.  A summary is the    *)
(* function of the fields extracted from it; a missing field is outside    *)
(* its domain.                                                             *)
(***************************************************************************)
EXTENDS Integers, FiniteSets, Sequences

CONSTANT Nothing     \* Python's None: a missing value, file or argument

Default(threshold, n) == IF threshold # Nothing THEN threshold
                         ELSE IF n - 1 > 2 THEN n - 1 ELSE 2

------------------------------------------------------------------------------
(* consensus.py                                                             *)

\* _deep_get splits every field name at its slashes, so that a flat key is
\* never found.
BuildSummary(bundle) ==
    IF bundle.layout = "nested" THEN bundle.fields ELSE <<>>

\* The exit code a published submission carries: a code that is not found
\* counts as zero.
PublishedExit(bundle) == IF bundle.layout = "nested" THEN bundle.exit ELSE 0

AllFields(submissions) == UNION {DOMAIN s.summary : s \in submissions}

Having(submissions, f, v) ==
    {s \in submissions : f \in DOMAIN s.summary /\ s.summary[f] = v}

ValuesOf(submissions, f) ==
    {s.summary[f] : s \in {x \in submissions : f \in DOMAIN x.summary}}

\* Counter.most_common(1): among equally frequent values, some one of them.
Winning(submissions, f) ==
    CHOOSE v \in ValuesOf(submissions, f) :
        \A w \in ValuesOf(submissions, f) :
            Cardinality(Having(submissions, f, w)) <= Cardinality(Having(submissions, f, v))

ComputeAgreement(submissions, threshold) ==
    [f \in AllFields(submissions) |->
        LET v == Winning(submissions, f)
            n == Cardinality(Having(submissions, f, v))
        IN [value |-> v, count |-> n,
            status |-> IF n >= threshold THEN "confirmed" ELSE "diverged"]]

ComputeVerdict(agreement, exits) ==
    IF DOMAIN agreement = {} THEN "inconclusive"
    ELSE IF \E f \in DOMAIN agreement : agreement[f].status = "diverged" THEN "diverged"
    ELSE IF exits \subseteq {0} THEN "confirmed" ELSE "confirmed-with-failures"

AgreedHash(agreement) ==
    IF "overview" \in DOMAIN agreement /\ agreement["overview"].status = "confirmed"
    THEN agreement["overview"].value ELSE Nothing

OverviewOf(s) == IF "overview" \in DOMAIN s.summary THEN s.summary["overview"] ELSE Nothing

BuildCertificate(verdict, agreement, submissions, threshold) ==
    LET agreed == AgreedHash(agreement)
    IN [status |-> verdict, agreed |-> agreed, threshold |-> threshold,
        agreement |-> agreement,
        participants |-> {[runner |-> s.runner, overview |-> OverviewOf(s),
                           agree |-> agreed # Nothing /\ OverviewOf(s) = agreed]
                          : s \in submissions}]

BuildDisagreement(agreement, submissions) ==
    LET diverged == {f \in DOMAIN agreement : agreement[f].status = "diverged"}
    IN [fields |-> diverged,
        runners |-> {[runner |-> s.runner,
                      divergent |-> {f \in diverged :
                          f \notin DOMAIN s.summary \/ s.summary[f] # agreement[f].value}]
                     : s \in submissions}]

\* The evidence node passes only for a confirmation without failures.
EvidenceNode(cert) ==
    [hash |-> cert.agreed, status |-> IF cert.status = "confirmed" THEN "pass" ELSE "fail"]

------------------------------------------------------------------------------
(* quorum.py.  bundles[i] says whether execution i left a bundle root.       *)

\* extract_field follows flat and nested keys alike.
Present(bundles, f) ==
    {i \in DOMAIN bundles : bundles[i].exists /\ f \in DOMAIN bundles[i].fields}

Sharing(bundles, f, i) ==
    {j \in Present(bundles, f) : bundles[j].fields[f] = bundles[i].fields[f]}

MostCommon(bundles, f) ==
    CHOOSE i \in Present(bundles, f) : \A j \in Present(bundles, f) :
        Cardinality(Sharing(bundles, f, j)) <= Cardinality(Sharing(bundles, f, i))

FieldAgreement(bundles, f, threshold) ==
    IF Present(bundles, f) = {} THEN "insufficient-data"
    ELSE LET winners == Sharing(bundles, f, MostCommon(bundles, f))
         IN IF Cardinality(winners) >= threshold \/ winners = Present(bundles, f)
            THEN "confirmed" ELSE "insufficient-agreement"

QuorumStatus(bundles, threshold) ==
    LET fields == UNION {DOMAIN bundles[i].fields : i \in DOMAIN bundles}
        results == {FieldAgreement(bundles, f, threshold) : f \in fields}
                       \ {"insufficient-data"}
    IN IF \E i \in DOMAIN bundles : ~bundles[i].exists THEN "failed"
       ELSE IF "insufficient-agreement" \in results THEN "non-deterministic"
       ELSE IF results = {} THEN "inconclusive" ELSE "confirmed"

------------------------------------------------------------------------------
(* reproduce.py                                                             *)

\* FIELD_CLASSIFICATION.  Registry snapshot fields are compared but are not
\* in the table.
CoreFields == {"overview", "totals", "tree"}

ClassifySourcePrecheck(bundleHash, bundleAlgorithm, currentHash, currentAlgorithm) ==
    IF bundleHash = Nothing THEN "missing/original-field"
    ELSE IF bundleAlgorithm = Nothing THEN "missing/algorithm-field"
    ELSE IF bundleAlgorithm # currentAlgorithm THEN "algorithm-mismatch"
    ELSE IF currentHash = bundleHash THEN "matched" ELSE "expected-drift"

ValueIn(fields, f) == IF f \in DOMAIN fields THEN fields[f] ELSE Nothing

ClassifyMismatch(f, old, new, precheck) ==
    IF old = new THEN "matched"
    ELSE IF old = Nothing \/ new = Nothing THEN "missing"
    ELSE IF f \in {"tree", "algorithm"}
            /\ precheck \in {"missing/algorithm-field", "algorithm-mismatch"}
         THEN "legacy-algorithm"
    ELSE IF f # "algorithm" /\ precheck = "expected-drift" THEN "expected-drift"
    ELSE "mismatch"

\* Every compared field with its reason.
CompareBundleFields(old, new, precheck) ==
    [f \in DOMAIN old \cup DOMAIN new |->
        ClassifyMismatch(f, ValueIn(old, f), ValueIn(new, f), precheck)]

(* mutant: any drift makes the other mismatches acceptable *)
ReproduceVerdictDriftFirst(checks) ==
    LET core == {f \in DOMAIN checks : f \in CoreFields}
        reasons == {checks[f] : f \in core}
    IN IF DOMAIN checks # {} /\ \A f \in DOMAIN checks : checks[f] = "missing"
       THEN "invalid-original-bundle"
       ELSE IF core = {} THEN "inconclusive"
       ELSE IF reasons \cap {"expected-drift", "legacy-algorithm"} # {}
            THEN "reproduced-with-explained-drift"
       ELSE IF "mismatch" \in reasons THEN "diverged"
       ELSE IF "missing" \in reasons THEN "reproduced-with-legacy-gaps"
       ELSE "verified"

ReproduceVerdict(checks) ==
    LET core == {f \in DOMAIN checks : f \in CoreFields}
        reasons == {checks[f] : f \in core}
    IN IF DOMAIN checks # {} /\ \A f \in DOMAIN checks : checks[f] = "missing"
       THEN "invalid-original-bundle"
       ELSE IF core = {} THEN "inconclusive"
       ELSE IF "mismatch" \in reasons THEN "diverged"
       ELSE IF "expected-drift" \in reasons THEN "reproduced-with-explained-drift"
       ELSE IF reasons \cap {"legacy-algorithm", "missing"} # {}
            THEN "reproduced-with-legacy-gaps"
       ELSE "verified"

Reproduced == {"verified", "reproduced-with-explained-drift", "reproduced-with-legacy-gaps"}

==============================================================================
