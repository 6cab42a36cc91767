-------------------------- MODULE BundleVerification --------------------------
(***************************************************************************)
(* Verification of a forensic run bundle (scripts/forensic/verify.py).     *)
(* A run accumulates a protocol history, seals its bundle, at most one     *)
(* thing then happens to the directory, and a verifier with options of its *)
(* own reports.  A sealed file is its content and the content its recorded *)
(* hash commits to; the signature commits to the recorded hash.            *)
(***************************************************************************)
EXTENDS EvidenceDag, ForceAuthEvidence

CONSTANTS Dags,      \* evidence directories that runs leave behind
          PlainDag,  \* the one used when the protocol history varies
          Refs,      \* what a bundle root may name as its execution node
          NoRef      \* the bundle root names no node

ASSUME BundleAssumption == PlainDag \in Dags /\ NoRef \in Refs

\* A directory has finitely many files, with names that are ordered, and the
\* parents of a node are a list.
ASSUME DagAssumption ==
    \A d \in Dags :
        /\ IsFiniteSet(DOMAIN d) /\ DOMAIN d \subseteq Nat
        /\ \A f \in DOMAIN d : d[f].parents \in Seq(Members(d[f].parents))

VARIABLES phase, dag, bundle, fault, options, report

bundleVars == <<dag, bundle, fault, options>>
vars == <<historyVars, searchVars, bundleVars, phase, report>>

RequiredFiles == {"preflight-report", "source-snapshot", "environment",
                  "input-manifest", "run-overview", "run-bundle-root"}
RequiredDirs == {"evidence-dag", "claims", "attestations", "anchors"}
OptionalEntries == {"evidence-dag-inventory", "anchor-cursor", "registry.tsr", "results-summary"}

Sealed(content) == [content |-> content, recorded |-> content]

Options == [key : {"none", "absent", "right", "wrong"},
            clojure : {"agrees", "disagrees", "not-installed"},
            expected : {"none", "sew", "unregistered"},
            require : BOOLEAN]

NoOptions == [key |-> "none", clojure |-> "not-installed", expected |-> "none", require |-> FALSE]

EmptyBundle == [present |-> {}]

------------------------------------------------------------------------------
(* Sealing: what run.py leaves in the run directory.                        *)

SignBundleHash(signed) == IF signed THEN "original" ELSE "unsigned"

SealBundle(ref, signed, tsa, descriptor) ==
    [present |-> RequiredFiles \cup RequiredDirs \cup {"evidence-dag-inventory", "anchor-cursor", "results-summary"}
                     \cup (IF tsa THEN {"registry.tsr"} ELSE {}),
     root |-> Sealed("original"),
     rootParses |-> TRUE,
     signature |-> SignBundleHash(signed),
     overview |-> Sealed("original"),
     preflight |-> "pass",
     resultsParse |-> TRUE,
     claims |-> <<[file |-> Sealed("original"), known |-> TRUE]>>,
     attestations |-> <<[file |-> Sealed("original"), known |-> TRUE]>>,
     anchor |-> IF tsa THEN "rfc3161" ELSE "local-proof",
     inventory |-> WriteDagInventory(dag'),
     ref |-> ref,
     descriptor |-> descriptor,
     protocol |-> Export]

Extend == phase = "history" /\ HistoryStep /\ UNCHANGED <<searchVars, bundleVars, phase, report>>

\* The runner's own roots name no protocol; those exported with a protocol
\* history do.  Unusual directories are combined with an empty history only.
Seal ==
    /\ phase = "history"
    /\ \E d \in Dags, ref \in Refs, signed, tsa \in BOOLEAN, descriptor \in Descriptors :
          /\ d = PlainDag \/ (events = <<>> /\ descriptor = "absent" /\ ~signed /\ ~tsa)
          /\ events # <<>> => descriptor = "sew" /\ ref \in NodeHashes(d) /\ ~signed /\ ~tsa
          /\ dag' = d
          /\ bundle' = SealBundle(ref, signed, tsa, descriptor)
    /\ phase' = "sealed"
    /\ UNCHANGED <<historyVars, searchVars, fault, options, report>>

------------------------------------------------------------------------------
(* What may happen to a sealed directory: one entry is lost or added, or one *)
(* file is changed, with or without its recorded hash following the change.         *)

Edit(file, rehash) ==
    [content |-> "edited", recorded |-> IF rehash THEN "edited" ELSE file.recorded]

Damage(name, changed) ==
    /\ phase = "sealed" /\ fault = "none"
    /\ dag = PlainDag
    /\ fault' = name
    /\ bundle' = changed
    /\ UNCHANGED <<historyVars, searchVars, dag, options, phase, report>>

Lose ==
    /\ phase = "sealed"
    /\ \E e \in bundle.present : Damage("lost", [bundle EXCEPT !.present = @ \ {e}])

Stray ==
    /\ phase = "sealed"
    /\ Damage("stray", [bundle EXCEPT !.present = @ \cup {"stray"}])

ChangeRoot ==
    \/ \E rehash \in BOOLEAN : Damage("root", [bundle EXCEPT !.root = Edit(@, rehash)])
    \/ Damage("root", [bundle EXCEPT !.rootParses = FALSE])

ChangeReports ==
    \/ \E rehash \in BOOLEAN : Damage("overview", [bundle EXCEPT !.overview = Edit(@, rehash)])
    \/ Damage("preflight", [bundle EXCEPT !.preflight = "fail"])
    \/ Damage("results", [bundle EXCEPT !.resultsParse = FALSE])

ChangeRecords ==
    \/ Damage("claims", [bundle EXCEPT !.claims = <<>>])
    \/ Damage("attestations", [bundle EXCEPT !.attestations = <<>>])
    \/ \E rehash, known \in BOOLEAN :
          \/ Damage("claims", [bundle EXCEPT !.claims[1] =
                                  [file |-> Edit(@.file, rehash), known |-> known]])
          \/ Damage("attestations", [bundle EXCEPT !.attestations[1] =
                                        [file |-> Edit(@.file, rehash), known |-> known]])

\* Evidence events dropped or exchanged, or the status of a record changed.
Dropped(es, k) == SubSeq(es, 1, k - 1) \o SubSeq(es, k + 1, Len(es))
Exchanged(es, j, k) == [es EXCEPT ![j] = es[k], ![k] = es[j]]

ChangeProtocol ==
    /\ phase = "sealed"
    /\ LET x == bundle.protocol
           altered(y) == Damage("protocol", [bundle EXCEPT !.protocol = y])
       IN \/ \E k \in DOMAIN x.events : altered([x EXCEPT !.events = Dropped(@, k)])
          \/ \E j, k \in DOMAIN x.events :
                j < k /\ altered([x EXCEPT !.events = Exchanged(@, j, k)])
          \/ \E s \in Scenarios, i \in Ids, status \in Statuses \ {"none"}, rehash \in BOOLEAN :
                /\ x.witness.record[s][i].status \notin {"none", status}
                /\ LET w == [x.witness EXCEPT !.record[s][i].status = status]
                   IN altered([x EXCEPT !.witness = w,
                                        !.witnessHash = IF rehash THEN w ELSE @])

------------------------------------------------------------------------------
(* The checks.  Each returns what VerifyCheck records of it.                *)

Check(status, severity) == [status |-> status, severity |-> severity]
RequiredCheck(ok) == Check(IF ok THEN "pass" ELSE "fail", "required")

Has(b, e) == e \in b.present
ReadableRoot(b) == Has(b, "run-bundle-root") /\ b.rootParses

CheckExists(b) == {RequiredCheck(Has(b, f)) : f \in RequiredFiles}
CheckDirExists(b) == {RequiredCheck(Has(b, d)) : d \in RequiredDirs}
CheckBundleRootValid(b) == RequiredCheck(ReadableRoot(b))
CheckOverviewValid(b) == RequiredCheck(Has(b, "run-overview"))
CheckPreflightValid(b) == RequiredCheck(Has(b, "preflight-report") /\ b.preflight = "pass")

\* The recorded hash of the root and of the overview against the content: a
\* mismatch fails with severity "warning".
CheckHash(readable, file) ==
    Check(IF ~readable THEN "skip" ELSE IF file.recorded = file.content THEN "pass" ELSE "fail",
          "warning")

CheckBundleRootHash(b) == CheckHash(ReadableRoot(b), b.root)
CheckOverviewHash(b) == CheckHash(Has(b, "run-overview"), b.overview)

\* The signature covers the recorded hash.
VerifyEd25519Native(b, o) == o.key = "right" /\ b.signature = b.root.recorded

\* Native verification, cross-checked by Clojure where it is installed.
NativeOrFallback(b, o) == VerifyEd25519Native(b, o) /\ o.clojure # "disagrees"

CheckBundleSignature(b, o) ==
    IF ~ReadableRoot(b) THEN Check("skip", "warning")
    ELSE IF b.signature = "unsigned" \/ o.key = "none" THEN Check("info", "info")
    ELSE IF o.key = "absent" THEN Check("fail", "required")
    ELSE IF NativeOrFallback(b, o) THEN Check("pass", "warning") ELSE Check("fail", "required")

CheckResultsSummary(b) ==
    IF ~Has(b, "results-summary") THEN Check("info", "info")
    ELSE IF b.resultsParse THEN Check("pass", "info") ELSE Check("fail", "warning")

\* Whichever of the derived files are there.
CheckMechanismPersistenceArtifacts(b) == Check("info", "info")

CheckNoExtraDirs(b) ==
    Check(IF b.present \subseteq RequiredFiles \cup RequiredDirs \cup OptionalEntries
          THEN "pass" ELSE "info", "info")

(* mutant: an unexpected status ends the check before the hash *)
CheckClaimFileStatusFirst(c) ==
    IF ~c.known THEN Check("warning", "warning")
    ELSE RequiredCheck(c.file.recorded = c.file.content)

\* A claim is hashed before its status is looked at.
CheckClaimFile(c) ==
    IF c.file.recorded # c.file.content THEN Check("fail", "required")
    ELSE IF ~c.known THEN Check("warning", "warning") ELSE Check("pass", "required")

\* An attestation's claim-result is looked at first, and an unexpected one
\* ends the check before the hash.
CheckAttestationFile(a) ==
    IF ~a.known THEN Check("warning", "warning")
    ELSE RequiredCheck(a.file.recorded = a.file.content)

\* A directory that is missing or has no file is one failed check.
CheckContent(b, dir, checks) ==
    IF Has(b, dir) /\ checks # {} THEN checks ELSE {Check("fail", "required")}

CheckClaimsContent(b) ==
    CheckContent(b, "claims", {CheckClaimFile(b.claims[k]) : k \in DOMAIN b.claims})
CheckAttestationsContent(b) ==
    CheckContent(b, "attestations",
                 {CheckAttestationFile(b.attestations[k]) : k \in DOMAIN b.attestations})

RootRefs(b) == {b.ref} \ {NoRef}
EdnFiles == {f \in DOMAIN dag : dag[f].ext = "edn"}

CheckEvidenceDag(b, cycles) ==
    IF ~Has(b, "evidence-dag") THEN Check("fail", "required")
    ELSE IF Has(b, "evidence-dag-inventory")
         THEN RequiredCheck(ValidateEvidenceDagInventory(b.inventory, RootRefs(b),
                                                         Cardinality(EdnFiles), cycles) = {})
         ELSE IF EdnFiles # {} /\ RootRefs(b) # {} THEN Check("pass", "required")
              ELSE Check("info", "info")

CheckAnchorContent(b) ==
    IF ~Has(b, "anchors") \/ ~Has(b, "anchor-cursor") THEN Check("info", "info")
    ELSE IF b.anchor = "rfc3161" /\ ~Has(b, "registry.tsr") THEN Check("fail", "required")
    ELSE Check("pass", "info")

\* The dispatcher's own checks carry its status; expected identity and the
\* demand for semantics add to them.
CheckProtocolSemantics(b, o) ==
    LET status == IF b.rootParses THEN ValidateProtocolBundle(b.descriptor, b.protocol)
                                  ELSE "error"
        declared == IF ~b.rootParses \/ b.descriptor \in {"absent", "not-a-map"}
                    THEN "none" ELSE b.descriptor
    IN IF ~Has(b, "run-bundle-root") THEN {Check("skip", "info")}
       ELSE {IF status \in {"fail", "error"} \/ (status = "not-verified" /\ o.require)
             THEN Check("fail", "required") ELSE Check(status, "info")}
            \cup (IF o.expected = "none" THEN {} ELSE {RequiredCheck(declared = o.expected)})
            \cup (IF status = "pass" /\ LifecycleWarns(b.protocol)
                  THEN {Check("warn", "warning")} ELSE {})

VerifyRun(b, o, cycles) ==
    CheckExists(b) \cup CheckDirExists(b)
        \cup {CheckBundleRootValid(b), CheckOverviewValid(b), CheckPreflightValid(b),
              CheckEvidenceDag(b, cycles),
              CheckBundleRootHash(b), CheckOverviewHash(b),
              CheckBundleSignature(b, o), CheckResultsSummary(b),
              CheckMechanismPersistenceArtifacts(b), CheckNoExtraDirs(b),
              CheckAnchorContent(b)}
        \cup CheckClaimsContent(b) \cup CheckAttestationsContent(b)
        \cup CheckProtocolSemantics(b, o)

Aggregate(checks) ==
    IF Check("fail", "required") \in checks THEN "fail"
    ELSE IF \E c \in checks : c.status = "warning" THEN "pass-with-warnings" ELSE "pass"

------------------------------------------------------------------------------
(* Running the verifier.                                                    *)

\* Options other than the defaults are combined with the plain directory.
Begin ==
    /\ phase = "sealed"
    /\ options' \in IF dag = PlainDag /\ events = <<>> THEN Options ELSE {NoOptions}
    /\ phase' = "searching"
    /\ IF Has(bundle, "evidence-dag") /\ Has(bundle, "evidence-dag-inventory")
       THEN SearchStart(bundle.inventory) ELSE UNCHANGED searchVars
    /\ UNCHANGED <<historyVars, dag, bundle, fault, report>>

Search ==
    /\ phase = "searching"
    /\ SearchRoot(bundle.inventory) \/ SearchEdge(bundle.inventory) \/ SearchReturn
    /\ UNCHANGED <<historyVars, bundleVars, phase, report>>

\* RecursionError is not caught by verify_run.
Overflow ==
    /\ phase = "searching"
    /\ SearchOverflows
    /\ phase' = "reported"
    /\ report' = "exception"
    /\ UNCHANGED <<historyVars, searchVars, bundleVars>>

Report ==
    /\ phase = "searching"
    /\ SearchDone
    /\ phase' = "reported"
    /\ report' = Aggregate(VerifyRun(bundle, options, cyclic))
    /\ UNCHANGED <<historyVars, searchVars, bundleVars>>

Init ==
    /\ HistoryInit
    /\ SearchInit
    /\ phase = "history"
    /\ dag = PlainDag
    /\ bundle = EmptyBundle
    /\ fault = "none"
    /\ options = NoOptions
    /\ report = "none"

Done == phase = "reported" /\ UNCHANGED vars

Next == Extend \/ Seal \/ Lose \/ Stray \/ ChangeRoot \/ ChangeReports \/ ChangeRecords
            \/ ChangeProtocol \/ Begin \/ Search \/ Overflow \/ Report \/ Done

Spec == Init /\ [][Next]_vars

------------------------------------------------------------------------------
Accepted == phase = "reported" /\ report \in {"pass", "pass-with-warnings"}

\* The evidence-DAG check of an untouched bundle accepts exactly the
\* well-formed directories, whatever order the search visits them in, except
\* that it may die on a path longer than the interpreter's stack.
DagVerdict ==
    phase = "reported" /\ fault = "none" /\ bundle.descriptor = "absent" /\ options = NoOptions =>
        /\ report = "exception" => HasLongPath(dag)
        /\ report # "exception" => (report = "pass" <=> WellFormedDag(dag, RootRefs(bundle)))

\* The verdict on an honest export of a protocol history: accepted exactly
\* when some authorisation was consumed, no id recurs in two scenarios and
\* every execution is the only one of a single-claim authorisation that was
\* consumed and not revoked.  Pending, re-executed, superseded, related-claims
\* and revoked-after-use histories are refused.  The search may overflow here
\* too, and only on a long path.
HonestVerdict ==
    (/\ phase = "reported" /\ fault = "none" /\ dag = PlainDag
     /\ bundle.descriptor = "sew" /\ options = NoOptions)
        => /\ report = "exception" => HasLongPath(dag)
           /\ report # "exception" =>
                 (report = "pass" <=> WellFormedDag(dag, RootRefs(bundle)) /\ AcceptedHistory)

\* Whatever was changed, accepted force-authorisation evidence supports
\* itself: granted before, executed once, consumed by one adjustment and
\* never revoked.
AcceptedEvidenceIsSound ==
    Accepted /\ bundle.descriptor = "sew" => SoundEvidence(bundle.protocol)

\* A bundle is accepted only when everything required is there, every claim
\* and every attestation with an expected result is the one whose hash it
\* records, a requested timestamp has its token, and a signature checked with
\* a key covers the recorded root hash.
AcceptedIsIntact ==
    Accepted =>
        /\ RequiredFiles \cup RequiredDirs \subseteq bundle.present
        /\ bundle.claims # <<>> /\ bundle.attestations # <<>>
        /\ \A k \in DOMAIN bundle.claims :
              bundle.claims[k].file = Sealed(bundle.claims[k].file.content)
        /\ \A k \in DOMAIN bundle.attestations :
              \/ bundle.attestations[k].file = Sealed(bundle.attestations[k].file.content)
              \/ report = "pass-with-warnings"
        /\ bundle.anchor = "rfc3161" /\ Has(bundle, "anchor-cursor") => Has(bundle, "registry.tsr")
        /\ bundle.signature # "unsigned" /\ options.key # "none" =>
              options.key = "right" /\ bundle.root.recorded = "original"
==============================================================================
