---------------------------- MODULE RunnerMailbox ----------------------------
(***************************************************************************)
(* The runner mailbox (mailbox.py, signatures.py, identity.py): a shared   *)
(* directory in which runners publish result submissions and from which    *)
(* consensus coordinators (consensus.py) read them and write a certificate *)
(* back, all without a lock; and the validation of that directory.         *)
(*                                                                         *)
(* write_text truncates the file before it fills it, so every message is   *)
(* written in two steps and a reader in between finds no JSON.  A hash is  *)
(* the body it was computed over.  One run request is modelled.            *)
(***************************************************************************)
EXTENDS RunComparison

CONSTANTS Runners, Coordinators,
          Bundles,       \* bundle roots the executions of each runner may leave
          KeyArguments,  \* what each runner's --runner-key may name: a key, BadKey or Nothing
          Registries,    \* identity registries, or Nothing, given to validation
          ConsensusThresholds,  \* --threshold of consensus.py, or Nothing
          MaxPublications, MaxEdits   \* bounds

BadKey == "unsupported key file"

Keys == UNION {KeyArguments[r] : r \in Runners}
AllBundles == UNION {Bundles[r] : r \in Runners}

\* What a submission says, and the file it is in: a hash is the body it was
\* computed over, and a signature holds the payload that was signed.
Body == [runner : Runners, time : 0..MaxPublications,
         summary : {BuildSummary(b) : b \in AllBundles},
         exit : {PublishedExit(b) : b \in AllBundles}]
Signature == [key : Keys, payload : Body \X Body]
Messages == [body : Body, hash : Body, sig : {Nothing} \cup Signature]

ASSUME MailboxAssumption ==
    /\ IsFiniteSet(Runners) /\ MaxPublications \in Nat /\ MaxEdits \in Nat
    /\ Nothing \notin Messages
    /\ ConsensusThresholds \subseteq Int \cup {Nothing} /\ Nothing \notin Int
    /\ \A registry \in Registries \ {Nothing} :
          /\ \A r \in DOMAIN registry :
                registry[r].status \in {"trusted", "unknown", "inactive", "revoked"}
          \* _by_key keeps one entry per public key
          /\ \A r, q \in DOMAIN registry : registry[r].key = registry[q].key => r = q

VARIABLES box,       \* "absent", "dirs" or "ready": how far init got
          request,   \* the run request has been published
          sub,       \* submission files by name; Nothing while one is truncated
          pub,       \* pub[r]: the publish-submission process of runner r
          coord,     \* coord[c]: the process of coordinator c
          out,       \* the files of consensus/
          objects,   \* the content-addressed store
          edits,     \* number of files edited in place
          readable,  \* bodies that some submission file has shown (history)
          signed     \* <<body, key>> pairs signed by a runner (history)

vars == <<box, request, sub, pub, coord, out, objects, edits, readable, signed>>
boxVars == <<box, request>>
history == <<edits, readable, signed>>

IdlePublisher == [pc |-> "idle"]
IdleCoordinator == [pc |-> "idle"]
\* Of the round whose certificate this is (history): settled, the runners with
\* a complete submission when it began, and asked, the threshold it was given.
NoOutput == [cert |-> Nothing, dis |-> Nothing, node |-> Nothing, settled |-> {}, asked |-> Nothing]

Init ==
    /\ box = "absent" /\ request = FALSE
    /\ sub = [n \in {} |-> Nothing]
    /\ pub = [r \in Runners |-> IdlePublisher]
    /\ coord = [c \in Coordinators |-> IdleCoordinator]
    /\ out = NoOutput
    /\ objects = {}
    /\ edits = 0 /\ readable = {} /\ signed = {}

------------------------------------------------------------------------------
(* Mailbox and run request.                                                 *)

\* Refused once mailbox.json exists, and also when the directories of an
\* initialisation that died are still there.
InitMailbox ==
    /\ box = "absent"
    /\ box' = "dirs"
    /\ UNCHANGED <<request, sub, pub, coord, out, objects, history>>

WriteMailboxJson ==
    /\ box = "dirs"
    /\ box' = "ready"
    /\ UNCHANGED <<request, sub, pub, coord, out, objects, history>>

\* The runners and the coordinators are given the hash it prints.
WriteRunRequest ==
    /\ box = "ready" /\ ~request
    /\ request' = TRUE
    /\ UNCHANGED <<box, sub, pub, coord, out, objects, history>>

------------------------------------------------------------------------------
(* Publishing a submission.                                                 *)

MakeMessage(r, t, bundle) ==
    [runner |-> r, time |-> t, summary |-> BuildSummary(bundle),
     exit |-> PublishedExit(bundle)]

(* mutant: one file per runner *)
FileNameByRunner(body) == <<body.runner, "submission">>

FileName(body) == <<body.runner, body>>

Message(body, sig) == [body |-> body, hash |-> body, sig |-> sig]

Put(name, content) ==
    sub' = [n \in DOMAIN sub \cup {name} |-> IF n = name THEN content ELSE sub[n]]

\* cmd_publish_submission up to the open of the submission file.  The clock
\* that stamps the messages is taken not to go back.
PublishSubmission(r) ==
    /\ request /\ pub[r].pc = "idle"
    /\ Cardinality(DOMAIN sub) < MaxPublications
    /\ \E b \in Bundles[r] :
          LET body == MakeMessage(r, Cardinality(DOMAIN sub), b)
          IN /\ pub' = [pub EXCEPT ![r] = [pc |-> "write", body |-> body]]
             /\ objects' = objects \cup {<<"manifest", b>>}
             /\ Put(FileName(body), Nothing)
    /\ UNCHANGED <<boxVars, coord, out, history>>

\* The message is there, still without its signature.  Without a key, and
\* with a key file that is refused, it stays so.
WriteSubmission(r) ==
    /\ pub[r].pc = "write"
    /\ LET body == pub[r].body
       IN /\ Put(FileName(body), Message(body, Nothing))
          /\ readable' = readable \cup {body}
          /\ \E k \in KeyArguments[r] :
                pub' = [pub EXCEPT ![r] = IF k \in {Nothing, BadKey} THEN IdlePublisher
                                          ELSE [pc |-> "sign", body |-> body, key |-> k]]
    /\ UNCHANGED <<boxVars, coord, out, objects, edits, signed>>

\* The same file is truncated again to be rewritten with the signature.
SignSubmission(r) ==
    /\ pub[r].pc = "sign"
    /\ Put(FileName(pub[r].body), Nothing)
    /\ signed' = signed \cup {<<pub[r].body, pub[r].key>>}
    /\ pub' = [pub EXCEPT ![r].pc = "rewrite"]
    /\ UNCHANGED <<boxVars, coord, out, objects, edits, readable>>

SignMessage(body, k) == Message(body, [key |-> k, payload |-> <<body, body>>])

RewriteSubmission(r) ==
    /\ pub[r].pc = "rewrite"
    /\ Put(FileName(pub[r].body), SignMessage(pub[r].body, pub[r].key))
    /\ pub' = [pub EXCEPT ![r] = IdlePublisher]
    /\ UNCHANGED <<boxVars, coord, out, objects, history>>

PublisherDies(r) ==
    /\ pub[r].pc # "idle"
    /\ pub' = [pub EXCEPT ![r] = IdlePublisher]
    /\ UNCHANGED <<boxVars, sub, coord, out, objects, history>>

\* A signed submission edited in place after its publication, with or without
\* its hash recomputed.
EditSubmission(n) ==
    /\ sub[n] # Nothing /\ pub[n[1]].pc = "idle" /\ sub[n].sig # Nothing
    /\ edits < MaxEdits
    /\ edits' = edits + 1
    /\ \E b \in Bundles[n[1]], rehash \in BOOLEAN :
          LET body == [sub[n].body EXCEPT !.summary = BuildSummary(b)]
          IN /\ body # sub[n].body
             /\ Put(n, [body |-> body, hash |-> IF rehash THEN body ELSE sub[n].hash,
                        sig |-> sub[n].sig])
             /\ readable' = readable \cup {body}
    /\ UNCHANGED <<boxVars, pub, coord, out, objects, signed>>

------------------------------------------------------------------------------
(* Reading submissions.                                                     *)

\* The latest message of a runner with several; the clock decides.
Latest(msgs) == CHOOSE m \in msgs : \A x \in msgs : x.body.time <= m.body.time

(* mutant: messages are told apart by hash only *)
DeduplicateByHash(msgs) == msgs

DeduplicateSubmissions(msgs) ==
    {Latest({m \in msgs : m.body.runner = r}) : r \in {m.body.runner : m \in msgs}}

Equivocating(msgs) ==
    {r \in Runners : Cardinality({m.hash : m \in {x \in msgs : x.body.runner = r}}) > 1}

Bodies(msgs) == {m.body : m \in msgs}

------------------------------------------------------------------------------
(* A consensus round over the mailbox.                                      *)

\* The names of the submission files, read one file at a time afterwards.
StartRound(c) ==
    /\ request /\ coord[c].pc = "idle"
    /\ coord' = [coord EXCEPT ![c] =
                   [pc |-> "read", todo |-> DOMAIN sub, got |-> {},
                    settled |-> {n[1] : n \in {m \in DOMAIN sub :
                        sub[m] # Nothing /\ (pub[m[1]].pc = "idle" \/ FileName(pub[m[1]].body) # m)}}]]
    /\ UNCHANGED <<boxVars, sub, pub, out, objects, history>>

\* In the order of the file names.  A file that does not parse is skipped.
ReadSubmission(c) ==
    /\ coord[c].pc = "read" /\ coord[c].todo # {}
    /\ LET n == CHOOSE x \in coord[c].todo : TRUE
       IN coord' = [coord EXCEPT ![c] =
                      [pc |-> "read", todo |-> coord[c].todo \ {n},
                       got |-> coord[c].got \cup ({sub[n]} \ {Nothing}),
                       settled |-> coord[c].settled]]
    /\ UNCHANGED <<boxVars, sub, pub, out, objects, history>>

\* asked: the threshold of the command line, Nothing without one.
Certify(msgs, asked) ==
    LET votes == Bodies(DeduplicateSubmissions(msgs))
        threshold == Default(asked, Cardinality(votes))
        agreement == ComputeAgreement(votes, threshold)
        verdict == ComputeVerdict(agreement, {v.exit : v \in votes})
    IN [cert |-> BuildCertificate(verdict, agreement, votes, threshold),
        dis |-> IF verdict = "diverged" THEN BuildDisagreement(agreement, votes) ELSE Nothing]

\* The round is decided, kept in the coordinator's own output directory, and
\* the certificate is the first file written to the mailbox.  The threshold
\* the command was started with is first read here.
WriteCertificate(c) ==
    /\ coord[c].pc = "read" /\ coord[c].todo = {}
    /\ \E asked \in ConsensusThresholds :
       LET round == Certify(coord[c].got, asked)
       IN /\ out' = [out EXCEPT !.cert = round.cert, !.settled = coord[c].settled, !.asked = asked]
          /\ coord' = [coord EXCEPT ![c] =
                [pc |-> IF round.dis # Nothing THEN "disagreement" ELSE "node",
                 round |-> round]]
    /\ UNCHANGED <<boxVars, sub, pub, objects, history>>

\* An earlier round's report stays when this round did not diverge.
WriteDisagreement(c) ==
    /\ coord[c].pc = "disagreement"
    /\ out' = [out EXCEPT !.dis = coord[c].round.dis]
    /\ coord' = [coord EXCEPT ![c] = [pc |-> "node", round |-> coord[c].round]]
    /\ UNCHANGED <<boxVars, sub, pub, objects, history>>

WriteEvidenceNode(c) ==
    /\ coord[c].pc = "node"
    /\ out' = [out EXCEPT !.node = EvidenceNode(coord[c].round.cert)]
    /\ coord' = [coord EXCEPT ![c] = [pc |-> "objects", round |-> coord[c].round]]
    /\ UNCHANGED <<boxVars, sub, pub, objects, history>>

StoreObjects(c) ==
    /\ coord[c].pc = "objects"
    /\ LET round == coord[c].round
       IN objects' = objects \cup {<<"cert", round.cert>>, <<"node", EvidenceNode(round.cert)>>}
                       \cup (IF round.dis = Nothing THEN {} ELSE {<<"dis", round.dis>>})
    /\ coord' = [coord EXCEPT ![c] = [pc |-> "done"]]
    /\ UNCHANGED <<boxVars, sub, pub, out, history>>

CoordinatorDies(c) ==
    /\ coord[c].pc \notin {"idle", "done"}
    /\ coord' = [coord EXCEPT ![c] = [pc |-> "done"]]
    /\ UNCHANGED <<boxVars, sub, pub, out, objects, history>>

------------------------------------------------------------------------------
(* Validation of the mailbox for the run request.                           *)

\* A registry maps runner ids to [key, status].
LookupByKey(registry, k) == {r \in DOMAIN registry : registry[r].key = k}

RegistryStatus(registry, r, k) ==
    IF r \in DOMAIN registry THEN registry[r].status
    ELSE IF LookupByKey(registry, k) # {}
         THEN registry[CHOOSE x \in LookupByKey(registry, k) : TRUE].status
    ELSE "unknown"

(* mutant: a message whose hash matches is taken as signed *)
VerifyMessageByHash(m, registry) ==
    IF m.sig = Nothing THEN "unsigned"
    ELSE IF m.hash # m.body THEN "hash-mismatch"
    ELSE IF registry = Nothing THEN "unknown"
    ELSE RegistryStatus(registry, m.body.runner, m.sig.key)

VerifyMessage(m, registry) ==
    IF m.sig = Nothing THEN "unsigned"
    ELSE IF m.hash # m.body THEN "hash-mismatch"
    ELSE IF m.sig.payload # <<m.body, m.hash>> THEN "invalid-signature"
    ELSE IF registry = Nothing THEN "unknown"
    ELSE LET r == m.body.runner
             k == m.sig.key
         IN IF \/ r \in DOMAIN registry /\ registry[r].key # k
               \/ LookupByKey(registry, k) \ {r} # {}
            THEN "registry-key-mismatch"
            ELSE RegistryStatus(registry, r, k)

\* The failures and warnings a message causes.  The outcomes hash-mismatch
\* and registry-key-mismatch add no check of their own.
MessageFailures(m, outcome, requireSignatures) ==
    (IF m.hash # m.body THEN {"hash"} ELSE {})
    \cup (IF outcome = "unsigned" /\ requireSignatures THEN {"unsigned"} ELSE {})
    \cup ({outcome} \cap {"inactive", "revoked", "invalid-signature"})

MessageWarnings(outcome) == {outcome} \cap {"unknown"}

\* Keys under which more than one hash was submitted.
KeyEquivocations(msgs) ==
    LET sigs == {m \in msgs : m.sig # Nothing}
    IN {k \in {m.sig.key : m \in sigs} :
          Cardinality({m.hash : m \in {x \in sigs : x.sig.key = k}}) > 1}

\* No check fails; in strict mode the warnings are failures too.
ValidateMailbox(registry, strict, requireSignatures) ==
    LET files == DOMAIN sub
        msgs == {sub[n] : n \in {x \in files : sub[x] # Nothing}}
        outcome == [m \in msgs |-> VerifyMessage(m, registry)]
    IN /\ box = "ready" /\ request
       /\ \A n \in files : sub[n] # Nothing
       /\ \A m \in msgs : /\ MessageFailures(m, outcome[m], requireSignatures) = {}
                          /\ strict => MessageWarnings(outcome[m]) = {}
       /\ KeyEquivocations(msgs) = {}
       /\ strict => Equivocating(msgs) = {}

\* The exit status of the command.
CmdValidate(registry, strict, requireSignatures) ==
    IF ValidateMailbox(registry, strict, requireSignatures) THEN 0 ELSE 1

------------------------------------------------------------------------------

Publish(r) == \/ PublishSubmission(r) \/ WriteSubmission(r)
              \/ SignSubmission(r) \/ RewriteSubmission(r) \/ PublisherDies(r)

Round(c) == \/ StartRound(c) \/ ReadSubmission(c) \/ WriteCertificate(c)
            \/ WriteDisagreement(c) \/ WriteEvidenceNode(c)
            \/ StoreObjects(c) \/ CoordinatorDies(c)

Next == \/ InitMailbox \/ WriteMailboxJson \/ WriteRunRequest
        \/ \E r \in Runners : Publish(r)
        \/ \E n \in DOMAIN sub : EditSubmission(n)
        \/ \E c \in Coordinators : Round(c)

Spec == Init /\ [][Next]_vars

------------------------------------------------------------------------------
(* Properties.                                                              *)

\* A confirmed certificate in the mailbox rests on a quorum: for every field
\* it compared, at least as many different runners as its threshold says had
\* a submission in the mailbox with the confirmed value.  Two messages of one
\* runner never count twice, however publications, edits and rounds interleave
\* (deduplicate_submissions, compute_agreement).  Unless the coordinator was
\* given --threshold, which may ask for a single runner, these are at least
\* two, and all participants but one.
CertifiedQuorum ==
    out.cert # Nothing /\ out.cert.status \in {"confirmed", "confirmed-with-failures"} =>
        /\ \A f \in DOMAIN out.cert.agreement :
              Cardinality({s.runner : s \in Having(readable, f, out.cert.agreement[f].value)})
                  >= out.cert.threshold
        /\ out.asked = Nothing =>
              /\ out.cert.threshold >= 2
              /\ out.cert.threshold >= Cardinality(out.cert.participants) - 1

\* A runner with a submission that was complete when a round began is a
\* participant of that round, even if it publishes again while the
\* coordinator reads: a new message has a file of its own, and only the
\* publication that is being signed is out of sight for a while.
SettledRunnersCounted ==
    out.cert # Nothing => out.settled \subseteq {p.runner : p \in out.cert.participants}

\* When validation with required signatures passes, every vote the
\* coordinator would count is exactly a message its key holder signed, and no
\* key has two votes.  Against a registry in strict mode, moreover, a runner
\* that votes with the key registered to it is trusted, and no vote has both
\* an unregistered runner and an unregistered key.  Nothing is said of a vote
\* whose runner or key is registered with another partner: its outcome,
\* registry-key-mismatch, fails no check (validate_mailbox), even if the key
\* is one that was revoked for the runner it belongs to.
ValidatedVotes ==
    \A registry \in Registries, strict \in BOOLEAN :
        CmdValidate(registry, strict, TRUE) = 0 =>
            LET votes == DeduplicateSubmissions({sub[n] : n \in DOMAIN sub})
            IN /\ \A m \in votes : <<m.body, m.sig.key>> \in signed
               /\ \A m, o \in votes : m.sig.key = o.sig.key => m = o
               /\ strict /\ registry # Nothing =>
                    \A m \in votes :
                        /\ m.body.runner \in DOMAIN registry
                             \/ LookupByKey(registry, m.sig.key) # {}
                        /\ m.body.runner \in DOMAIN registry
                             /\ registry[m.body.runner].key = m.sig.key =>
                                 registry[m.body.runner].status = "trusted"

==============================================================================
