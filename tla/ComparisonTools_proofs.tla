----------------------- MODULE ComparisonTools_proofs -----------------------
(***************************************************************************)
(* Proofs about the comparison tools: RunnerMailbox for any runners,         *)
(* coordinators, bundles, keys and registries and any number of             *)
(* publications, RepeatedExecution for any number of executions, threshold   *)
(* and original bundle, and both for the behaviours of ComparisonTools.      *)
(*                                                                         *)
(* Nothing in the mailbox is locked.  A round still misses no submission    *)
(* that was complete when it began, because a publication only ever touches *)
(* the file of its own message, whose name is new (NewestFile), so that a    *)
(* complete file stays complete until it is read (RoundCovers).  A file     *)
(* that carries a signature carries one that its key's holder made          *)
(* (SignaturesMade), whatever was done to its body afterwards.              *)
(***************************************************************************)
EXTENDS ComparisonTools, FiniteSetTheorems, WellFoundedInduction, TLAPS

Names == Runners \X Body

PublisherState ==
    [pc : {"idle"}] \cup [pc : {"write"}, body : Body]
    \cup [pc : {"sign", "rewrite"}, body : Body, key : Keys]

ReadingRound == [pc : {"read"}, todo : SUBSET Names, got : SUBSET Messages, settled : SUBSET Runners]

(* The types of what the proofs read; of a coordinator, only the reading. *)
FilesTypeOK ==
    /\ DOMAIN sub \subseteq Names /\ IsFiniteSet(DOMAIN sub)
    /\ \A n \in DOMAIN sub : n[1] = n[2].runner
    /\ \A n \in DOMAIN sub : sub[n] # Nothing => sub[n] \in Messages /\ sub[n].body.runner = n[1]
    /\ pub \in [Runners -> PublisherState]
    /\ readable \subseteq Body

RoundsTypeOK ==
    /\ DOMAIN coord = Coordinators
    /\ \A c \in Coordinators : coord[c].pc = "read" => coord[c] \in ReadingRound
    /\ DOMAIN out = {"cert", "dis", "node", "settled", "asked"}
    /\ out.cert # Nothing => out.cert.threshold \in Int

(* A publisher works on its own file, which is in the mailbox. *)
OwnFile ==
    \A r \in Runners : pub[r].pc # "idle" =>
        pub[r].body.runner = r /\ FileName(pub[r].body) \in DOMAIN sub

(* The clock tells a new message from every earlier one. *)
NewestFile == \A n \in DOMAIN sub : n[2].time < Cardinality(DOMAIN sub)

(* A signature in a file was made over a body and its hash. *)
SignatureMade(sig, made) ==
    \E b \in Body : sig.payload = <<b, b>> /\ <<b, sig.key>> \in made

SignaturesMade ==
    /\ \A n \in DOMAIN sub : sub[n] # Nothing /\ sub[n].sig # Nothing => SignatureMade(sub[n].sig, signed)
    /\ \A r \in Runners : pub[r].pc = "rewrite" => <<pub[r].body, pub[r].key>> \in signed

(* Whatever a coordinator may yet read has been readable. *)
FilesReadable ==
    /\ \A n \in DOMAIN sub : sub[n] # Nothing => sub[n].body \in readable
    /\ \A r \in Runners : pub[r].pc \in {"sign", "rewrite"} => pub[r].body \in readable

(* A complete file that nobody is writing. *)
AtRest(n) ==
    /\ n \in DOMAIN sub /\ sub[n] # Nothing
    /\ pub[n[1]].pc = "idle" \/ FileName(pub[n[1]].body) # n

(* A runner counted as settled has been read, or has a complete file among
   those that are still to be read. *)
RoundCovers ==
    \A c \in Coordinators : coord[c].pc = "read" =>
        /\ Bodies(coord[c].got) \subseteq readable
        /\ coord[c].todo \subseteq DOMAIN sub
        /\ \A r \in coord[c].settled :
              \/ \E m \in coord[c].got : m.body.runner = r
              \/ \E n \in coord[c].todo : n[1] = r /\ AtRest(n)

FilesInv == FilesTypeOK /\ OwnFile /\ NewestFile /\ SignaturesMade /\ FilesReadable

RoundsInv == RoundsTypeOK /\ RoundCovers /\ CertifiedQuorum /\ SettledRunnersCounted

(* The inductive invariant. *)
MailboxInv == FilesInv /\ RoundsInv

-----------------------------------------------------------------------------
(* The maximum that deduplicate_submissions sorts to the front: among messages
   there is always a latest one. *)
LEMMA LatestIn ==
  ASSUME NEW msgs \in SUBSET Messages, msgs # {}
  PROVE  Latest(msgs) \in msgs
<1> DEFINE Left(m) == MaxPublications - m.body.time
           S == {Left(m) : m \in msgs}
           R == {ss \in Nat \X Nat : ss[1] < ss[2]}
<1>1. \A m \in msgs : m.body.time \in Nat /\ Left(m) \in Nat
  BY MailboxAssumption DEF Messages, Body
<1>2. S \subseteq Nat /\ S # {}
  BY <1>1
<1>3. IsWellFoundedOn(R, Nat)
  BY NatLessThanWellFounded DEF OpToRel
<1>4. PICK x \in S : \A y \in S : ~(<<y, x>> \in R)
  <2> HIDE DEF R, S
  <2> QED
    BY <1>2, <1>3, WFMin
<1>5. \A x1, y1 \in Nat : y1 < x1 => <<y1, x1>> \in R
  OBVIOUS
<1>6. PICK m \in msgs : x = Left(m)
  BY <1>4
<1>7. ASSUME NEW y \in msgs PROVE y.body.time <= m.body.time
  <2>1. Left(y) \in S /\ Left(y) \in Nat /\ Left(m) \in Nat
    BY <1>1
  <2>2. ~(Left(y) < Left(m))
    <3> HIDE DEF R, S, Left
    <3> QED
      BY <1>4, <1>5, <1>6, <2>1
  <2> QED
    BY <1>1, <2>2, MailboxAssumption
<1> QED
  BY <1>7 DEF Latest

(* deduplicate_submissions keeps messages it was given, one of every runner. *)
LEMMA OneEach ==
  ASSUME NEW msgs \in SUBSET Messages
  PROVE  LET kept == DeduplicateSubmissions(msgs)
         IN /\ kept \subseteq msgs
            /\ \A m, o \in kept : m.body.runner = o.body.runner => m = o
            /\ \A m \in msgs : \E o \in kept : o.body.runner = m.body.runner
<1> DEFINE Of(r) == {m \in msgs : m.body.runner = r}
<1>1. ASSUME NEW m \in msgs PROVE Latest(Of(m.body.runner)) \in Of(m.body.runner)
  <2>1. Of(m.body.runner) \in SUBSET Messages /\ Of(m.body.runner) # {}
    OBVIOUS
  <2> HIDE DEF Of
  <2> QED
    BY <2>1, LatestIn
<1>2. DeduplicateSubmissions(msgs) = {Latest(Of(m.body.runner)) : m \in msgs}
  BY DEF DeduplicateSubmissions
<1>3. \A m \in msgs : Latest(Of(m.body.runner)) \in msgs
                      /\ Latest(Of(m.body.runner)).body.runner = m.body.runner
  BY <1>1
<1> HIDE DEF Of
<1> QED
  BY <1>2, <1>3

(* Sets of submissions with one of each runner are counted by their runners. *)
LEMMA CountedByRunner ==
  ASSUME NEW H, \A s \in H : s.runner \in Runners,
         \A s, t \in H : s.runner = t.runner => s = t
  PROVE  /\ IsFiniteSet(H) /\ Cardinality(H) \in Nat
         /\ Cardinality(H) <= Cardinality({s.runner : s \in H})
<1> DEFINE Q == {s.runner : s \in H}
           f == [q \in Q |-> CHOOSE s \in H : s.runner = q]
<1>1. IsFiniteSet(Q)
  <2>1. Q \in SUBSET Runners
    OBVIOUS
  <2> QED
    BY <2>1, MailboxAssumption, FS_Subset
<1>2. \A s \in H : s.runner \in Q /\ f[s.runner] = s
  OBVIOUS
<1>3. \A q \in Q : f[q] \in H
  OBVIOUS
<1>4. f \in Surjection(Q, H)
  <2>1. f \in [Q -> H]
    BY <1>3
  <2> HIDE DEF f, Q
  <2> QED
    BY <1>2, <2>1 DEF Surjection
<1>5. IsFiniteSet(H) /\ Cardinality(H) <= Cardinality(Q)
  <2> HIDE DEF f, Q
  <2> QED
    BY <1>1, <1>4, FS_Surjection
<1> QED
  BY <1>5, FS_CardinalityType

(* What CertifiedQuorum says of a certificate, of the threshold asked for and of
   the bodies seen so far. *)
QuorumOf(cert, asked, seen) ==
    cert.status \in {"confirmed", "confirmed-with-failures"} =>
        /\ \A f \in DOMAIN cert.agreement :
              Cardinality({s.runner : s \in Having(seen, f, cert.agreement[f].value)})
                  >= cert.threshold
        /\ asked = Nothing => /\ cert.threshold >= 2
                              /\ cert.threshold >= Cardinality(cert.participants) - 1

(* More submissions never lower the number of runners behind a value. *)
LEMMA MoreRunners ==
  ASSUME NEW some, NEW seen \in SUBSET Body, some \subseteq seen, NEW f, NEW v
  PROVE  LET q(x) == Cardinality({s.runner : s \in Having(x, f, v)})
         IN q(some) \in Nat /\ q(seen) \in Nat /\ q(some) <= q(seen)
<1> DEFINE S == {s.runner : s \in Having(some, f, v)}
           T == {s.runner : s \in Having(seen, f, v)}
<1>1. S \subseteq T /\ T \subseteq Runners
  BY DEF Having, Body
<1>2. IsFiniteSet(T)
  BY <1>1, MailboxAssumption, FS_Subset
<1>3. IsFiniteSet(S) /\ Cardinality(S) <= Cardinality(T)
  BY <1>1, <1>2, FS_Subset
<1> QED
  BY <1>2, <1>3, FS_CardinalityType

(* build_certificate lists no more participants than there are votes. *)
LEMMA ParticipantsCounted ==
  ASSUME NEW status, NEW agreement, NEW votes, IsFiniteSet(votes), NEW threshold
  PROVE  LET parts == BuildCertificate(status, agreement, votes, threshold).participants
         IN Cardinality(parts) \in Nat /\ Cardinality(parts) <= Cardinality(votes)
<1> DEFINE agreed == AgreedHash(agreement)
           Part(s) == [runner |-> s.runner, overview |-> OverviewOf(s),
                       agree |-> agreed # Nothing /\ OverviewOf(s) = agreed]
           parts == {Part(s) : s \in votes}
           f == [s \in votes |-> Part(s)]
<1>1. BuildCertificate(status, agreement, votes, threshold).participants = parts
  BY DEF BuildCertificate
<1>2. f \in Surjection(votes, parts)
  <2> HIDE DEF Part
  <2> QED
    BY DEF Surjection
<1> HIDE DEF f, parts
<1>3. IsFiniteSet(parts) /\ Cardinality(parts) <= Cardinality(votes)
  BY <1>2, FS_Surjection
<1> QED
  BY <1>1, <1>3, FS_CardinalityType

(* compute_agreement and compute_verdict count votes, one of every runner: a
   confirmed field has a threshold of runners behind it. *)
LEMMA ConfirmedByRunners ==
  ASSUME NEW msgs \in SUBSET Messages, NEW seen \in SUBSET Body, Bodies(msgs) \subseteq seen,
         NEW asked \in Int \cup {Nothing}
  PROVE  QuorumOf(Certify(msgs, asked).cert, asked, seen) /\ Certify(msgs, asked).cert.threshold \in Int
<1> DEFINE votes == Bodies(DeduplicateSubmissions(msgs))
           n == Cardinality(votes)
           threshold == Default(asked, n)
           agreement == ComputeAgreement(votes, threshold)
           decision == ComputeVerdict(agreement, {v.exit : v \in votes})
           cert == Certify(msgs, asked).cert
<1>1. /\ votes \subseteq seen
      /\ \A s, t \in votes : s.runner = t.runner => s = t
  BY OneEach DEF Bodies
<1>2. \A s \in votes : s.runner \in Runners
  BY <1>1 DEF Body
<1>3. n \in Nat /\ IsFiniteSet(votes)
  <2> HIDE DEF votes
  <2> QED
    BY <1>1, <1>2, CountedByRunner
<1>4. /\ threshold \in Int
      /\ asked = Nothing => threshold >= 2 /\ threshold >= n - 1
  <2> HIDE DEF n
  <2> QED
    BY <1>3 DEF Default
<1>5. /\ cert.status = decision /\ cert.threshold = threshold
      /\ cert.agreement = agreement
      /\ cert = BuildCertificate(decision, agreement, votes, threshold)
  BY DEF Certify, BuildCertificate
<1> HIDE DEF votes, n, threshold, cert
<1>6. ASSUME decision \in {"confirmed", "confirmed-with-failures"}, NEW f \in DOMAIN agreement
      PROVE  Cardinality({s.runner : s \in Having(seen, f, agreement[f].value)}) >= threshold
  <2> DEFINE v == Winning(votes, f)
             H == Having(votes, f, v)
             k == Cardinality(H)
  <2>1. agreement[f].status # "diverged"
    BY <1>6 DEF ComputeVerdict
  <2>2. /\ agreement[f].value = v
        /\ agreement[f].status = IF k >= threshold THEN "confirmed" ELSE "diverged"
    <3> HIDE DEF v, H
    <3>1. f \in AllFields(votes)
      BY <1>6 DEF ComputeAgreement
    <3> QED
      BY <3>1 DEF ComputeAgreement, v, H
  <2>3. k \in Nat /\ k <= Cardinality({s.runner : s \in H})
    <3>1. /\ \A s \in H : s.runner \in Runners
          /\ \A s, t \in H : s.runner = t.runner => s = t
      BY <1>1, <1>2 DEF Having
    <3> HIDE DEF H
    <3> QED
      BY <3>1, CountedByRunner
  <2>4. /\ Cardinality({s.runner : s \in H}) \in Nat
        /\ Cardinality({s.runner : s \in Having(seen, f, v)}) \in Nat
        /\ Cardinality({s.runner : s \in H}) <= Cardinality({s.runner : s \in Having(seen, f, v)})
    BY <1>1, MoreRunners
  <2>5. k >= threshold
    BY <2>1, <2>2
  <2> HIDE DEF k, H, v, agreement
  <2> QED
    BY <1>4, <2>2, <2>3, <2>4, <2>5
<1> HIDE DEF agreement, decision
<1>7. Cardinality(cert.participants) \in Nat /\ Cardinality(cert.participants) <= n
  BY <1>3, <1>5, ParticipantsCounted DEF n
<1>8. asked = Nothing => threshold >= Cardinality(cert.participants) - 1
  BY <1>3, <1>4, <1>7
<1> QED
  BY <1>4, <1>5, <1>6, <1>8 DEF QuorumOf, cert

(* build_certificate lists every runner whose message was read. *)
LEMMA EveryRunnerListed ==
  ASSUME NEW msgs \in SUBSET Messages, NEW asked, NEW m \in msgs
  PROVE  m.body.runner \in {p.runner : p \in Certify(msgs, asked).cert.participants}
<1>1. PICK o \in DeduplicateSubmissions(msgs) : o.body.runner = m.body.runner
  BY OneEach
<1>2. o.body \in Bodies(DeduplicateSubmissions(msgs))
  BY DEF Bodies
<1> DEFINE votes == Bodies(DeduplicateSubmissions(msgs))
           threshold == Default(asked, Cardinality(votes))
           agreement == ComputeAgreement(votes, threshold)
           decision == ComputeVerdict(agreement, {v.exit : v \in votes})
           agreed == AgreedHash(agreement)
           part == [runner |-> o.body.runner, overview |-> OverviewOf(o.body),
                    agree |-> agreed # Nothing /\ OverviewOf(o.body) = agreed]
<1>3. Certify(msgs, asked).cert = BuildCertificate(decision, agreement, votes, threshold)
  BY DEF Certify
<1> HIDE DEF votes, threshold, agreement, decision
<1>4. part \in BuildCertificate(decision, agreement, votes, threshold).participants
  BY <1>2 DEF BuildCertificate, votes
<1> QED
  BY <1>1, <1>3, <1>4

-----------------------------------------------------------------------------
(* The directory of submissions.                                             *)

(* What a step of runner r's publisher, or an edit of one of its files, does:
   the file n gets a content and the publisher the state p. *)
Writes(r, n, content, p) ==
    /\ n \in Names /\ n[1] = r /\ n[2].runner = r
    /\ DOMAIN sub' = DOMAIN sub \cup {n}
    /\ \A x \in DOMAIN sub' : sub'[x] = IF x = n THEN content ELSE sub[x]
    /\ pub' = [pub EXCEPT ![r] = p]
    /\ p \in PublisherState
    /\ readable \subseteq readable' /\ readable' \subseteq Body /\ signed \subseteq signed'
    /\ UNCHANGED <<coord, out>>

(* When it leaves the mailbox in order: the name is new or its own, and the
   content is nothing or a whole message. *)
InOrder(r, n, content, p) ==
    /\ n \in DOMAIN sub \/ n[2].time = Cardinality(DOMAIN sub)
    /\ \/ n \notin DOMAIN sub
       \/ pub[r].pc # "idle" /\ FileName(pub[r].body) = n
       \/ content # Nothing /\ p.pc = "idle"
    /\ content # Nothing =>
          /\ content \in Messages /\ content.body.runner = r /\ content.body \in readable'
          /\ content.sig # Nothing => SignatureMade(content.sig, signed')
    /\ p.pc # "idle" => p.body.runner = r /\ FileName(p.body) = n
    /\ p.pc \in {"sign", "rewrite"} => p.body \in readable'
    /\ p.pc = "rewrite" => <<p.body, p.key>> \in signed'

(* Publisher states. *)
LEMMA PublisherStates ==
  /\ IdlePublisher \in PublisherState /\ IdlePublisher.pc = "idle"
  /\ \A p \in PublisherState : p.pc # "idle" => p.body \in Body
  /\ \A p \in PublisherState : p.pc \in {"sign", "rewrite"} => p.key \in Keys
BY DEF PublisherState, IdlePublisher

(* cmd_publish_submission opens a file of a new name. *)
LEMMA PublishWrites ==
  ASSUME FilesInv, NEW r \in Runners, PublishSubmission(r)
  PROVE  \E n, content, p : Writes(r, n, content, p) /\ InOrder(r, n, content, p)
<1> DEFINE k == Cardinality(DOMAIN sub)
<1>1. k \in Nat /\ k < MaxPublications
  BY FS_CardinalityType DEF PublishSubmission, FilesInv, FilesTypeOK
<1> HIDE DEF k
<1>2. PICK b \in Bundles[r] :
        LET body == MakeMessage(r, k, b)
        IN /\ pub' = [pub EXCEPT ![r] = [pc |-> "write", body |-> body]]
           /\ Put(FileName(body), Nothing)
  BY DEF PublishSubmission, k
<1> DEFINE body == MakeMessage(r, k, b)
           n == FileName(body)
           p == [pc |-> "write", body |-> body]
<1>3. body \in Body /\ body.runner = r /\ body.time = k
  <2>1. k \in 0..MaxPublications
    BY <1>1, MailboxAssumption
  <2>2. b \in AllBundles
    BY DEF AllBundles
  <2> QED
    BY <2>1, <2>2 DEF MakeMessage, Body
<1> HIDE DEF body
<1>4. n \in Names /\ n[1] = r /\ n[2] = body
  BY <1>3 DEF FileName, Names
<1>5. n \notin DOMAIN sub
  <2>1. SUFFICES ASSUME n \in DOMAIN sub PROVE FALSE
    OBVIOUS
  <2>2. n[2].time < k
    BY <2>1 DEF FilesInv, NewestFile, k
  <2> QED
    BY <1>1, <1>3, <1>4, <2>2
<1>6. p \in PublisherState /\ p.pc = "write" /\ p.body = body
  BY <1>3 DEF PublisherState
<1>7. /\ pub' = [pub EXCEPT ![r] = p]
      /\ sub' = [x \in DOMAIN sub \cup {n} |-> IF x = n THEN Nothing ELSE sub[x]]
  BY <1>2 DEF Put, body
<1>8. UNCHANGED <<coord, out, readable, signed>> /\ readable \subseteq Body
  BY DEF PublishSubmission, history, FilesInv, FilesTypeOK
<1> HIDE DEF p, n
<1>9. Writes(r, n, Nothing, p)
  BY <1>3, <1>4, <1>6, <1>7, <1>8 DEF Writes
<1>10. InOrder(r, n, Nothing, p)
  BY <1>3, <1>4, <1>5, <1>6 DEF InOrder, n, k
<1> QED
  BY <1>9, <1>10

(* The later steps of a publication write the file that it opened. *)
LEMMA OwnFileName ==
  ASSUME FilesInv, NEW r \in Runners, pub[r].pc # "idle"
  PROVE  LET n == FileName(pub[r].body)
         IN /\ n \in Names /\ n[1] = r /\ n[2].runner = r /\ n \in DOMAIN sub
            /\ pub[r].body \in Body /\ pub[r].body.runner = r
<1>1. pub[r] \in PublisherState
  BY DEF FilesInv, FilesTypeOK
<1>2. pub[r].body \in Body /\ pub[r].body.runner = r /\ FileName(pub[r].body) \in DOMAIN sub
  BY <1>1, PublisherStates DEF FilesInv, OwnFile
<1> QED
  BY <1>2 DEF FileName, Names

(* write_result_submission: the unsigned message. *)
LEMMA WriteWrites ==
  ASSUME FilesInv, NEW r \in Runners, WriteSubmission(r)
  PROVE  \E n, content, p : Writes(r, n, content, p) /\ InOrder(r, n, content, p)
<1> DEFINE body == pub[r].body
           n == FileName(body)
           content == Message(body, Nothing)
<1>1. /\ n \in Names /\ n[1] = r /\ n[2].runner = r /\ n \in DOMAIN sub
      /\ body \in Body /\ body.runner = r /\ pub[r].pc # "idle"
  BY OwnFileName DEF WriteSubmission
<1>2. PICK k \in KeyArguments[r] :
        pub' = [pub EXCEPT ![r] = IF k \in {Nothing, BadKey} THEN IdlePublisher
                                  ELSE [pc |-> "sign", body |-> body, key |-> k]]
  BY DEF WriteSubmission
<1> DEFINE p == IF k \in {Nothing, BadKey} THEN IdlePublisher
                ELSE [pc |-> "sign", body |-> body, key |-> k]
<1>3. /\ sub' = [x \in DOMAIN sub \cup {n} |-> IF x = n THEN content ELSE sub[x]]
      /\ readable' = readable \cup {body} /\ readable \subseteq Body
      /\ UNCHANGED <<coord, out, signed>>
  BY DEF WriteSubmission, Put, FilesInv, FilesTypeOK
<1> HIDE DEF body
<1>4. content \in Messages /\ content.body = body /\ content.sig = Nothing
  BY <1>1 DEF Message, Messages
<1>5. p \in PublisherState /\ (p.pc # "idle" => p.pc = "sign" /\ p.body = body)
  <2>1. k \in Keys
    BY DEF Keys
  <2>2. [pc |-> "sign", body |-> body, key |-> k] \in PublisherState
    BY <1>1, <2>1 DEF PublisherState
  <2> QED
    BY <2>2, PublisherStates
<1> HIDE DEF p, n, content
<1>6. Writes(r, n, content, p)
  BY <1>1, <1>2, <1>3, <1>5 DEF Writes, p
<1>7. InOrder(r, n, content, p)
  BY <1>1, <1>3, <1>4, <1>5 DEF InOrder, n, body
<1> QED
  BY <1>6, <1>7

(* sign_message is about to rewrite the file, which is truncated. *)
LEMMA SignWrites ==
  ASSUME FilesInv, NEW r \in Runners, SignSubmission(r)
  PROVE  \E n, content, p : Writes(r, n, content, p) /\ InOrder(r, n, content, p)
<1> DEFINE body == pub[r].body
           n == FileName(body)
           p == [pc |-> "rewrite", body |-> body, key |-> pub[r].key]
<1>1. /\ n \in Names /\ n[1] = r /\ n[2].runner = r /\ n \in DOMAIN sub
      /\ body \in Body /\ body.runner = r /\ pub[r].pc = "sign"
  BY OwnFileName DEF SignSubmission
<1>2. pub[r] \in [pc : {"sign", "rewrite"}, body : Body, key : Keys]
  <2>1. pub[r] \in PublisherState
    BY DEF FilesInv, FilesTypeOK
  <2> QED
    BY <1>1, <2>1 DEF PublisherState
<1>3. /\ p \in PublisherState /\ p.pc = "rewrite" /\ p.body = body /\ p.key = pub[r].key
      /\ p = [pub[r] EXCEPT !.pc = "rewrite"]
  BY <1>2 DEF PublisherState
<1>4. pub' = [pub EXCEPT ![r] = p]
  <2>1. pub' = [pub EXCEPT ![r] = [pub[r] EXCEPT !.pc = "rewrite"]]
    BY DEF SignSubmission
  <2> QED
    BY <1>3, <2>1
<1>5. /\ sub' = [x \in DOMAIN sub \cup {n} |-> IF x = n THEN Nothing ELSE sub[x]]
      /\ signed' = signed \cup {<<body, pub[r].key>>} /\ readable \subseteq Body
      /\ UNCHANGED <<coord, out, readable>> /\ body \in readable
  BY DEF SignSubmission, Put, FilesInv, FilesTypeOK, FilesReadable
<1> HIDE DEF p, body, n
<1>6. Writes(r, n, Nothing, p)
  BY <1>1, <1>3, <1>4, <1>5 DEF Writes
<1>7. InOrder(r, n, Nothing, p)
  BY <1>1, <1>3, <1>5 DEF InOrder, n, body
<1> QED
  BY <1>6, <1>7

(* The message with its signature, which was made over the same body. *)
LEMMA RewriteWrites ==
  ASSUME FilesInv, NEW r \in Runners, RewriteSubmission(r)
  PROVE  \E n, content, p : Writes(r, n, content, p) /\ InOrder(r, n, content, p)
<1> DEFINE body == pub[r].body
           n == FileName(body)
           sig == [key |-> pub[r].key, payload |-> <<body, body>>]
           content == Message(body, sig)
<1>1. /\ n \in Names /\ n[1] = r /\ n[2].runner = r /\ n \in DOMAIN sub
      /\ body \in Body /\ body.runner = r /\ pub[r].pc = "rewrite"
  BY OwnFileName DEF RewriteSubmission
<1>2. pub[r].key \in Keys /\ <<body, pub[r].key>> \in signed /\ body \in readable
  <2>1. pub[r] \in PublisherState
    BY DEF FilesInv, FilesTypeOK
  <2> QED
    BY <1>1, <2>1, PublisherStates DEF FilesInv, SignaturesMade, FilesReadable
<1>3. /\ sub' = [x \in DOMAIN sub \cup {n} |-> IF x = n THEN content ELSE sub[x]]
      /\ pub' = [pub EXCEPT ![r] = IdlePublisher]
      /\ readable \subseteq Body /\ UNCHANGED <<coord, out, readable, signed>>
  BY DEF RewriteSubmission, Put, SignMessage, history, FilesInv, FilesTypeOK
<1> HIDE DEF body
<1>4. sig \in Signature /\ sig.key = pub[r].key /\ sig.payload = <<body, body>>
  BY <1>1, <1>2 DEF Signature
<1> HIDE DEF sig
<1>5. content \in Messages /\ content.body = body /\ content.sig = sig
  BY <1>1, <1>4 DEF Message, Messages
<1>6. SignatureMade(sig, signed')
  BY <1>1, <1>2, <1>3, <1>4 DEF SignatureMade
<1> HIDE DEF n, content
<1>7. Writes(r, n, content, IdlePublisher)
  BY <1>1, <1>3, PublisherStates DEF Writes
<1>8. InOrder(r, n, content, IdlePublisher)
  BY <1>1, <1>2, <1>3, <1>5, <1>6, PublisherStates DEF InOrder, n, body
<1> QED
  BY <1>7, <1>8

(* A publisher that dies leaves its file as it is. *)
LEMMA DeathWrites ==
  ASSUME FilesInv, NEW r \in Runners, PublisherDies(r)
  PROVE  \E n, content, p : Writes(r, n, content, p) /\ InOrder(r, n, content, p)
<1> DEFINE n == FileName(pub[r].body)
           content == sub[n]
<1>1. /\ n \in Names /\ n[1] = r /\ n[2].runner = r /\ n \in DOMAIN sub
      /\ pub[r].pc # "idle"
  BY OwnFileName DEF PublisherDies
<1>2. /\ UNCHANGED <<sub, coord, out, readable, signed>>
      /\ pub' = [pub EXCEPT ![r] = IdlePublisher] /\ readable \subseteq Body
  BY DEF PublisherDies, history, FilesInv, FilesTypeOK
<1>3. content # Nothing =>
          /\ content \in Messages /\ content.body.runner = r /\ content.body \in readable
          /\ content.sig # Nothing => SignatureMade(content.sig, signed)
  <2> HIDE DEF n
  <2> QED
    BY <1>1 DEF FilesInv, FilesTypeOK, FilesReadable, SignaturesMade
<1> HIDE DEF n
<1>4. Writes(r, n, content, IdlePublisher)
  BY <1>1, <1>2, PublisherStates DEF Writes
<1>5. InOrder(r, n, content, IdlePublisher)
  <2> HIDE DEF content
  <2> QED
    BY <1>1, <1>2, <1>3, PublisherStates DEF InOrder, n
<1> QED
  BY <1>4, <1>5

(* An edit keeps the signature, and the file stays whole. *)
LEMMA EditWrites ==
  ASSUME FilesInv, NEW n \in DOMAIN sub, EditSubmission(n)
  PROVE  \E r \in Runners : \E content, p : Writes(r, n, content, p) /\ InOrder(r, n, content, p)
<1> DEFINE r == n[1]
           old == sub[n]
<1>1. /\ n \in Names /\ r \in Runners /\ n[2].runner = r
      /\ old \in Messages /\ old.body.runner = r
      /\ SignatureMade(old.sig, signed)
      /\ pub[r] \in PublisherState /\ pub[r].pc = "idle" /\ readable \subseteq Body
  BY DEF EditSubmission, FilesInv, FilesTypeOK, SignaturesMade, Names
<1>2. PICK b \in Bundles[r], rehash \in BOOLEAN :
        LET body == [old.body EXCEPT !.summary = BuildSummary(b)]
        IN /\ Put(n, [body |-> body, hash |-> IF rehash THEN body ELSE old.hash, sig |-> old.sig])
           /\ readable' = readable \cup {body}
  BY DEF EditSubmission
<1> DEFINE body == [old.body EXCEPT !.summary = BuildSummary(b)]
           hash == IF rehash THEN body ELSE old.hash
           content == [body |-> body, hash |-> hash, sig |-> old.sig]
<1>3. /\ sub' = [x \in DOMAIN sub \cup {n} |-> IF x = n THEN content ELSE sub[x]]
      /\ readable' = readable \cup {body}
  BY <1>2 DEF Put
<1>4. UNCHANGED <<pub, coord, out, signed>>
  BY DEF EditSubmission
<1> HIDE DEF old, r
<1>5. body \in Body /\ body.runner = r
  <2>1. old.body \in Body /\ b \in AllBundles
    BY <1>1 DEF Messages, AllBundles
  <2> QED
    BY <1>1, <2>1 DEF Body
<1> HIDE DEF body
<1>6. hash \in Body /\ old.sig \in {Nothing} \cup Signature
  BY <1>1, <1>5 DEF Messages
<1> HIDE DEF hash
<1>7. content \in Messages /\ content.body = body /\ content.sig = old.sig /\ content # Nothing
  <2>1. content \in Messages /\ content.body = body /\ content.sig = old.sig
    BY <1>5, <1>6 DEF Messages
  <2> QED
    BY <2>1, MailboxAssumption
<1> HIDE DEF content
<1>8. pub' = [pub EXCEPT ![r] = pub[r]]
  BY <1>1, <1>4 DEF FilesInv, FilesTypeOK
<1>9. Writes(r, n, content, pub[r])
  BY <1>1, <1>3, <1>4, <1>5, <1>8 DEF Writes, r
<1>10. InOrder(r, n, content, pub[r])
  BY <1>1, <1>3, <1>4, <1>5, <1>7 DEF InOrder
<1> QED
  BY <1>1, <1>9, <1>10

(* Such a write keeps every file, one per message, whole or being written. *)
LEMMA FilesKept ==
  ASSUME FilesInv, NEW r \in Runners, NEW n, NEW content, NEW p,
         Writes(r, n, content, p), InOrder(r, n, content, p)
  PROVE  FilesInv'
<1>1. pub' \in [Runners -> PublisherState] /\ \A q \in Runners : pub'[q] = IF q = r THEN p ELSE pub[q]
  BY DEF FilesInv, FilesTypeOK, Writes
<1>2. IsFiniteSet(DOMAIN sub') /\ NewestFile'
  <2> DEFINE k == Cardinality(DOMAIN sub)
  <2>1. k \in Nat
    BY FS_CardinalityType DEF FilesInv, FilesTypeOK
  <2>2. /\ IsFiniteSet(DOMAIN sub \cup {n})
        /\ Cardinality(DOMAIN sub \cup {n}) = IF n \in DOMAIN sub THEN k ELSE k + 1
    BY FS_AddElement DEF FilesInv, FilesTypeOK
  <2>3. \A x \in DOMAIN sub : x[2].time \in Nat /\ x[2].time < k
    BY MailboxAssumption DEF FilesInv, FilesTypeOK, NewestFile, Names, Body
  <2>4. n \in DOMAIN sub \/ n[2].time = k
    BY DEF InOrder
  <2>5. DOMAIN sub' = DOMAIN sub \cup {n}
    BY DEF Writes
  <2> HIDE DEF k
  <2> QED
    BY <2>1, <2>2, <2>3, <2>4, <2>5 DEF NewestFile
<1>3. FilesTypeOK'
  BY <1>1, <1>2 DEF FilesInv, FilesTypeOK, Writes, InOrder
<1>4. OwnFile'
  BY <1>1 DEF FilesInv, OwnFile, Writes, InOrder
<1>5. SignaturesMade'
  BY <1>1 DEF FilesInv, SignaturesMade, SignatureMade, Writes, InOrder
<1>6. FilesReadable'
  BY <1>1 DEF FilesInv, FilesReadable, Writes, InOrder
<1> QED
  BY <1>2, <1>3, <1>4, <1>5, <1>6 DEF FilesInv

(* And a file that is complete and at rest stays so. *)
LEMMA AtRestKept ==
  ASSUME FilesInv, NEW r \in Runners, NEW n, NEW content, NEW p,
         Writes(r, n, content, p), InOrder(r, n, content, p),
         NEW x, AtRest(x)
  PROVE  AtRest(x)'
<1>1. \A q \in Runners : pub'[q] = IF q = r THEN p ELSE pub[q]
  BY DEF FilesInv, FilesTypeOK, Writes
<1>2. x \in DOMAIN sub /\ x[1] \in Runners /\ sub[x] # Nothing
  BY DEF FilesInv, FilesTypeOK, Names, AtRest
<1>3. CASE x # n
  BY <1>1, <1>2, <1>3 DEF AtRest, Writes, InOrder
<1>4. CASE x = n
  BY <1>1, <1>2, <1>4 DEF AtRest, Writes, InOrder
<1> QED
  BY <1>3, <1>4

-----------------------------------------------------------------------------
(* Consensus rounds.                                                         *)

(* A certificate keeps its quorum as more submissions are seen. *)
LEMMA QuorumKept ==
  ASSUME NEW cert, NEW some \in SUBSET Body, NEW seen \in SUBSET Body, some \subseteq seen,
         NEW asked, cert.threshold \in Int, QuorumOf(cert, asked, some)
  PROVE  QuorumOf(cert, asked, seen)
<1>1. SUFFICES ASSUME cert.status \in {"confirmed", "confirmed-with-failures"},
                      NEW f \in DOMAIN cert.agreement
               PROVE  Cardinality({s.runner : s \in Having(seen, f, cert.agreement[f].value)})
                        >= cert.threshold
  BY DEF QuorumOf
<1> DEFINE v == cert.agreement[f].value
           a == Cardinality({s.runner : s \in Having(some, f, v)})
           z == Cardinality({s.runner : s \in Having(seen, f, v)})
<1>2. a >= cert.threshold
  BY <1>1 DEF QuorumOf
<1>3. a \in Nat /\ z \in Nat /\ a <= z
  <2> HIDE DEF v
  <2> QED
    BY MoreRunners
<1> HIDE DEF a, z
<1> QED
  BY <1>2, <1>3 DEF z

(* Publications and edits do not disturb a round in progress, nor the
   certificate of an earlier one. *)
LEMMA RoundsKept ==
  ASSUME FilesInv, RoundsInv, NEW r \in Runners, NEW n, NEW content, NEW p,
         Writes(r, n, content, p), InOrder(r, n, content, p)
  PROVE  RoundsInv'
<1>1. coord' = coord /\ out' = out /\ readable \subseteq readable'
      /\ readable \subseteq Body /\ readable' \subseteq Body /\ DOMAIN sub \subseteq DOMAIN sub'
  BY DEF Writes, FilesInv, FilesTypeOK
<1>2. RoundsTypeOK' /\ SettledRunnersCounted'
  BY <1>1 DEF RoundsInv, RoundsTypeOK, SettledRunnersCounted
<1>3. \A x : AtRest(x) => AtRest(x)'
  BY AtRestKept
<1>4. RoundCovers'
  <2> SUFFICES ASSUME NEW c \in Coordinators, coord[c].pc = "read"
               PROVE  /\ Bodies(coord[c].got) \subseteq readable'
                      /\ coord[c].todo \subseteq DOMAIN sub'
                      /\ \A q \in coord[c].settled :
                            \/ \E m \in coord[c].got : m.body.runner = q
                            \/ \E x \in coord[c].todo : x[1] = q /\ AtRest(x)'
    BY <1>1 DEF RoundCovers
  <2> QED
    BY <1>1, <1>3 DEF RoundsInv, RoundCovers
<1>5. CertifiedQuorum'
  <2>1. CASE out.cert = Nothing
    BY <1>1, <2>1 DEF CertifiedQuorum
  <2>2. CASE out.cert # Nothing
    <3>1. QuorumOf(out.cert, out.asked, readable) /\ out.cert.threshold \in Int
      BY <2>2 DEF RoundsInv, RoundsTypeOK, CertifiedQuorum, QuorumOf
    <3>2. QuorumOf(out.cert, out.asked, readable')
      BY <1>1, <3>1, QuorumKept
    <3> QED
      BY <1>1, <3>2 DEF CertifiedQuorum, QuorumOf
  <2> QED
    BY <2>1, <2>2
<1> QED
  BY <1>2, <1>4, <1>5 DEF RoundsInv

(* run_consensus lists the files: all of them are still to be read. *)
LEMMA StartCovers ==
  ASSUME FilesInv, RoundsInv, NEW c \in Coordinators, StartRound(c)
  PROVE  RoundsInv'
<1> DEFINE settled == {n[1] : n \in {m \in DOMAIN sub :
               sub[m] # Nothing /\ (pub[m[1]].pc = "idle" \/ FileName(pub[m[1]].body) # m)}}
           new == [pc |-> "read", todo |-> DOMAIN sub, got |-> {}, settled |-> settled]
<1>1. /\ \A d \in Coordinators : coord'[d] = IF d = c THEN new ELSE coord[d]
      /\ DOMAIN coord' = Coordinators
  BY DEF StartRound, RoundsInv, RoundsTypeOK
<1>2. UNCHANGED <<sub, pub, out, readable>>
  BY DEF StartRound, history
<1>3. new \in ReadingRound
  <2>1. settled \subseteq Runners /\ DOMAIN sub \subseteq Names
    BY DEF FilesInv, FilesTypeOK, Names
  <2> HIDE DEF settled
  <2> QED
    BY <2>1 DEF ReadingRound
<1>4. \A q \in settled : \E x \in DOMAIN sub : x[1] = q /\ AtRest(x)
  BY DEF AtRest
<1> HIDE DEF settled
<1>5. new.todo = DOMAIN sub /\ new.got = {} /\ new.settled = settled
  OBVIOUS
<1> HIDE DEF new
<1>6. \A x : AtRest(x)' <=> AtRest(x)
  BY <1>2 DEF AtRest
<1>7. RoundCovers'
  BY <1>1, <1>2, <1>4, <1>5, <1>6 DEF RoundsInv, RoundCovers, Bodies
<1>8. RoundsTypeOK' /\ CertifiedQuorum' /\ SettledRunnersCounted'
  BY <1>1, <1>2, <1>3 DEF RoundsInv, RoundsTypeOK, CertifiedQuorum, SettledRunnersCounted
<1> QED
  BY <1>7, <1>8 DEF RoundsInv

(* list_result_submissions: a complete file that is read is in the round. *)
LEMMA ReadCovers ==
  ASSUME FilesInv, RoundsInv, NEW c \in Coordinators, ReadSubmission(c)
  PROVE  RoundsInv'
<1> DEFINE old == coord[c]
           n == CHOOSE x \in old.todo : TRUE
           got == old.got \cup ({sub[n]} \ {Nothing})
           new == [pc |-> "read", todo |-> old.todo \ {n}, got |-> got, settled |-> old.settled]
<1>1. old \in ReadingRound /\ old.pc = "read" /\ n \in old.todo /\ n \in DOMAIN sub
  BY DEF ReadSubmission, RoundsInv, RoundsTypeOK, RoundCovers
<1>2. coord' = [coord EXCEPT ![c] = new]
  BY DEF ReadSubmission
<1>3. /\ \A d \in Coordinators : coord'[d] = IF d = c THEN new ELSE coord[d]
      /\ DOMAIN coord' = Coordinators
  <2> HIDE DEF new
  <2> QED
    BY <1>2 DEF RoundsInv, RoundsTypeOK
<1>4. UNCHANGED <<sub, pub, out, readable>>
  BY DEF ReadSubmission, history
<1>5. /\ Bodies(old.got) \subseteq readable /\ old.todo \subseteq DOMAIN sub
      /\ \A q \in old.settled : \/ \E m \in old.got : m.body.runner = q
                                \/ \E x \in old.todo : x[1] = q /\ AtRest(x)
  BY <1>1 DEF RoundsInv, RoundCovers
<1>6. sub[n] # Nothing => sub[n] \in Messages /\ sub[n].body.runner = n[1] /\ sub[n].body \in readable
  BY <1>1 DEF FilesInv, FilesTypeOK, FilesReadable
<1>7. AtRest(n) => sub[n] # Nothing
  BY DEF AtRest
<1> HIDE DEF old, n
<1>8. /\ got \subseteq Messages /\ Bodies(got) \subseteq readable
      /\ \A q \in old.settled : \/ \E m \in got : m.body.runner = q
                                \/ \E x \in old.todo \ {n} : x[1] = q /\ AtRest(x)
  BY <1>1, <1>5, <1>6, <1>7 DEF ReadingRound, Bodies
<1> HIDE DEF got
<1>9. /\ new \in ReadingRound /\ new.pc = "read"
      /\ new.todo = old.todo \ {n} /\ new.got = got /\ new.settled = old.settled
  BY <1>1, <1>8 DEF ReadingRound
<1> HIDE DEF new
<1>10. \A x : AtRest(x)' <=> AtRest(x)
  BY <1>4 DEF AtRest
<1>11. RoundCovers'
  BY <1>3, <1>4, <1>5, <1>8, <1>9, <1>10 DEF RoundsInv, RoundCovers
<1>12. RoundsTypeOK' /\ CertifiedQuorum' /\ SettledRunnersCounted'
  BY <1>3, <1>4, <1>9 DEF RoundsInv, RoundsTypeOK, CertifiedQuorum, SettledRunnersCounted
<1> QED
  BY <1>11, <1>12 DEF RoundsInv

(* The other steps of a round leave the directory and the reading of the other
   coordinators alone. *)
LEMMA OthersCover ==
  ASSUME RoundsInv, NEW c \in Coordinators, NEW new, new.pc # "read",
         coord' = [coord EXCEPT ![c] = new], UNCHANGED <<sub, pub, readable>>
  PROVE  /\ RoundCovers' /\ DOMAIN coord' = Coordinators
         /\ \A d \in Coordinators : coord'[d].pc = "read" => coord'[d] \in ReadingRound
<1>1. /\ \A d \in Coordinators : coord'[d] = IF d = c THEN new ELSE coord[d]
      /\ DOMAIN coord' = Coordinators
  BY DEF RoundsInv, RoundsTypeOK
<1>2. \A x : AtRest(x)' <=> AtRest(x)
  BY DEF AtRest
<1> QED
  BY <1>1, <1>2 DEF RoundsInv, RoundsTypeOK, RoundCovers

(* write_consensus_outputs, the certificate: every file of the round was read. *)
LEMMA CertificateCounts ==
  ASSUME FilesInv, RoundsInv, NEW c \in Coordinators, WriteCertificate(c)
  PROVE  RoundsInv'
<1>0. PICK asked \in ConsensusThresholds :
        LET round == Certify(coord[c].got, asked)
        IN /\ out' = [out EXCEPT !.cert = round.cert, !.settled = coord[c].settled, !.asked = asked]
           /\ coord' = [coord EXCEPT ![c] =
                [pc |-> IF round.dis # Nothing THEN "disagreement" ELSE "node", round |-> round]]
  BY DEF WriteCertificate
<1> DEFINE got == coord[c].got
           settled == coord[c].settled
           round == Certify(got, asked)
           new == [pc |-> IF round.dis # Nothing THEN "disagreement" ELSE "node", round |-> round]
<1>1. /\ got \subseteq Messages /\ Bodies(got) \subseteq readable /\ readable \subseteq Body
      /\ \A q \in settled : \E m \in got : m.body.runner = q
  <2>1. coord[c] \in ReadingRound /\ coord[c].pc = "read" /\ coord[c].todo = {}
    BY DEF WriteCertificate, RoundsInv, RoundsTypeOK
  <2> QED
    BY <2>1 DEF ReadingRound, RoundsInv, RoundCovers, FilesInv, FilesTypeOK
<1>2. /\ out' = [out EXCEPT !.cert = round.cert, !.settled = settled, !.asked = asked]
      /\ coord' = [coord EXCEPT ![c] = new] /\ UNCHANGED <<sub, pub, readable>>
  BY <1>0 DEF WriteCertificate, history
<1> HIDE DEF got, settled
<1>3. QuorumOf(round.cert, asked, readable) /\ round.cert.threshold \in Int
  <2>1. asked \in Int \cup {Nothing}
    BY <1>0, MailboxAssumption
  <2> QED
    BY <1>1, <2>1, ConfirmedByRunners
<1>4. settled \subseteq {p.runner : p \in round.cert.participants}
  BY <1>1, EveryRunnerListed
<1>5. new.pc # "read"
  OBVIOUS
<1> HIDE DEF round, new
<1>6. out'.cert = round.cert /\ out'.settled = settled /\ out'.asked = asked
      /\ DOMAIN out' = {"cert", "dis", "node", "settled", "asked"}
  BY <1>2 DEF RoundsInv, RoundsTypeOK
<1>7. /\ RoundCovers' /\ DOMAIN coord' = Coordinators
      /\ \A d \in Coordinators : coord'[d].pc = "read" => coord'[d] \in ReadingRound
  BY <1>2, <1>5, OthersCover
<1>8. CertifiedQuorum'
  BY <1>2, <1>3, <1>6 DEF CertifiedQuorum, QuorumOf
<1>9. SettledRunnersCounted'
  BY <1>4, <1>6 DEF SettledRunnersCounted
<1>10. RoundsTypeOK'
  BY <1>3, <1>6, <1>7 DEF RoundsTypeOK
<1> QED
  BY <1>7, <1>8, <1>9, <1>10 DEF RoundsInv

(* What follows the certificate leaves it as it is. *)
LEMMA RoundEnds ==
  ASSUME FilesInv, RoundsInv, NEW c \in Coordinators,
         WriteDisagreement(c) \/ WriteEvidenceNode(c) \/ StoreObjects(c) \/ CoordinatorDies(c)
  PROVE  RoundsInv'
<1>1. /\ UNCHANGED <<sub, pub, readable>>
      /\ \E new : new.pc # "read" /\ coord' = [coord EXCEPT ![c] = new]
  <2>1. \A y : [pc |-> "node", round |-> y].pc # "read" /\ [pc |-> "objects", round |-> y].pc # "read"
               /\ [pc |-> "done"].pc # "read"
    OBVIOUS
  <2> QED
    BY <2>1 DEF WriteDisagreement, WriteEvidenceNode, StoreObjects, CoordinatorDies, history
<1>2. /\ out'.cert = out.cert /\ out'.settled = out.settled /\ out'.asked = out.asked
      /\ DOMAIN out' = DOMAIN out
  <2>1. DOMAIN out = {"cert", "dis", "node", "settled", "asked"}
    BY DEF RoundsInv, RoundsTypeOK
  <2>2. \/ out' = out \/ out' = [out EXCEPT !.dis = coord[c].round.dis]
        \/ out' = [out EXCEPT !.node = EvidenceNode(coord[c].round.cert)]
    BY DEF WriteDisagreement, WriteEvidenceNode, StoreObjects, CoordinatorDies
  <2> QED
    BY <2>1, <2>2
<1>3. /\ RoundCovers' /\ DOMAIN coord' = Coordinators
      /\ \A d \in Coordinators : coord'[d].pc = "read" => coord'[d] \in ReadingRound
  BY <1>1, OthersCover
<1> QED
  BY <1>1, <1>2, <1>3 DEF RoundsInv, RoundsTypeOK, CertifiedQuorum, SettledRunnersCounted

-----------------------------------------------------------------------------
(* The invariant.                                                            *)

(* An empty mailbox. *)
LEMMA InitMailboxInv == Init => MailboxInv
<1> SUFFICES ASSUME Init PROVE MailboxInv
  OBVIOUS
<1>1. /\ DOMAIN sub = {} /\ IsFiniteSet(DOMAIN sub)
      /\ \A r \in Runners : pub[r].pc = "idle"
      /\ pub \in [Runners -> PublisherState] /\ readable = {}
  BY PublisherStates, FS_EmptySet DEF Init
<1>2. FilesInv
  BY <1>1 DEF FilesInv, FilesTypeOK, OwnFile, NewestFile, SignaturesMade, FilesReadable
<1>3. /\ DOMAIN coord = Coordinators /\ \A c \in Coordinators : coord[c].pc = "idle"
      /\ out.cert = Nothing /\ DOMAIN out = {"cert", "dis", "node", "settled", "asked"}
  BY DEF Init, IdleCoordinator, NoOutput
<1>4. RoundsInv
  BY <1>3 DEF RoundsInv, RoundsTypeOK, RoundCovers, CertifiedQuorum, SettledRunnersCounted
<1> QED
  BY <1>2, <1>4 DEF MailboxInv

(* Every step keeps the mailbox in order. *)
LEMMA NextMailboxInv == MailboxInv /\ [Next]_vars => MailboxInv'
<1> SUFFICES ASSUME MailboxInv, [Next]_vars PROVE MailboxInv'
  OBVIOUS
<1>0. FilesInv /\ RoundsInv
  BY DEF MailboxInv
<1>1. CASE UNCHANGED <<sub, pub, coord, out, readable, signed>>
  <2>1. FilesInv'
    BY <1>0, <1>1 DEF FilesInv, FilesTypeOK, OwnFile, NewestFile, SignaturesMade, FilesReadable
  <2>2. \A x : AtRest(x)' <=> AtRest(x)
    BY <1>1 DEF AtRest
  <2>3. RoundsInv'
    BY <1>0, <1>1, <2>2
       DEF RoundsInv, RoundsTypeOK, RoundCovers, CertifiedQuorum, SettledRunnersCounted
  <2> QED
    BY <2>1, <2>3 DEF MailboxInv
<1>2. ASSUME NEW r \in Runners, Publish(r) PROVE MailboxInv'
  <2>1. \E n, content, p : Writes(r, n, content, p) /\ InOrder(r, n, content, p)
    BY <1>0, <1>2, PublishWrites, WriteWrites, SignWrites, RewriteWrites, DeathWrites DEF Publish
  <2> QED
    BY <1>0, <2>1, FilesKept, RoundsKept DEF MailboxInv
<1>3. ASSUME NEW n \in DOMAIN sub, EditSubmission(n) PROVE MailboxInv'
  <2>1. \E r \in Runners : \E content, p : Writes(r, n, content, p) /\ InOrder(r, n, content, p)
    BY <1>0, <1>3, EditWrites
  <2> QED
    BY <1>0, <2>1, FilesKept, RoundsKept DEF MailboxInv
<1>4. ASSUME NEW c \in Coordinators, Round(c) PROVE MailboxInv'
  <2>1. RoundsInv'
    BY <1>0, <1>4, StartCovers, ReadCovers, CertificateCounts, RoundEnds DEF Round
  <2>2. UNCHANGED <<sub, pub, readable, signed>>
    BY <1>4 DEF Round, StartRound, ReadSubmission, WriteCertificate, WriteDisagreement,
                WriteEvidenceNode, StoreObjects, CoordinatorDies, history
  <2>3. FilesInv'
    BY <1>0, <2>2 DEF FilesInv, FilesTypeOK, OwnFile, NewestFile, SignaturesMade, FilesReadable
  <2> QED
    BY <2>1, <2>3 DEF MailboxInv
<1>5. CASE InitMailbox \/ WriteMailboxJson \/ WriteRunRequest \/ UNCHANGED vars
  BY <1>1, <1>5 DEF InitMailbox, WriteMailboxJson, WriteRunRequest, history, vars
<1> QED
  BY <1>2, <1>3, <1>4, <1>5 DEF Next

(* The mailbox stays in order however its publishers, coordinators and editors
   interleave and die. *)
THEOREM MailboxInvariant == Spec => []MailboxInv
BY InitMailboxInv, NextMailboxInv, PTL DEF Spec

(* A confirmed certificate rests on a threshold of different runners; unless
   --threshold was given, at least two, and all participants but one
   (deduplicate_submissions, compute_agreement, run_consensus). *)
THEOREM QuorumCertified == Spec => []CertifiedQuorum
<1>1. MailboxInv => CertifiedQuorum
  BY DEF MailboxInv, RoundsInv
<1> QED
  BY <1>1, MailboxInvariant, PTL

(* A round counts every runner whose submission was complete when it began,
   although publishers go on writing while run_consensus reads. *)
THEOREM SettledCounted == Spec => []SettledRunnersCounted
<1>1. MailboxInv => SettledRunnersCounted
  BY DEF MailboxInv, RoundsInv
<1> QED
  BY <1>1, MailboxInvariant, PTL

-----------------------------------------------------------------------------
(* Validation.                                                               *)

(* A message that causes no failure with signatures required is what its key's
   holder signed, and in strict mode its runner and key are known and
   trusted (verify_message, IdentityRegistry.status). *)
LEMMA PassedMessage ==
  ASSUME NEW m \in Messages, NEW registry \in Registries, NEW strict \in BOOLEAN,
         m.sig # Nothing => SignatureMade(m.sig, signed),
         MessageFailures(m, VerifyMessage(m, registry), TRUE) = {},
         strict => MessageWarnings(VerifyMessage(m, registry)) = {}
  PROVE  /\ m.sig # Nothing /\ m.hash = m.body
         /\ <<m.body, m.sig.key>> \in signed
         /\ strict /\ registry # Nothing =>
              /\ m.body.runner \in DOMAIN registry \/ LookupByKey(registry, m.sig.key) # {}
              /\ m.body.runner \in DOMAIN registry /\ registry[m.body.runner].key = m.sig.key =>
                    registry[m.body.runner].status = "trusted"
<1> DEFINE outcome == VerifyMessage(m, registry)
<1>1. m.hash = m.body
  BY DEF MessageFailures
<1>2. /\ outcome # "unsigned" /\ outcome # "inactive" /\ outcome # "revoked"
      /\ outcome # "invalid-signature" /\ (strict => outcome # "unknown")
  BY DEF MessageFailures, MessageWarnings
<1>3. m.sig # Nothing /\ m.sig.payload = <<m.body, m.hash>>
  BY <1>1, <1>2 DEF VerifyMessage
<1>5. <<m.body, m.sig.key>> \in signed
  <2>1. PICK b \in Body : m.sig.payload = <<b, b>> /\ <<b, m.sig.key>> \in signed
    BY <1>3 DEF SignatureMade
  <2>2. <<b, b>>[1] = <<m.body, m.hash>>[1]
    BY <1>3, <2>1
  <2>3. b = m.body
    BY <2>2
  <2> QED
    BY <2>1, <2>3
<1>6. ASSUME strict, registry # Nothing
      PROVE  /\ m.body.runner \in DOMAIN registry \/ LookupByKey(registry, m.sig.key) # {}
             /\ m.body.runner \in DOMAIN registry /\ registry[m.body.runner].key = m.sig.key =>
                   registry[m.body.runner].status = "trusted"
  <2> DEFINE r == m.body.runner
             k == m.sig.key
  <2>1. outcome = IF \/ r \in DOMAIN registry /\ registry[r].key # k
                     \/ LookupByKey(registry, k) \ {r} # {}
                  THEN "registry-key-mismatch"
                  ELSE RegistryStatus(registry, r, k)
    BY <1>1, <1>3, <1>6 DEF VerifyMessage
  <2> HIDE DEF outcome, r, k
  <2>2. ASSUME r \notin DOMAIN registry, LookupByKey(registry, k) = {} PROVE FALSE
    BY <1>2, <1>6, <2>1, <2>2 DEF RegistryStatus
  <2>3. ASSUME r \in DOMAIN registry, registry[r].key = k PROVE registry[r].status = "trusted"
    <3>1. LookupByKey(registry, k) \ {r} = {}
      BY <1>6, <2>3, MailboxAssumption DEF LookupByKey
    <3>2. outcome = registry[r].status
      BY <2>1, <2>3, <3>1 DEF RegistryStatus
    <3>3. registry[r].status \in {"trusted", "unknown", "inactive", "revoked"}
      BY <1>6, <2>3, MailboxAssumption
    <3> QED
      BY <1>2, <1>6, <3>2, <3>3
  <2> QED
    BY <2>2, <2>3 DEF r, k
<1> QED
  BY <1>1, <1>3, <1>5, <1>6

(* A finite set whose cardinality does not exceed one has at most one element. *)
LEMMA AtMostOne ==
  ASSUME NEW S, IsFiniteSet(S), ~(Cardinality(S) > 1), NEW a \in S, NEW b \in S
  PROVE  a = b
<1> SUFFICES ASSUME a # b PROVE FALSE
  OBVIOUS
<1>1. IsFiniteSet({a}) /\ Cardinality({a}) = 1
  BY FS_Singleton
<1>2. Cardinality({a} \cup {b}) = 2
  <2>1. b \notin {a}
    OBVIOUS
  <2>2. Cardinality({a} \cup {b}) = IF b \in {a} THEN Cardinality({a}) ELSE Cardinality({a}) + 1
    BY <1>1, FS_AddElement
  <2> QED
    BY <1>1, <2>1, <2>2
<1>3. Cardinality({a} \cup {b}) <= Cardinality(S) /\ Cardinality(S) \in Nat
  <2>1. {a} \cup {b} \in SUBSET S
    OBVIOUS
  <2> QED
    BY <2>1, FS_Subset, FS_CardinalityType
<1> QED
  BY <1>2, <1>3

(* Without key equivocations, messages signed under one key have one hash. *)
LEMMA OneHashPerKey ==
  ASSUME FilesInv, NEW msgs, msgs = {sub[n] : n \in DOMAIN sub}, KeyEquivocations(msgs) = {},
         NEW m \in msgs, NEW o \in msgs, m.sig # Nothing, o.sig # Nothing, m.sig.key = o.sig.key
  PROVE  m.hash = o.hash
<1> DEFINE sigs == {x \in msgs : x.sig # Nothing}
           S == {x.hash : x \in {y \in sigs : y.sig.key = m.sig.key}}
           T == {sub[n].hash : n \in DOMAIN sub}
           f == [n \in DOMAIN sub |-> sub[n].hash]
<1>1. f \in Surjection(DOMAIN sub, T)
  BY DEF Surjection
<1>2. IsFiniteSet(T)
  <2> HIDE DEF f, T
  <2> QED
    BY <1>1, FS_Surjection DEF FilesInv, FilesTypeOK
<1>3. IsFiniteSet(S)
  <2>1. S \in SUBSET T
    OBVIOUS
  <2> HIDE DEF S, T
  <2> QED
    BY <1>2, <2>1, FS_Subset
<1>4. m \in sigs /\ o \in sigs
  OBVIOUS
<1>5. m.sig.key \in {x.sig.key : x \in sigs}
  BY <1>4
<1>6. ~(Cardinality(S) > 1)
  BY <1>5 DEF KeyEquivocations
<1>7. m.hash \in S /\ o.hash \in S
  BY <1>4
<1> HIDE DEF S
<1> QED
  BY <1>3, <1>6, <1>7, AtMostOne

(* In a mailbox in order, a vote that passes validate_mailbox with required
   signatures is what the holder of its key signed. *)
LEMMA ValidVotes == MailboxInv => ValidatedVotes
<1> SUFFICES ASSUME MailboxInv, NEW registry \in Registries, NEW strict \in BOOLEAN,
                    CmdValidate(registry, strict, TRUE) = 0
             PROVE  LET votes == DeduplicateSubmissions({sub[n] : n \in DOMAIN sub})
                    IN /\ \A m \in votes : <<m.body, m.sig.key>> \in signed
                       /\ \A m, o \in votes : m.sig.key = o.sig.key => m = o
                       /\ strict /\ registry # Nothing =>
                            \A m \in votes :
                              /\ m.body.runner \in DOMAIN registry
                                   \/ LookupByKey(registry, m.sig.key) # {}
                              /\ m.body.runner \in DOMAIN registry
                                   /\ registry[m.body.runner].key = m.sig.key =>
                                       registry[m.body.runner].status = "trusted"
  BY DEF ValidatedVotes
<1> DEFINE all == {sub[n] : n \in DOMAIN sub}
           votes == DeduplicateSubmissions(all)
<1>1. ValidateMailbox(registry, strict, TRUE) /\ FilesInv
  <2>1. 0 # 1
    OBVIOUS
  <2>2. ~ValidateMailbox(registry, strict, TRUE) => CmdValidate(registry, strict, TRUE) = 1
    BY Zenon DEF CmdValidate
  <2>3. CmdValidate(registry, strict, TRUE) = 0
    OBVIOUS
  <2>4. ValidateMailbox(registry, strict, TRUE)
    BY <2>1, <2>2, <2>3, Zenon
  <2> QED
    BY <2>4 DEF MailboxInv
<1>2. \A n \in DOMAIN sub : sub[n] # Nothing
  BY <1>1 DEF ValidateMailbox
<1>3. {sub[n] : n \in {x \in DOMAIN sub : sub[x] # Nothing}} = all
  BY <1>2
<1>4. /\ \A m \in all : /\ MessageFailures(m, VerifyMessage(m, registry), TRUE) = {}
                        /\ strict => MessageWarnings(VerifyMessage(m, registry)) = {}
      /\ KeyEquivocations(all) = {}
  <2> HIDE DEF all
  <2> QED
    BY <1>1, <1>3 DEF ValidateMailbox
<1>5. all \subseteq Messages /\ \A m \in all : m.sig # Nothing => SignatureMade(m.sig, signed)
  BY <1>1, <1>2 DEF FilesInv, FilesTypeOK, SignaturesMade
<1>6. /\ votes \subseteq all
      /\ \A m, o \in votes : m.body.runner = o.body.runner => m = o
  <2> HIDE DEF all
  <2> QED
    BY <1>5, OneEach
<1>7. ASSUME NEW m \in all
      PROVE  /\ m.sig # Nothing /\ m.hash = m.body
             /\ <<m.body, m.sig.key>> \in signed
             /\ strict /\ registry # Nothing =>
                  /\ m.body.runner \in DOMAIN registry \/ LookupByKey(registry, m.sig.key) # {}
                  /\ m.body.runner \in DOMAIN registry
                       /\ registry[m.body.runner].key = m.sig.key =>
                           registry[m.body.runner].status = "trusted"
  <2> HIDE DEF all
  <2> QED
    BY <1>4, <1>5, PassedMessage
<1>8. ASSUME NEW m \in votes, NEW o \in votes, m.sig.key = o.sig.key PROVE m = o
  <2>1. m \in all /\ o \in all
    BY <1>6
  <2>2. m.hash = o.hash
    <3> all = {sub[n] : n \in DOMAIN sub}
      OBVIOUS
    <3> HIDE DEF all, votes
    <3> QED
      BY <1>1, <1>4, <1>7, <1>8, <2>1, OneHashPerKey
  <2>3. m.body = o.body
    <3> HIDE DEF all, votes
    <3> QED
      BY <1>7, <2>1, <2>2
  <2> HIDE DEF votes
  <2> QED
    BY <1>6, <2>3
<1> HIDE DEF all
<1>9. votes \subseteq all
  BY <1>6
<1> HIDE DEF votes
<1>10. /\ \A m \in votes : <<m.body, m.sig.key>> \in signed
       /\ \A m, o \in votes : m.sig.key = o.sig.key => m = o
       /\ strict /\ registry # Nothing =>
            \A m \in votes :
              /\ m.body.runner \in DOMAIN registry \/ LookupByKey(registry, m.sig.key) # {}
              /\ m.body.runner \in DOMAIN registry
                   /\ registry[m.body.runner].key = m.sig.key =>
                       registry[m.body.runner].status = "trusted"
  BY <1>7, <1>8, <1>9
<1> QED
  BY <1>10 DEF votes, all

(* A mailbox that passes validation with required signatures holds, for every
   vote a round would count, exactly what the holder of its key signed, and one
   vote per key (validate_mailbox). *)
THEOREM VotesValidated == Spec => []ValidatedVotes
BY ValidVotes, MailboxInvariant, PTL

-----------------------------------------------------------------------------
(* Repeated executions.                                                      *)

(* There are Runs executions. *)
LEMMA JobsFinite == IsFiniteSet(Jobs) /\ Cardinality(Jobs) = Runs
<1>1. 1 \in Int /\ Runs \in Int /\ ~(1 > Runs)
  BY RunsAssumption
<1>2. IsFiniteSet(1..Runs) /\ Cardinality(1..Runs) = IF 1 > Runs THEN 0 ELSE Runs - 1 + 1
  BY <1>1, FS_Interval
<1>3. Runs - 1 + 1 = Runs
  BY <1>1
<1> QED
  BY <1>1, <1>2, <1>3 DEF Jobs

(* Of finitely many executions, some one shares its value with the most. *)
LEMMA MostCommonPresent ==
  ASSUME NEW bundles, DOMAIN bundles = Jobs, NEW f, Present(bundles, f) # {}
  PROVE  MostCommon(bundles, f) \in Present(bundles, f)
<1> DEFINE P == Present(bundles, f)
           Count(i) == Cardinality(Sharing(bundles, f, i))
           Left(i) == Runs - Count(i)
           S == {Left(i) : i \in P}
           R == {ss \in Nat \X Nat : ss[1] < ss[2]}
<1>1. ASSUME NEW i \in P PROVE Count(i) \in Nat /\ Left(i) \in Nat
  <2>1. Sharing(bundles, f, i) \in SUBSET Jobs
    BY DEF Sharing, Present
  <2>2. IsFiniteSet(Jobs) /\ Cardinality(Jobs) = Runs
    BY JobsFinite
  <2>3. /\ IsFiniteSet(Sharing(bundles, f, i))
        /\ Cardinality(Sharing(bundles, f, i)) <= Runs
    BY <2>1, <2>2, FS_Subset
  <2>4. Count(i) \in Nat
    BY <2>3, FS_CardinalityType
  <2> QED
    BY <2>3, <2>4, RunsAssumption
<1>2. S \subseteq Nat /\ S # {}
  BY <1>1
<1>3. IsWellFoundedOn(R, Nat)
  BY NatLessThanWellFounded DEF OpToRel
<1>4. PICK x \in S : \A y \in S : ~(<<y, x>> \in R)
  <2> HIDE DEF R, S
  <2> QED
    BY <1>2, <1>3, WFMin
<1>5. \A x1, y1 \in Nat : y1 < x1 => <<y1, x1>> \in R
  OBVIOUS
<1>6. PICK i \in P : x = Left(i)
  BY <1>4
<1>7. ASSUME NEW j \in P PROVE Count(j) <= Count(i)
  <2>1. Left(j) \in S /\ Left(j) \in Nat /\ Left(i) \in Nat
    BY <1>1
  <2>2. ~(Left(j) < Left(i))
    <3> HIDE DEF R, S, Left
    <3> QED
      BY <1>4, <1>5, <1>6, <2>1
  <2>3. Count(i) \in Nat /\ Count(j) \in Nat /\ Runs \in Nat
    BY <1>1, RunsAssumption
  <2> HIDE DEF Count
  <2> QED
    BY <2>2, <2>3
<1> QED
  BY <1>6, <1>7 DEF MostCommon

(* The executions that do not report for f what execution i reports. *)
DissentFrom(bundles, f, i) ==
    {j \in Present(bundles, f) : bundles[j].fields[f] # bundles[i].fields[f]}

(* What the local quorum's "confirmed" says of one field. *)
LEMMA AgreedField ==
  ASSUME NEW bundles, DOMAIN bundles = Jobs, NEW f, NEW threshold \in Int,
         Present(bundles, f) # {}, FieldAgreement(bundles, f, threshold) = "confirmed"
  PROVE  \E i \in Present(bundles, f) :
            \/ DissentFrom(bundles, f, i) = {}
            \/ Cardinality(DissentFrom(bundles, f, i)) <= Runs - threshold
<1> DEFINE P == Present(bundles, f)
           i == MostCommon(bundles, f)
           W == Sharing(bundles, f, i)
           D == DissentFrom(bundles, f, i)
<1>1. i \in P
  BY MostCommonPresent
<1>2. Cardinality(W) >= threshold \/ W = P
  BY DEF FieldAgreement
<1>3. D = P \ W /\ W \subseteq P
  BY DEF Sharing, DissentFrom
<1>4. IsFiniteSet(P) /\ Cardinality(P) <= Runs
  <2>1. P \in SUBSET Jobs
    BY DEF Present
  <2>2. IsFiniteSet(Jobs) /\ Cardinality(Jobs) = Runs
    BY JobsFinite
  <2> QED
    BY <2>1, <2>2, FS_Subset
<1> HIDE DEF P, W, D
<1>5. CASE W = P
  BY <1>1, <1>3, <1>5 DEF D, P
<1>6. CASE Cardinality(W) >= threshold
  <2>1. IsFiniteSet(W)
    BY <1>3, <1>4, FS_Subset
  <2>2. IsFiniteSet(D) /\ Cardinality(D) = Cardinality(P) - Cardinality(P \cap W)
    BY <1>3, <1>4, FS_Difference
  <2>3. P \cap W = W
    BY <1>3
  <2>4. Cardinality(P) \in Nat /\ Cardinality(W) \in Nat /\ Cardinality(D) \in Nat
    BY <1>4, <2>1, <2>2, FS_CardinalityType
  <2>5. Cardinality(D) <= Runs - threshold
    <3> DEFINE d == Cardinality(D)
               p == Cardinality(P)
               w == Cardinality(W)
    <3>1. d = p - w /\ p <= Runs /\ w >= threshold
      BY <1>4, <1>6, <2>2, <2>3
    <3>2. d \in Nat /\ p \in Nat /\ w \in Nat /\ Runs \in Nat
      BY <2>4, RunsAssumption
    <3> HIDE DEF d, p, w
    <3>3. d <= Runs - threshold
      BY <3>1, <3>2
    <3> QED
      BY <3>3 DEF d
  <2> QED
    BY <1>1, <2>5 DEF D, P
<1> QED
  BY <1>2, <1>5, <1>6

(* What a confirmed quorum says. *)
LEMMA ConfirmedQuorum ==
  ASSUME NEW bundles, DOMAIN bundles = Jobs, NEW threshold \in Int,
         QuorumStatus(bundles, threshold) = "confirmed"
  PROVE  /\ \A i \in Jobs : bundles[i].exists
         /\ \A f \in UNION {DOMAIN bundles[i].fields : i \in Jobs} : \E i \in Present(bundles, f) :
               \/ DissentFrom(bundles, f, i) = {}
               \/ Cardinality(DissentFrom(bundles, f, i)) <= Runs - threshold
<1> DEFINE fields == UNION {DOMAIN bundles[i].fields : i \in DOMAIN bundles}
           results == {FieldAgreement(bundles, f, threshold) : f \in fields}
                        \ {"insufficient-data"}
<1>1. /\ \A i \in Jobs : bundles[i].exists
      /\ "insufficient-agreement" \notin results
  BY DEF QuorumStatus
<1>2. ASSUME NEW f \in fields
      PROVE  Present(bundles, f) # {} /\ FieldAgreement(bundles, f, threshold) = "confirmed"
  <2>1. PICK i \in Jobs : f \in DOMAIN bundles[i].fields
    OBVIOUS
  <2>2. i \in Present(bundles, f)
    BY <1>1, <2>1 DEF Present
  <2>3. FieldAgreement(bundles, f, threshold) # "insufficient-agreement"
    BY <1>1
  <2> QED
    BY <2>2, <2>3 DEF FieldAgreement
<1>3. ASSUME NEW f \in fields
      PROVE  \E i \in Present(bundles, f) :
               \/ DissentFrom(bundles, f, i) = {}
               \/ Cardinality(DissentFrom(bundles, f, i)) <= Runs - threshold
  <2> HIDE DEF fields
  <2> QED
    BY <1>2, <1>3, AgreedField
<1>4. fields = UNION {DOMAIN bundles[i].fields : i \in Jobs}
  OBVIOUS
<1> HIDE DEF fields
<1> QED
  BY <1>1, <1>3, <1>4

(* A difference that reproduce accepts in a core field is explained by the
   source pre-check (classify_mismatch, compute_verdict). *)
LEMMA ReproducedField ==
  ASSUME NEW old, NEW new, NEW hash, NEW algorithm, NEW current, current # Nothing,
         NEW f \in CoreFields \cap DOMAIN old \cap DOMAIN new,
         old[f] # Nothing, new[f] # Nothing, old[f] # new[f],
         ReproduceVerdict(CompareBundleFields(old, new,
             ClassifySourcePrecheck(hash, algorithm, current, CurrentAlgorithm))) \in Reproduced
  PROVE  /\ ReproduceVerdict(CompareBundleFields(old, new,
               ClassifySourcePrecheck(hash, algorithm, current, CurrentAlgorithm))) # "verified"
         /\ \/ hash \notin {current, Nothing} /\ algorithm = CurrentAlgorithm
            \/ f = "tree" /\ algorithm # CurrentAlgorithm
<1> DEFINE reason == ClassifySourcePrecheck(hash, algorithm, current, CurrentAlgorithm)
           checks == CompareBundleFields(old, new, reason)
           core == {g \in DOMAIN checks : g \in CoreFields}
           reasons == {checks[g] : g \in core}
           conclusion == ReproduceVerdict(checks)
<1> HIDE DEF reason
<1>1. /\ f \in DOMAIN checks
      /\ checks[f] = IF f \in {"tree", "algorithm"}
                        /\ reason \in {"missing/algorithm-field", "algorithm-mismatch"}
                     THEN "legacy-algorithm"
                     ELSE IF f # "algorithm" /\ reason = "expected-drift" THEN "expected-drift"
                     ELSE "mismatch"
  BY DEF CompareBundleFields, ClassifyMismatch, ValueIn
<1> HIDE DEF checks
<1>2. checks[f] \in reasons
  BY <1>1
<1>3. conclusion \in Reproduced => "mismatch" \notin reasons
  BY DEF ReproduceVerdict, Reproduced
<1>4. conclusion = "verified" => reasons \cap {"mismatch", "expected-drift", "legacy-algorithm"} = {}
  BY DEF ReproduceVerdict
<1>5. conclusion \in Reproduced
  BY DEF checks, reason
<1>6. /\ reason = "expected-drift" => hash \notin {current, Nothing} /\ algorithm = CurrentAlgorithm
      /\ reason \in {"missing/algorithm-field", "algorithm-mismatch"} => algorithm # CurrentAlgorithm
  <2>1. Nothing # CurrentAlgorithm
    BY RunsAssumption
  <2>2. reason = IF hash = Nothing THEN "missing/original-field"
                 ELSE IF algorithm = Nothing THEN "missing/algorithm-field"
                 ELSE IF algorithm # CurrentAlgorithm THEN "algorithm-mismatch"
                 ELSE IF current = hash THEN "matched" ELSE "expected-drift"
    BY DEF reason, ClassifySourcePrecheck
  <2> HIDE DEF CurrentAlgorithm
  <2> QED
    BY <2>1, <2>2
<1> HIDE DEF reasons, conclusion
<1>7. checks[f] # "mismatch" /\ f # "algorithm"
  BY <1>2, <1>3, <1>5 DEF CoreFields
<1>8. conclusion # "verified"
  BY <1>1, <1>2, <1>4
<1>9. \/ reason = "expected-drift"
      \/ f = "tree" /\ reason \in {"missing/algorithm-field", "algorithm-mismatch"}
  BY <1>1, <1>7
<1> QED
  BY <1>6, <1>8, <1>9 DEF conclusion, checks, reason

Conclusions == {"confirmed"} \cup Reproduced

(* An execution that ended reports values, one that runs has a version. *)
JobsTyped ==
    \A i \in DOMAIN job :
        /\ job[i].pc = "run" => job[i].version \in Nat
        /\ job[i].pc = "end" => \A f \in DOMAIN job[i].fields : job[i].fields[f] # Nothing

(* The pre-check is made once, before the execution of reproduce. *)
PrecheckFirst ==
    tool = "reproduce" =>
        /\ precheck # Nothing =>
              /\ precheck.hash \in UnknownHash..MaxSource
              /\ precheck.reason = ClassifySourcePrecheck(argument.hash, argument.algorithm,
                                                          precheck.hash, CurrentAlgorithm)
        /\ \A i \in DOMAIN job : job[i].pc # "wait" => precheck # Nothing

(* The inductive invariant of the two tools; a verdict is given at the end. *)
ExecInv ==
    /\ source \in 0..MaxSource
    /\ tool = "quorum" => argument \in Thresholds /\ DOMAIN job = Jobs
    /\ tool = "reproduce" => argument \in Originals /\ DOMAIN job = {1}
    /\ tool # "mailbox" => JobsTyped /\ (verdict \in Conclusions => AllEnded)
    /\ PrecheckFirst
    /\ RepeatedResultsSound

(* Before the first execution nothing has been concluded. *)
LEMMA InitExecInv == ExecInit => ExecInv
<1> SUFFICES ASSUME ExecInit PROVE ExecInv
  OBVIOUS
<1>1. verdict \notin Conclusions /\ precheck = Nothing
  BY RunsAssumption DEF ExecInit, Conclusions
<1>2. source \in 0..MaxSource
  BY RunsAssumption DEF ExecInit
<1>3. /\ tool = "quorum" => argument \in Thresholds /\ DOMAIN job = Jobs
      /\ tool = "reproduce" => argument \in Originals /\ DOMAIN job = {1}
      /\ \A i \in DOMAIN job : job[i].pc = "wait"
  BY DEF ExecInit
<1> QED
  BY <1>1, <1>2, <1>3
     DEF ExecInv, JobsTyped, PrecheckFirst, RepeatedResultsSound, Conclusions

(* While an execution has not ended there is no conclusion to be kept. *)
LEMMA NotConcluded ==
  ASSUME ExecInv, tool # "mailbox", NEW i \in DOMAIN job, job[i].pc # "end"
  PROVE  verdict \notin Conclusions
BY DEF ExecInv, AllEnded

(* Execute and Complete. *)
LEMMA JobStep ==
  ASSUME ExecInv, tool # "mailbox", NEW i \in DOMAIN job, Execute(i) \/ Complete(i)
  PROVE  ExecInv'
<1>1. UNCHANGED <<tool, argument, source, precheck, verdict>>
  BY DEF Execute, Complete
<1>2. verdict \notin Conclusions
  <2>1. job[i].pc # "end"
    BY DEF Execute, Complete
  <2> QED
    BY <2>1, NotConcluded
<1>3. tool = "reproduce" => precheck # Nothing
  BY DEF Execute, Complete, ExecInv, PrecheckFirst
<1>4. PICK j : /\ job' = [job EXCEPT ![i] = j]
               /\ j.pc = "run" => j.version \in Nat
               /\ j.pc = "end" => \A f \in DOMAIN j.fields : j.fields[f] # Nothing
  <2>1. CASE Execute(i)
    <3> DEFINE j == [pc |-> "run", version |-> source]
    <3>1. job' = [job EXCEPT ![i] = j] /\ j.pc = "run" /\ j.version = source
      BY <2>1 DEF Execute
    <3>2. source \in Nat
      BY RunsAssumption DEF ExecInv
    <3> HIDE DEF j
    <3> QED
      BY <3>1, <3>2
  <2>2. CASE Complete(i)
    <3> DEFINE v == job[i].version
               recorded == IF tool = "reproduce" THEN precheck.hash ELSE v
    <3>1. v \in Nat /\ recorded \in Int
      <4>1. v \in Nat
        BY <2>2 DEF Complete, ExecInv, JobsTyped
      <4>2. tool = "reproduce" => precheck.hash \in Int
        BY <1>3, RunsAssumption DEF ExecInv, PrecheckFirst, UnknownHash
      <4> QED
        BY <4>1, <4>2
    <3>2. CASE \E fields \in ResultFields(v, recorded), code \in {0, 1} :
                  job' = [job EXCEPT ![i] = Ended(TRUE, fields, code)]
      <4>1. PICK fields \in ResultFields(v, recorded), code \in {0, 1} :
                  job' = [job EXCEPT ![i] = Ended(TRUE, fields, code)]
        BY <3>2
      <4> HIDE DEF v, recorded
      <4>2. PICK o \in {v, MaxSource + 1} :
               fields = [overview |-> o, totals |-> v, registry |-> v, tree |-> recorded,
                         algorithm |-> CurrentAlgorithm]
        BY DEF ResultFields
      <4>3. o \in Nat
        BY <3>1, RunsAssumption
      <4>4. \A x \in Int : x # Nothing
        BY RunsAssumption
      <4>5. CurrentAlgorithm # Nothing
        BY RunsAssumption
      <4>6. \A f \in DOMAIN fields : fields[f] # Nothing
        BY <3>1, <4>2, <4>3, <4>4, <4>5
      <4> DEFINE j == Ended(TRUE, fields, code)
      <4>7. j.pc = "end" /\ j.fields = fields
        BY DEF Ended
      <4> HIDE DEF j
      <4> QED
        BY <4>1, <4>6, <4>7 DEF j
    <3>3. CASE job' = [job EXCEPT ![i] = Ended(FALSE, <<>>, 1)]
      <4> DEFINE j == Ended(FALSE, <<>>, 1)
      <4>1. j.pc = "end" /\ DOMAIN j.fields = {}
        BY DEF Ended
      <4> HIDE DEF j
      <4> QED
        BY <3>3, <4>1 DEF j
    <3> QED
      BY <2>2, <3>2, <3>3 DEF Complete
  <2> QED
    BY <2>1, <2>2
<1>5. DOMAIN job' = DOMAIN job /\ \A k \in DOMAIN job : job'[k] = IF k = i THEN j ELSE job[k]
  BY <1>4
<1>6. JobsTyped'
  BY <1>4, <1>5 DEF ExecInv, JobsTyped
<1>7. PrecheckFirst'
  BY <1>1, <1>3, <1>5 DEF ExecInv, PrecheckFirst
<1>8. RepeatedResultsSound'
  BY <1>1, <1>2 DEF RepeatedResultsSound, Conclusions
<1> QED
  BY <1>1, <1>2, <1>5, <1>6, <1>7, <1>8 DEF ExecInv

(* The pre-check, an edit of the checkout, a time-out. *)
LEMMA OutsideStep ==
  ASSUME ExecInv, tool # "mailbox",
         EditSource \/ Precheck \/ \E i \in DOMAIN job : TimeOut(i)
  PROVE  ExecInv'
<1>1. CASE EditSource
  <2>1. source' \in 0..MaxSource
    BY <1>1, RunsAssumption DEF EditSource, ExecInv
  <2>2. UNCHANGED <<tool, argument, precheck, job, verdict>>
    BY <1>1 DEF EditSource
  <2>3. PrecheckFirst'
    BY <2>2 DEF ExecInv, PrecheckFirst
  <2>4. JobsTyped' = JobsTyped /\ AllEnded' = AllEnded
    BY <2>2 DEF JobsTyped, AllEnded
  <2>5. /\ \A f, i : Dissenters(f, i)' = Dissenters(f, i)
        /\ \A f : Present(job, f)' = Present(job, f)
    BY <2>2 DEF Dissenters
  <2>6. RepeatedResultsSound'
    BY <2>2, <2>5 DEF ExecInv, RepeatedResultsSound
  <2> QED
    BY <2>1, <2>2, <2>3, <2>4, <2>6 DEF ExecInv
<1>2. CASE Precheck
  <2>0. PICK hash \in {source, UnknownHash} :
          precheck' = [hash |-> hash,
                       reason |-> ClassifySourcePrecheck(argument.hash, argument.algorithm,
                                                         hash, CurrentAlgorithm)]
    BY <1>2 DEF Precheck
  <2> DEFINE new == [hash |-> hash,
                     reason |-> ClassifySourcePrecheck(argument.hash, argument.algorithm,
                                                       hash, CurrentAlgorithm)]
  <2>1. /\ UNCHANGED <<tool, argument, source, job, verdict>>
        /\ precheck' = new /\ precheck = Nothing /\ tool = "reproduce"
    BY <1>2, <2>0 DEF Precheck
  <2>2. new.hash = hash /\ hash \in UnknownHash..MaxSource
        /\ new.reason = ClassifySourcePrecheck(argument.hash, argument.algorithm,
                                               hash, CurrentAlgorithm)
    <3>1. source \in 0..MaxSource /\ MaxSource \in Nat
      BY RunsAssumption DEF ExecInv
    <3>2. hash \in {source, UnknownHash}
      BY <2>0
    <3>3. hash \in UnknownHash..MaxSource
      BY <3>1, <3>2 DEF UnknownHash
    <3> QED
      BY <3>3
  <2>3. new # Nothing
    <3>1. new.reason \in PrecheckReasons
      BY DEF ClassifySourcePrecheck, PrecheckReasons
    <3>2. new \in [hash : UnknownHash..MaxSource, reason : PrecheckReasons]
      BY <2>2, <3>1
    <3> HIDE DEF new
    <3> QED
      BY <3>2, RunsAssumption
  <2> HIDE DEF new
  <2>4. PrecheckFirst'
    BY <2>1, <2>2, <2>3 DEF PrecheckFirst
  <2>5. verdict \notin Conclusions
    <3>1. 1 \in DOMAIN job /\ job[1].pc # "end"
      BY <2>1 DEF ExecInv, PrecheckFirst
    <3> QED
      BY <3>1, NotConcluded
  <2> QED
    BY <2>1, <2>4, <2>5 DEF ExecInv, JobsTyped, RepeatedResultsSound, Conclusions
<1>3. CASE \E i \in DOMAIN job : TimeOut(i)
  <2>1. UNCHANGED <<tool, argument, source, precheck, job>> /\ verdict' = "raised"
    BY <1>3 DEF TimeOut
  <2>2. "raised" \notin Conclusions
    BY DEF Conclusions, Reproduced
  <2> QED
    BY <2>1, <2>2 DEF ExecInv, JobsTyped, PrecheckFirst, RepeatedResultsSound, Conclusions
<1> QED
  BY <1>1, <1>2, <1>3

(* The verdict of the local quorum. *)
LEMMA QuorumConcludes ==
  ASSUME ExecInv, Quorum
  PROVE  ExecInv'
<1> DEFINE threshold == Default(argument, Runs)
<1>1. /\ UNCHANGED <<tool, argument, source, precheck, job>> /\ tool = "quorum" /\ AllEnded
      /\ verdict' = QuorumStatus(job, threshold) /\ DOMAIN job = Jobs
  BY DEF Quorum, ExecInv
<1>2. threshold \in Int
  <2>1. argument \in Int \cup {Nothing} /\ Runs \in Int
    <3>1. argument \in Thresholds
      BY <1>1 DEF ExecInv
    <3>2. Thresholds \subseteq Int \cup {Nothing}
      BY RunsAssumption
    <3>3. Runs \in Int
      BY RunsAssumption
    <3> QED
      BY <3>1, <3>2, <3>3
  <2> QED
    BY <2>1 DEF Default
<1> HIDE DEF threshold
<1>3. RepeatedResultsSound'
  <2>0. /\ \A f, i : Dissenters(f, i)' = Dissenters(f, i)
        /\ \A f : Present(job, f)' = Present(job, f)
        /\ Default(argument, Runs)' = threshold
    BY <1>1 DEF Dissenters, threshold
  <2>1. SUFFICES ASSUME QuorumStatus(job, threshold) = "confirmed"
                 PROVE  /\ \A i \in Jobs : job[i].exists
                        /\ \A f \in UNION {DOMAIN job[i].fields : i \in Jobs} :
                             \E i \in Present(job, f) :
                               \/ Dissenters(f, i) = {}
                               \/ Cardinality(Dissenters(f, i)) <= Runs - threshold
    BY <1>1, <2>0 DEF RepeatedResultsSound
  <2>2. \A f, i : Dissenters(f, i) = DissentFrom(job, f, i)
    BY DEF Dissenters, DissentFrom
  <2>3. /\ \A i \in Jobs : job[i].exists
        /\ \A f \in UNION {DOMAIN job[i].fields : i \in Jobs} : \E i \in Present(job, f) :
             \/ DissentFrom(job, f, i) = {}
             \/ Cardinality(DissentFrom(job, f, i)) <= Runs - threshold
    BY <1>1, <1>2, <2>1, ConfirmedQuorum
  <2> QED
    BY <2>2, <2>3
<1>4. JobsTyped' /\ PrecheckFirst' /\ AllEnded'
  BY <1>1 DEF ExecInv, JobsTyped, PrecheckFirst, AllEnded
<1> QED
  BY <1>1, <1>3, <1>4 DEF ExecInv

(* The verdict of a reproduction. *)
LEMMA ReproductionConcludes ==
  ASSUME ExecInv, ReproduceRun
  PROVE  ExecInv'
<1> DEFINE old == argument.fields
           new == job[1].fields
           conclusion == ReproduceVerdict(CompareBundleFields(old, new,
                           ClassifySourcePrecheck(argument.hash, argument.algorithm,
                                                  precheck.hash, CurrentAlgorithm)))
<1>1. /\ UNCHANGED <<tool, argument, source, precheck, job>> /\ tool = "reproduce" /\ AllEnded
      /\ DOMAIN job = {1} /\ argument \in Originals
  BY DEF ReproduceRun, ExecInv
<1>2. /\ job[1].pc = "end" /\ precheck # Nothing /\ precheck.hash \in UnknownHash..MaxSource
      /\ precheck.reason = ClassifySourcePrecheck(argument.hash, argument.algorithm,
                                                  precheck.hash, CurrentAlgorithm)
  BY <1>1 DEF AllEnded, ExecInv, PrecheckFirst
<1>3. verdict' = IF ~job[1].exists \/ job[1].exit # 0 THEN "reproduce-failed" ELSE conclusion
  BY <1>2 DEF ReproduceRun
<1>4. /\ \A f \in DOMAIN old : old[f] # Nothing
      /\ \A f \in DOMAIN new : new[f] # Nothing
      /\ precheck.hash # Nothing
  <2>1. \A x \in Int : x # Nothing
    BY RunsAssumption
  <2>2. precheck.hash \in Int
    BY <1>2, RunsAssumption DEF UnknownHash
  <2>3. \A f \in DOMAIN old : old[f] # Nothing
    BY <1>1, RunsAssumption
  <2>4. \A f \in DOMAIN new : new[f] # Nothing
    BY <1>1, <1>2 DEF ExecInv, JobsTyped
  <2> QED
    BY <2>1, <2>2, <2>3, <2>4
<1>5. RepeatedResultsSound'
  <2>1. SUFFICES ASSUME verdict' \in Reproduced
                 PROVE  /\ job[1].exists /\ job[1].exit = 0
                        /\ \A f \in CoreFields \cap DOMAIN old \cap DOMAIN new :
                             \/ old[f] = new[f]
                             \/ /\ verdict' # "verified"
                                /\ \/ argument.hash \notin {precheck.hash, Nothing}
                                      /\ argument.algorithm = CurrentAlgorithm
                                   \/ f = "tree" /\ argument.algorithm # CurrentAlgorithm
    BY <1>1 DEF RepeatedResultsSound
  <2>2. job[1].exists /\ job[1].exit = 0 /\ verdict' = conclusion
    BY <1>3, <2>1 DEF Reproduced
  <2>3. ASSUME NEW f \in CoreFields \cap DOMAIN old \cap DOMAIN new, old[f] # new[f]
        PROVE  /\ conclusion # "verified"
               /\ \/ argument.hash \notin {precheck.hash, Nothing}
                     /\ argument.algorithm = CurrentAlgorithm
                  \/ f = "tree" /\ argument.algorithm # CurrentAlgorithm
    <3>1. conclusion \in Reproduced /\ old[f] # Nothing /\ new[f] # Nothing
      BY <1>4, <2>1, <2>2, <2>3
    <3> HIDE DEF old, new
    <3> QED
      BY <1>4, <2>3, <3>1, ReproducedField
  <2> HIDE DEF old, new, conclusion
  <2> QED
    BY <2>2, <2>3
<1>6. JobsTyped' /\ PrecheckFirst' /\ AllEnded'
  BY <1>1 DEF ExecInv, JobsTyped, PrecheckFirst, AllEnded
<1> QED
  BY <1>1, <1>5, <1>6 DEF ExecInv

(* Every step of the two tools. *)
LEMMA NextExecInv == ExecInv /\ tool # "mailbox" /\ ExecNext => ExecInv'
BY JobStep, OutsideStep, QuorumConcludes, ReproductionConcludes DEF ExecNext

(* A step that leaves the tools alone. *)
LEMMA SameExecInv == ExecInv /\ UNCHANGED execVars => ExecInv'
<1> SUFFICES ASSUME ExecInv, UNCHANGED execVars PROVE ExecInv'
  OBVIOUS
<1>1. UNCHANGED <<tool, argument, source, precheck, job, verdict>>
  BY DEF execVars
<1>2. PrecheckFirst'
  BY <1>1 DEF ExecInv, PrecheckFirst
<1>3. JobsTyped' = JobsTyped /\ AllEnded' = AllEnded
  BY <1>1 DEF JobsTyped, AllEnded
<1>4. /\ \A f, i : Dissenters(f, i)' = Dissenters(f, i)
      /\ \A f : Present(job, f)' = Present(job, f)
  BY <1>1 DEF Dissenters
<1>5. RepeatedResultsSound'
  BY <1>1, <1>4 DEF ExecInv, RepeatedResultsSound
<1> QED
  BY <1>1, <1>2, <1>3, <1>5 DEF ExecInv

(* The conclusions of the local quorum and of reproduce are sound whatever was
   edited, failed, varied or timed out meanwhile. *)
THEOREM ExecutionsSound == ExecSpec => []RepeatedResultsSound
<1> DEFINE Inv == ExecInv /\ tool # "mailbox"
<1>1. ExecInit => Inv
  BY InitExecInv DEF ExecInit
<1>2. Inv /\ [ExecNext]_execVars => Inv'
  <2> SUFFICES ASSUME Inv, [ExecNext]_execVars PROVE Inv'
    OBVIOUS
  <2>1. tool' = tool
    BY DEF ExecNext, EditSource, Precheck, Quorum, ReproduceRun, Execute, Complete, TimeOut, execVars
  <2> QED
    BY <2>1, NextExecInv, SameExecInv
<1>3. Inv => RepeatedResultsSound
  BY DEF ExecInv
<1> QED
  BY <1>1, <1>2, <1>3, PTL DEF ExecSpec

(* The same of the behaviours of all tools: whichever runs, what it certifies,
   validates or concludes is sound. *)
THEOREM ToolsSound ==
  ToolsSpec => []( /\ CertifiedQuorum /\ SettledRunnersCounted /\ ValidatedVotes
                   /\ RepeatedResultsSound)
<1> DEFINE Inv == MailboxInv /\ ExecInv
           Sound == CertifiedQuorum /\ SettledRunnersCounted /\ ValidatedVotes
                      /\ RepeatedResultsSound
<1>1. ToolsInit => Inv
  <2> SUFFICES ASSUME ToolsInit PROVE Inv
    OBVIOUS
  <2>1. MailboxInv
    BY InitMailboxInv DEF ToolsInit
  <2>2. CASE ExecInit
    BY <2>1, <2>2, InitExecInv
  <2>3. CASE tool = "mailbox" /\ source = 0
    <3>1. source \in 0..MaxSource
      BY <2>3, RunsAssumption
    <3> QED
      BY <2>1, <2>3, <3>1 DEF ExecInv, PrecheckFirst, RepeatedResultsSound
  <2> QED
    BY <2>2, <2>3 DEF ToolsInit
<1>2. Inv /\ [ToolsNext]_<<vars, execVars>> => Inv'
  <2> SUFFICES ASSUME Inv, [ToolsNext]_<<vars, execVars>> PROVE Inv'
    OBVIOUS
  <2>1. CASE Next /\ UNCHANGED execVars
    BY <2>1, NextMailboxInv, SameExecInv
  <2>2. CASE tool # "mailbox" /\ ExecNext /\ UNCHANGED vars
    BY <2>2, NextMailboxInv, NextExecInv
  <2>3. CASE UNCHANGED vars /\ UNCHANGED execVars
    BY <2>3, NextMailboxInv, SameExecInv
  <2> QED
    BY <2>1, <2>2, <2>3 DEF ToolsNext
<1>3. Inv => Sound
  BY ValidVotes DEF MailboxInv, RoundsInv, ExecInv
<1> QED
  BY <1>1, <1>2, <1>3, PTL DEF ToolsSpec
==============================================================================
