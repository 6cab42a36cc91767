-------------------------- MODULE ForceAuthEvidence --------------------------
(***************************************************************************)
(* Force authorisations of the Sew protocol and the evidence about them.   *)
(* The first half is the producer: governance grants, a keeper executes,   *)
(* settlement consumes, governance revokes, and every step but settlement  *)
(* leaves an evidence event (sew.clj, accounting.clj).  Export builds the  *)
(* bundle root's protocol part (bundle_root.clj, scenario_runner.clj).     *)
(* The second half is the consumer: the checks of validate_sew.py and the  *)
(* dispatcher of validate.py.                                              *)
(*                                                                         *)
(* Every scenario of a run has a world of its own and numbers its          *)
(* authorisations from fa-0, so the same id may occur in two scenarios.    *)
(* A related-claims authorisation covers several claims (Claims); a single *)
(* one covers one.                                                         *)
(***************************************************************************)
EXTENDS Integers, Sequences, FiniteSets

CONSTANTS Scenarios, Ids, RelatedIds, Claims,
          MaxEvents   \* bound on the evidence events of a run

ASSUME ForceAuthAssumption ==
    /\ RelatedIds \subseteq Ids
    /\ Claims # {}
    /\ IsFiniteSet(Scenarios) /\ IsFiniteSet(Claims)
    /\ MaxEvents \in Nat

VARIABLES record,    \* record[s][i]: the authorisation i of scenario s
          pending,   \* executed, settlement still to come
          consumed,  \* consumptions, each with its held adjustment
          events     \* event-evidence files in sequence order

historyVars == <<record, pending, consumed, events>>

Statuses == {"none", "active", "consumed", "revoked"}

Event(type, s, i) == [type |-> type, scenario |-> s, id |-> i]

CoveredClaims(i) == IF i \in RelatedIds THEN Claims ELSE {CHOOSE c \in Claims : TRUE}

HistoryInit ==
    /\ record = [s \in Scenarios |-> [i \in Ids |-> [status |-> "none", consumed |-> FALSE]]]
    /\ pending = {}
    /\ consumed = {}
    /\ events = <<>>

------------------------------------------------------------------------------
(* The producer.                                                            *)

Emit(type, s, i) ==
    /\ Len(events) < MaxEvents
    /\ events' = Append(events, Event(type, s, i))

\* grant-force-authorisation: a fresh id becomes an active record.
Grant(s, i) ==
    /\ record[s][i].status = "none"
    /\ record' = [record EXCEPT ![s][i].status = "active"]
    /\ Emit("granted", s, i)
    /\ UNCHANGED <<pending, consumed>>

\* execute-force-authorised-action: the record stays active; consumption is
\* left to the settlement of the escrow, and until then the action may be
\* executed again.
Execute(s, i, c) ==
    /\ record[s][i].status = "active"
    /\ ~record[s][i].consumed
    /\ c \in CoveredClaims(i)
    /\ <<s, i, c>> \notin consumed
    /\ pending' = pending \cup {<<s, i, c>>}
    /\ Emit("executed", s, i)
    /\ UNCHANGED <<record, consumed>>

\* sub-held at finalisation: the adjustment is recorded and consumes the
\* authorisation, a related one only with its last claim.
Settle(s, i, c) ==
    /\ <<s, i, c>> \in pending
    /\ record[s][i].status = "active"
    /\ LET now == consumed \cup {<<s, i, c>>}
           all == \A d \in CoveredClaims(i) : <<s, i, d>> \in now
       IN /\ consumed' = now
          /\ record' = IF all
                       THEN [record EXCEPT ![s][i] = [status |-> "consumed", consumed |-> TRUE]]
                       ELSE record
    /\ pending' = pending \ {<<s, i, c>>}
    /\ UNCHANGED events

\* An ordinary ruling replaces the pending forced one, with its provenance.
Supersede(s, i, c) ==
    /\ <<s, i, c>> \in pending
    /\ pending' = pending \ {<<s, i, c>>}
    /\ UNCHANGED <<record, consumed, events>>

\* revoke-force-authorisation looks only for the record, not at its status.
Revoke(s, i) ==
    /\ record[s][i].status # "none"
    /\ record' = [record EXCEPT ![s][i].status = "revoked"]
    /\ Emit("revoked", s, i)
    /\ UNCHANGED <<pending, consumed>>

HistoryStep ==
    \E s \in Scenarios, i \in Ids :
        \/ Grant(s, i)
        \/ Revoke(s, i)
        \/ \E c \in Claims : Execute(s, i, c) \/ Settle(s, i, c) \/ Supersede(s, i, c)

------------------------------------------------------------------------------
(* The exported witness.  Every scenario holds escrow deposits, so there is *)
(* always a held adjustment and hence a state-hashes section; its two       *)
(* force-authorisation hashes are left out when their maps are empty.       *)

Granted(rec) == {a \in Scenarios \X Ids : rec[a[1]][a[2]].status # "none"}

Witness == [record |-> record, consumed |-> consumed, adjustments |-> consumed]

StateHashes ==
    {"held-adjustments"}
        \cup (IF Granted(record) = {} THEN {} ELSE {"force-authorisations"})
        \cup (IF consumed = {} THEN {} ELSE {"consumed"})

Export == [witness |-> Witness, witnessHash |-> Witness, hashes |-> StateHashes,
           events |-> events]

------------------------------------------------------------------------------
(* The consumer: each operator returns the names of the failing checks.     *)

(* mutant: a missing consumption hash is not missed *)
BundleRootFailuresLenient(x) ==
    IF x.hashes = {} THEN {} ELSE {"force-authorisations"} \ x.hashes

\* validate_bundle_root
BundleRootFailures(x) ==
    IF x.hashes = {} THEN {} ELSE {"force-authorisations", "consumed"} \ x.hashes

\* Consumption entries and linked adjustments of one authorisation.  A
\* related-claims entry carries no held-adjustment/id of its own.
HasEntry(w, s, i) == \E c \in Claims : <<s, i, c>> \in w.consumed
Linked(w, s, i) == {c \in Claims : <<s, i, c>> \in w.adjustments}
EntryNamesAdjustment(w, s, i) ==
    /\ i \notin RelatedIds
    /\ \E c \in Claims : <<s, i, c>> \in w.consumed \cap w.adjustments

\* validate_protocol_state over the scenario-keyed witness
RecordViolates(w, s, i) ==
    LET r == w.record[s][i]
    IN \/ r.status = "active" /\ (r.consumed \/ HasEntry(w, s, i))
       \/ /\ r.status = "consumed"
          /\ ~(/\ r.consumed
               /\ HasEntry(w, s, i)
               /\ Cardinality(Linked(w, s, i)) = 1
               /\ EntryNamesAdjustment(w, s, i))

OrphanConsumption(w, s, i) ==
    /\ HasEntry(w, s, i)
    /\ \/ w.record[s][i].status # "consumed"
       \/ ~EntryNamesAdjustment(w, s, i)

ProtocolStateFailures(x) ==
    IF \/ x.witnessHash # x.witness
       \/ \E s \in Scenarios, i \in Ids :
             RecordViolates(x.witness, s, i) \/ OrphanConsumption(x.witness, s, i)
    THEN {"state-witness"} ELSE {}

\* validate_evidence_lifecycle: the maps are keyed by authorisation id alone,
\* and a later grant or revocation of the same id replaces an earlier one.
Positions(x, type, i) == {k \in DOMAIN x.events : x.events[k].type = type /\ x.events[k].id = i}
Latest(S) == CHOOSE k \in S : \A j \in S : j <= k

(* mutant: the order of grant and execution is not compared *)
LifecycleFailuresUnordered(x) ==
    IF \E i \in Ids :
          /\ Positions(x, "executed", i) # {}
          /\ \/ Positions(x, "granted", i) = {}
             \/ Cardinality(Positions(x, "executed", i)) > 1
    THEN {"lifecycle"} ELSE {}

LifecycleFailures(x) ==
    LET grants(i) == Positions(x, "granted", i)
        runs(i) == Positions(x, "executed", i)
        revokes(i) == Positions(x, "revoked", i)
        bad(i) == \/ grants(i) = {}
                  \/ Cardinality(runs(i)) > 1
                  \/ Latest(runs(i)) < Latest(grants(i))
                  \/ revokes(i) # {} /\ Latest(runs(i)) > Latest(revokes(i))
    IN IF \E i \in Ids : runs(i) # {} /\ bad(i) THEN {"lifecycle"} ELSE {}

\* A grant that no event executes is a warning.
LifecycleWarns(x) ==
    \E i \in Ids : Positions(x, "granted", i) # {} /\ Positions(x, "executed", i) = {}

\* validate_evidence_against_protocol_state: an event names an id, never a
\* scenario, so an id with records in two scenarios is ambiguous.
EventMismatches(w, e) ==
    LET matches == {s \in Scenarios : w.record[s][e.id].status # "none"}
    IN \/ Cardinality(matches) # 1
       \/ \E s \in matches :
            \/ e.type = "executed" /\ ~(w.record[s][e.id].status = "consumed" /\ HasEntry(w, s, e.id))
            \/ e.type = "revoked" /\ w.record[s][e.id].status # "revoked"

EvidenceStateFailures(x) ==
    IF \E k \in DOMAIN x.events : EventMismatches(x.witness, x.events[k])
    THEN {"evidence-state"} ELSE {}

\* validate_sew.validate_protocol_bundle.  A witness without any record is
\* read as a flat one, and the scenario-keyed adjustments then raise.
SewFailures(x) ==
    BundleRootFailures(x) \cup ProtocolStateFailures(x)
        \cup LifecycleFailures(x) \cup EvidenceStateFailures(x)

SewStatus(x) ==
    IF Granted(x.witness.record) = {} THEN "error"
    ELSE IF SewFailures(x) = {} THEN "pass" ELSE "fail"

\* The dispatcher: the validator is chosen by the declared protocol.  A
\* descriptor that is no map at all counts as absent.
Descriptors == {"absent", "not-a-map", "malformed", "unregistered", "sew"}

ValidateProtocolBundle(descriptor, x) ==
    CASE descriptor \in {"absent", "not-a-map", "unregistered"} -> "not-verified"
      [] descriptor = "malformed" -> "fail"
      [] descriptor = "sew" -> SewStatus(x)

------------------------------------------------------------------------------
(* References for the verdicts, in terms of what happened.                  *)

\* The evidence supports itself: each executed authorisation was granted
\* before, runs once, was consumed by one adjustment, and was not revoked.
SoundEvidence(x) ==
    \A k \in DOMAIN x.events :
        x.events[k].type = "executed" =>
            LET i == x.events[k].id
            IN /\ \E j \in 1..(k - 1) : x.events[j] = Event("granted", x.events[j].scenario, i)
               /\ \A j \in DOMAIN x.events :
                     x.events[j].id = i /\ x.events[j].type \in {"executed", "revoked"} => j = k
               /\ \E s \in Scenarios, c \in Claims :
                     /\ x.witness.record[s][i].status = "consumed"
                     /\ {a \in Scenarios \X Claims : <<a[1], i, a[2]>> \in x.witness.adjustments}
                            = {<<s, c>>}

\* The histories whose honest export the validator accepts.
AcceptedHistory ==
    /\ consumed # {}
    /\ \A s, t \in Scenarios, i \in Ids :
          record[s][i].status # "none" /\ record[t][i].status # "none" => s = t
    /\ \A k \in DOMAIN events :
          events[k].type = "executed" =>
              /\ events[k].id \notin RelatedIds
              /\ record[events[k].scenario][events[k].id].status = "consumed"
              /\ \A j \in DOMAIN events : events[j] = events[k] => j = k
==============================================================================
