------------------------- MODULE SewDispute_proofs -------------------------
(***************************************************************************)
(* Proofs about SewDispute for any set of workflows and resolvers, any      *)
(* escalation ladder and any setting of its windows and limits.             *)
(*                                                                         *)
(* A pending settlement exists only in a dispute that can still be          *)
(* escalated (PendingOpen): escalating clears it and raises the level, and  *)
(* on the last level a ruling settles at once.  That is why no ruling can   *)
(* replace, and settle past, one that is still in its appeal window.        *)
(* Custody holds what was not yet released of every open escrow             *)
(* (CustodyCovers), which is why the final payment completes the amount.    *)
(***************************************************************************)
EXTENDS SewDispute, FiniteSetTheorems, TLAPS

EscrowStates == {"none", "pending", "disputed", "released", "refunded"}
Statuses == {"none", "raise-dispute", "agree-to-cancel"}
SomeResolver == Resolvers \cup {None}

EscrowRecord ==
    [state : EscrowStates, senderStatus : Statuses, recipientStatus : Statuses,
     resolver : SomeResolver, custom : SomeResolver,
     rotation : SomeResolver \X SomeResolver,
     autoRelease : Nat, autoCancel : Nat, released : Nat,
     disputedAt : Nat, level : 0..MaxLevel, refused : BOOLEAN,
     ruling : {"none", "released", "refunded"}, rulings : Nat]

Decision == [isRelease : BOOLEAN, deadline : Nat]
Claims == [Parties -> Nat]

(* The types of what the proofs read. *)
SewTypeOK ==
    /\ now \in Nat
    /\ escrow \in [Workflows -> EscrowRecord]
    /\ pending \in [Workflows -> Decision]
    /\ held \in [Workflows -> Nat]
    /\ claimable \in [Workflows -> Claims]
    /\ withdrawn \in [Workflows -> Claims]
    /\ limit \in [Resolvers -> Nat] /\ active \in [Resolvers -> Nat]

Open(w) == escrow[w].state \in {"pending", "disputed"}
Paid(w, p) == claimable[w][p] + withdrawn[w][p]

PendingOpen(w) == HasPending(w) => Disputed(w) /\ ~FinalRound(w) /\ Window > 0

Assigned(w) == escrow[w].state # "none" => escrow[w].resolver \in Resolvers

CustodyCovers(w) ==
    Open(w) => escrow[w].released < Amount /\ held[w] = Amount - escrow[w].released

(* An escrow never owes and has never paid more than was released of it while
   it is open, and never more than its amount. *)
NeverOverpaid(w) ==
    LET total == Paid(w, Sender) + Paid(w, Recipient)
    IN  /\ escrow[w].state = "none" => total = 0
        /\ Open(w) => total <= escrow[w].released
        /\ total <= Amount

SewInv ==
    /\ SewTypeOK
    /\ \A w \in Workflows : PendingOpen(w) /\ Assigned(w) /\ CustodyCovers(w) /\ NeverOverpaid(w)

-----------------------------------------------------------------------------
(* The effects of the events on a workflow, of which there are eight: the   *)
(* proofs below go through these instead of the events.                     *)

Same(v) ==
    /\ escrow'[v] = escrow[v] /\ pending'[v] = pending[v] /\ held'[v] = held[v]
    /\ claimable'[v] = claimable[v] /\ withdrawn'[v] = withdrawn[v]

(* Archiving a ruling erases the principal claims of its workflow. *)
Kept(w, claims) == claims = claimable[w] \/ (HasPending(w) /\ claims = NoClaims)

Becomes(w, s) == escrow[w].state # s /\ escrow'[w].state = s
Stays(w) == escrow'[w].state = escrow[w].state
SameTerms(w) == escrow'[w].released = escrow[w].released /\ escrow'[w].resolver = escrow[w].resolver

Created(w) ==
    /\ escrow[w].state = "none" /\ Becomes(w, "pending")
    /\ escrow'[w].released = 0 /\ escrow'[w].resolver \in Resolvers
    /\ held'[w] = Amount
    /\ UNCHANGED <<pending, claimable, withdrawn, limit, active>>

Contested(w) ==
    /\ escrow[w].state = "pending" /\ Becomes(w, "disputed") /\ SameTerms(w)
    /\ active' = [active EXCEPT ![escrow[w].resolver] = @ + 1]
    /\ UNCHANGED <<pending, held, claimable, withdrawn, limit>>

(* When a dispute may be closed: what RefusalIsFinal and AppealWindowHonoured
   say of one workflow. *)
Justified(w, direction) ==
    Disputed(w) =>
        /\ escrow[w].refused =>
              direction = "refunded" /\ (Elapsed(w, MaxDuration) \/ AutoCancelDueOnDisputed(w))
        /\ HasPending(w) => Expired(pending[w].deadline)

Settled(w, direction) ==
    /\ Open(w) /\ Becomes(w, direction) /\ SameTerms(w) /\ Justified(w, direction)
    /\ pending'[w] = NoDecision
    /\ held'[w] = held[w] - Owed(w)
    /\ \E claims \in Claims :
          Kept(w, claims) /\ claimable'[w] = [claims EXCEPT ![Payee(direction)] = @ + Owed(w)]
    /\ active' = IF Disputed(w) THEN [active EXCEPT ![escrow[w].resolver] = Decrement(@)] ELSE active
    /\ UNCHANGED <<withdrawn, limit>>

ReleasedPart(w, a) ==
    /\ escrow[w].state = "pending" /\ a <= Owed(w)
    /\ escrow'[w].released = escrow[w].released + a
    /\ escrow'[w].resolver = escrow[w].resolver
    /\ escrow'[w].state = IF escrow'[w].released < Amount THEN "pending" ELSE "released"
    /\ held'[w] = held[w] - a
    /\ claimable'[w] = [claimable[w] EXCEPT ![Recipient] = @ + a]
    /\ UNCHANGED <<pending, withdrawn, limit, active>>

Withdrew(w, p) ==
    /\ claimable'[w] = [claimable[w] EXCEPT ![p] = 0]
    /\ withdrawn'[w] = [withdrawn[w] EXCEPT ![p] = @ + claimable[w][p]]
    /\ UNCHANGED <<escrow, pending, held, limit, active>>

Ruled(w) ==
    /\ Disputed(w) /\ Stays(w) /\ SameTerms(w) /\ escrow'[w].level = escrow[w].level
    /\ ~FinalRound(w) /\ Window > 0
    /\ Kept(w, claimable'[w])
    /\ UNCHANGED <<held, withdrawn, limit, active>>

(* An agreement to cancel or a refusal: only noted in the escrow. *)
Noted(w) ==
    /\ Open(w) /\ Stays(w) /\ SameTerms(w) /\ escrow'[w].level = escrow[w].level
    /\ UNCHANGED <<pending, held, claimable, withdrawn, limit, active>>

HandedOver(w, r) ==
    /\ Disputed(w) /\ Stays(w)
    /\ escrow'[w].released = escrow[w].released /\ escrow'[w].resolver = r
    /\ pending'[w].deadline = 0
    /\ Kept(w, claimable'[w])
    /\ MoveCapacity(escrow[w].resolver, r)
    /\ UNCHANGED <<held, withdrawn, limit>>

Effect(w) ==
    /\ \A v \in Workflows \ {w} : Same(v)
    /\ \/ Created(w) \/ Contested(w) \/ Ruled(w) \/ Noted(w)
       \/ \E direction \in TerminalStates : Settled(w, direction)
       \/ \E a \in PartialAmounts : ReleasedPart(w, a)
       \/ \E p \in Parties : Withdrew(w, p)
       \/ \E r \in Resolvers : HandedOver(w, r)

-----------------------------------------------------------------------------
(* Where no ruling is ever superseded, or nothing is released in part, the
   archiving of a ruling has no claim to erase. *)
NothingErased == PartialAmounts = {} \/ MaxLevel = 0 \/ Window = 0

(* What an open escrow has credited is what was released of it. *)
PaidInFull ==
    \A w \in Workflows :
        /\ PartialAmounts = {} => escrow[w].released = 0
        /\ Open(w) => Paid(w, Sender) = 0 /\ Paid(w, Recipient) = escrow[w].released

Load(r) == {w \in Workflows : Disputed(w) /\ escrow[w].resolver = r}

-----------------------------------------------------------------------------
(* Facts about the operators of the model. *)

(* Before any event there are no escrows, claims or disputes. *)
LEMMA InitInv == Init => SewInv
<1> SUFFICES ASSUME Init PROVE SewInv
    OBVIOUS
<1>1. SewTypeOK
    <2>1. BlankEscrow \in EscrowRecord
        BY SewAssumption DEF BlankEscrow, EscrowRecord, EscrowStates, Statuses, SomeResolver
    <2>2. NoDecision \in Decision /\ NoClaims \in Claims
        BY DEF NoDecision, Decision, NoClaims, Claims
    <2> QED BY <2>1, <2>2, SewAssumption DEF Init, SewTypeOK
<1>2. ASSUME NEW w \in Workflows
      PROVE  PendingOpen(w) /\ Assigned(w) /\ CustodyCovers(w) /\ NeverOverpaid(w)
    <2>1. escrow[w].state = "none" /\ pending[w].deadline = 0
        BY DEF Init, BlankEscrow, NoDecision
    <2>2. \A p \in Parties : Paid(w, p) = 0
        BY DEF Init, NoClaims, Paid
    <2> QED BY <2>1, <2>2, SewAssumption DEF PendingOpen, HasPending, Assigned, CustodyCovers, Open,
                                             NeverOverpaid, Parties
<1> QED BY <1>1, <1>2 DEF SewInv

(* finalize closes the record of an escrow and leaves its terms. *)
LEMMA ClosedRecord ==
    ASSUME NEW e \in EscrowRecord, NEW direction \in TerminalStates
    PROVE  /\ Closed(e, direction) \in EscrowRecord
           /\ Closed(e, direction).state = direction
           /\ Closed(e, direction).released = e.released
           /\ Closed(e, direction).resolver = e.resolver
BY DEF Closed, EscrowRecord, EscrowStates, Statuses, TerminalStates

(* The keeper's cond tries an entry only when its condition holds. *)
LEMMA PriorityHolds ==
    ASSUME NEW w, Priority(w) \in 1..5
    PROVE  TimedConditions(w)[Priority(w)]
<1> DEFINE S == {i \in 1..5 : TimedConditions(w)[i]} \cup {6}
<1>1. S \subseteq 1..6 /\ 6 \in S
    OBVIOUS
<1> HIDE DEF S
<1>2. \E i \in S : \A j \in S : i <= j
    <2>1. CASE 1 \in S
        BY <1>1, <2>1
    <2>2. CASE 1 \notin S /\ 2 \in S
        BY <1>1, <2>2
    <2>3. CASE 1 \notin S /\ 2 \notin S /\ 3 \in S
        BY <1>1, <2>3
    <2>4. CASE 1 \notin S /\ 2 \notin S /\ 3 \notin S /\ 4 \in S
        BY <1>1, <2>4
    <2>5. CASE 1 \notin S /\ 2 \notin S /\ 3 \notin S /\ 4 \notin S
        BY <1>1, <2>5
    <2> QED BY <2>1, <2>2, <2>3, <2>4, <2>5
<1>3. Min(S) \in S
    BY <1>2 DEF Min
<1>4. Priority(w) = Min(S)
    BY DEF Priority, S
<1> QED BY <1>3, <1>4 DEF S

-----------------------------------------------------------------------------
(* The effect of each event. *)

(* The entries of a workflow have their types. *)
LEMMA EntryTypes ==
    ASSUME SewInv, NEW w \in Workflows
    PROVE  /\ escrow[w] \in EscrowRecord /\ pending[w] \in Decision /\ held[w] \in Nat
           /\ claimable[w] \in Claims /\ withdrawn[w] \in Claims
BY DEF SewInv, SewTypeOK

(* A claim of a party that is raised or cleared leaves a table of claims. *)
LEMMA ClaimsUpdate ==
    ASSUME NEW c \in Claims, NEW p \in Parties, NEW n \in Nat
    PROVE  [c EXCEPT ![p] = n] \in Claims
BY DEF Claims

(* set-finalized-state and its accounting, in a pending escrow or a dispute. *)
LEMMA FinalizeEffect ==
    ASSUME SewInv, NEW w \in Workflows, NEW e \in EscrowRecord,
           NEW direction \in TerminalStates, NEW claims \in Claims,
           e.released = escrow[w].released, e.resolver = escrow[w].resolver,
           Open(w), Kept(w, claims), Justified(w, direction),
           Finalize(w, e, direction, claims),
           active' = IF Disputed(w) THEN [active EXCEPT ![escrow[w].resolver] = Decrement(@)]
                                    ELSE active,
           now' = now, limit' = limit
    PROVE  SewTypeOK' /\ Effect(w)
<1>1. Owed(w) \in Nat /\ held[w] = Owed(w) /\ escrow[w].resolver \in Resolvers
    <2>1. escrow[w].released \in Nat /\ held[w] \in Nat /\ Amount \in Nat
        BY SewAssumption DEF SewInv, SewTypeOK, EscrowRecord
    <2> QED BY <2>1 DEF SewInv, CustodyCovers, Assigned, Owed, Open
<1> DEFINE credited == [claims EXCEPT ![Payee(direction)] = @ + Owed(w)]
<1>2. Payee(direction) \in Parties
    BY DEF Payee, Parties
<1>3. credited \in Claims
    <2>1. claims[Payee(direction)] + Owed(w) \in Nat
        BY <1>1, <1>2 DEF Claims
    <2> QED BY <1>2, <2>1, ClaimsUpdate
<1>4. NoDecision \in Decision /\ held[w] - Owed(w) \in Nat
    BY <1>1 DEF NoDecision, Decision
<1>5. active' \in [Resolvers -> Nat]
    <2>1. \A n \in Nat : Decrement(n) \in Nat
        BY DEF Decrement
    <2> QED BY <1>1, <2>1 DEF SewInv, SewTypeOK
<1> DEFINE closed == Closed(e, direction)
<1>6. /\ closed \in EscrowRecord /\ closed.state = direction
      /\ closed.released = escrow[w].released /\ closed.resolver = escrow[w].resolver
    BY ClosedRecord
<1>7. /\ escrow' = [escrow EXCEPT ![w] = closed]
      /\ pending' = [pending EXCEPT ![w] = NoDecision]
      /\ held' = [held EXCEPT ![w] = held[w] - Owed(w)]
      /\ claimable' = [claimable EXCEPT ![w] = credited]
      /\ UNCHANGED withdrawn
    BY DEF Finalize
<1> HIDE DEF closed, credited
<1>8. /\ SewTypeOK' /\ \A v \in Workflows \ {w} : Same(v)
      /\ escrow'[w] = closed /\ pending'[w] = NoDecision /\ held'[w] = held[w] - Owed(w)
      /\ claimable'[w] = credited
    BY <1>3, <1>4, <1>5, <1>6, <1>7 DEF SewInv, SewTypeOK, Same
<1>9. Settled(w, direction)
    <2>1. Becomes(w, direction) /\ SameTerms(w)
        BY <1>6, <1>8 DEF Becomes, SameTerms, Open, TerminalStates
    <2>2. \E c \in Claims : /\ Kept(w, c)
                            /\ claimable'[w] = [c EXCEPT ![Payee(direction)] = @ + Owed(w)]
        BY <1>8 DEF credited
    <2> QED BY <1>7, <1>8, <2>1, <2>2 DEF Settled
<1> QED BY <1>8, <1>9 DEF Effect

(* create-escrow. *)
LEMMA CreateEffect ==
    ASSUME SewInv, NEW w \in Workflows, NEW custom \in CustomResolvers \cup {None},
           NEW auto \in AutoTimes, CreateEscrow(w, custom, auto)
    PROVE  SewTypeOK' /\ Effect(w)
<1> DEFINE resolver == IF custom # None THEN custom ELSE Ladder[0]
           e == [BlankEscrow EXCEPT !.state = "pending", !.custom = custom,
                    !.resolver = resolver, !.autoRelease = auto[1], !.autoCancel = auto[2]]
<1>1. resolver \in Resolvers /\ custom \in SomeResolver
    BY SewAssumption DEF SomeResolver
<1>2. auto[1] \in Nat /\ auto[2] \in Nat /\ Amount \in Nat
    BY SewAssumption
<1>3. /\ escrow[w].state = "none"
      /\ escrow' = [escrow EXCEPT ![w] = e]
      /\ held' = [held EXCEPT ![w] = Amount]
      /\ UNCHANGED <<now, pending, claimable, withdrawn, limit, active>>
    BY DEF CreateEscrow
<1> HIDE DEF resolver
<1>4. e \in EscrowRecord /\ e.state = "pending" /\ e.released = 0 /\ e.resolver = resolver
    <2>1. resolver \in SomeResolver /\ None \in SomeResolver /\ 0 \in 0..MaxLevel
        BY <1>1, SewAssumption DEF SomeResolver
    <2> QED BY <1>1, <1>2, <2>1 DEF BlankEscrow, EscrowRecord, EscrowStates, Statuses
<1> HIDE DEF e
<1>5. active' \in [Resolvers -> Nat]
    BY <1>3 DEF SewInv, SewTypeOK
<1>6. /\ SewTypeOK' /\ \A v \in Workflows \ {w} : Same(v)
      /\ escrow'[w] = e /\ held'[w] = Amount
    BY <1>2, <1>3, <1>4, <1>5 DEF SewInv, SewTypeOK, Same
<1>7. Created(w)
    BY <1>1, <1>3, <1>4, <1>6 DEF Created, Becomes
<1> QED BY <1>6, <1>7 DEF Effect

(* raise-dispute. *)
LEMMA RaiseDisputeEffect ==
    ASSUME SewInv, NEW w \in Workflows, NEW c \in Parties, RaiseDispute(w, c)
    PROVE  SewTypeOK' /\ Effect(w)
<1> DEFINE s == IF c = Sender THEN "raise-dispute" ELSE "none"
           r == IF c = Sender THEN "none" ELSE "raise-dispute"
           e == [escrow[w] EXCEPT !.state = "disputed", !.disputedAt = now,
                                  !.senderStatus = s, !.recipientStatus = r]
<1>1. /\ escrow[w].state = "pending"
      /\ escrow' = [escrow EXCEPT ![w] = e]
      /\ active' = [active EXCEPT ![escrow[w].resolver] = @ + 1]
      /\ UNCHANGED <<now, pending, held, claimable, withdrawn, limit>>
    BY DEF RaiseDispute
<1>2. s \in Statuses /\ r \in Statuses
    BY DEF Statuses
<1> HIDE DEF s, r
<1>3. /\ e \in EscrowRecord /\ e.state = "disputed"
      /\ e.released = escrow[w].released /\ e.resolver = escrow[w].resolver
    <2>1. escrow[w] \in EscrowRecord /\ now \in Nat
        BY DEF SewInv, SewTypeOK
    <2> QED BY <1>2, <2>1 DEF EscrowRecord, EscrowStates
<1> HIDE DEF e
<1>4. escrow[w].resolver \in Resolvers
    BY <1>1 DEF SewInv, Assigned
<1>5. active' \in [Resolvers -> Nat]
    BY <1>1, <1>4 DEF SewInv, SewTypeOK
<1>6. SewTypeOK' /\ (\A v \in Workflows \ {w} : Same(v)) /\ escrow'[w] = e
    BY <1>1, <1>3, <1>5 DEF SewInv, SewTypeOK, Same
<1>7. Contested(w)
    BY <1>1, <1>3, <1>6 DEF Contested, Becomes, SameTerms
<1> QED BY <1>6, <1>7 DEF Effect

(* release, an agreed or unilateral cancel, and the keeper's auto-release and
   auto-cancel: a pending escrow is settled. *)
LEMMA PendingSettledEffect ==
    ASSUME SewInv, NEW w \in Workflows, NEW direction \in TerminalStates,
           escrow[w].state = "pending",
           Finalize(w, escrow[w], direction, claimable[w]),
           UNCHANGED <<now, limit, active>>
    PROVE  SewTypeOK' /\ Effect(w)
<1>1. Open(w) /\ Kept(w, claimable[w]) /\ Justified(w, direction) /\ ~Disputed(w)
    BY DEF Open, Kept, Justified, Disputed
<1> QED BY <1>1, EntryTypes, FinalizeEffect

(* partial-release. *)
LEMMA PartialReleaseEffect ==
    ASSUME SewInv, NEW w \in Workflows, NEW a \in PartialAmounts, PartialRelease(w, a)
    PROVE  SewTypeOK' /\ Effect(w)
<1> DEFINE total == escrow[w].released + a
           part == [escrow[w] EXCEPT !.released = total]
           last == [part EXCEPT !.state = "released", !.senderStatus = "none", !.recipientStatus = "none"]
           e == IF part.released < Amount THEN part ELSE last
           paid == claimable[w][Recipient] + a
           credited == [claimable[w] EXCEPT ![Recipient] = paid]
<1>1. /\ escrow[w].state = "pending" /\ a <= Owed(w)
      /\ escrow' = [escrow EXCEPT ![w] = e]
      /\ held' = [held EXCEPT ![w] = held[w] - a]
      /\ claimable' = [claimable EXCEPT ![w] = credited]
      /\ UNCHANGED <<now, pending, withdrawn, limit, active>>
    BY DEF PartialRelease
<1>2. escrow[w] \in EscrowRecord /\ escrow[w].released \in Nat /\ claimable[w] \in Claims
    BY EntryTypes DEF EscrowRecord
<1>3. a \in Nat /\ Amount \in Nat /\ total \in Nat
    BY <1>2, SewAssumption
<1>4. held[w] - a \in Nat
    BY <1>1, <1>2, <1>3 DEF SewInv, CustodyCovers, Open, Owed
<1>5. credited \in Claims
    <2>1. paid \in Nat /\ Recipient \in Parties
        BY <1>2, <1>3 DEF Claims, Parties
    <2> HIDE DEF paid
    <2> QED BY <1>2, <2>1, ClaimsUpdate
<1> HIDE DEF total
<1>6. /\ part \in EscrowRecord /\ part.state = "pending"
      /\ part.released = total /\ part.resolver = escrow[w].resolver
    BY <1>1, <1>2, <1>3 DEF EscrowRecord
<1> HIDE DEF part
<1>7. /\ last \in EscrowRecord /\ last.state = "released"
      /\ last.released = total /\ last.resolver = escrow[w].resolver
    BY <1>6 DEF EscrowRecord, EscrowStates, Statuses
<1> HIDE DEF last
<1>8. /\ e \in EscrowRecord /\ e.released = total /\ e.resolver = escrow[w].resolver
      /\ e.state = IF total < Amount THEN "pending" ELSE "released"
    BY <1>6, <1>7
<1> HIDE DEF e, credited
<1>9. /\ SewTypeOK' /\ \A v \in Workflows \ {w} : Same(v)
      /\ escrow'[w] = e /\ held'[w] = held[w] - a /\ claimable'[w] = credited
    BY <1>1, <1>4, <1>5, <1>8 DEF SewInv, SewTypeOK, Same
<1>10. ReleasedPart(w, a)
    BY <1>1, <1>8, <1>9 DEF ReleasedPart, credited, total
<1> QED BY <1>9, <1>10 DEF Effect

(* A change to the record of an open escrow that leaves its state and its
   terms: a party's agreement to cancel, or a resolver's refusal. *)
LEMMA NotedEffect ==
    ASSUME SewInv, NEW w \in Workflows, NEW e \in EscrowRecord, Open(w),
           e.state = escrow[w].state, e.released = escrow[w].released,
           e.resolver = escrow[w].resolver, e.level = escrow[w].level,
           escrow' = [escrow EXCEPT ![w] = e],
           UNCHANGED <<now, pending, held, claimable, withdrawn, limit, active>>
    PROVE  SewTypeOK' /\ Effect(w)
<1>1. SewTypeOK' /\ (\A v \in Workflows \ {w} : Same(v)) /\ escrow'[w] = e
    BY DEF SewInv, SewTypeOK, Same
<1>2. Noted(w)
    BY <1>1 DEF Noted, Stays, SameTerms
<1> QED BY <1>1, <1>2 DEF Effect

(* sender-cancel and recipient-cancel. *)
LEMMA CancelEffect ==
    ASSUME SewInv, NEW w \in Workflows, NEW c \in Parties, Cancel(w, c)
    PROVE  SewTypeOK' /\ Effect(w)
<1>1. /\ escrow[w].state = "pending" /\ Open(w)
      /\ UNCHANGED <<now, limit, active>>
    BY DEF Cancel, Open
<1>2. CASE Finalize(w, escrow[w], "refunded", claimable[w])
    BY <1>1, <1>2, PendingSettledEffect DEF TerminalStates
<1>3. CASE /\ escrow' = [escrow EXCEPT ![w] = Agreed(escrow[w], c)]
           /\ UNCHANGED <<pending, held, claimable, withdrawn>>
    <2> DEFINE e == Agreed(escrow[w], c)
    <2>1. escrow[w] \in EscrowRecord
        BY EntryTypes
    <2>2. /\ e \in EscrowRecord /\ e.state = escrow[w].state /\ e.released = escrow[w].released
          /\ e.resolver = escrow[w].resolver /\ e.level = escrow[w].level
        BY <2>1 DEF Agreed, EscrowRecord, Statuses
    <2> HIDE DEF e
    <2>3. escrow' = [escrow EXCEPT ![w] = e]
        BY <1>3 DEF e
    <2> QED BY <1>1, <1>3, <2>2, <2>3, NotedEffect
<1> QED BY <1>2, <1>3 DEF Cancel

(* withdraw-escrow. *)
LEMMA WithdrawEffect ==
    ASSUME SewInv, NEW w \in Workflows, NEW p \in Parties, WithdrawEscrow(w, p)
    PROVE  SewTypeOK' /\ Effect(w)
<1> DEFINE cleared == [claimable[w] EXCEPT ![p] = 0]
           taken == [withdrawn[w] EXCEPT ![p] = @ + claimable[w][p]]
<1>1. /\ claimable' = [claimable EXCEPT ![w] = cleared]
      /\ withdrawn' = [withdrawn EXCEPT ![w] = taken]
      /\ UNCHANGED <<now, escrow, pending, held, limit, active>>
    BY DEF WithdrawEscrow
<1>2. cleared \in Claims /\ taken \in Claims
    <2>1. claimable[w] \in Claims /\ withdrawn[w] \in Claims
        BY EntryTypes
    <2>2. withdrawn[w][p] + claimable[w][p] \in Nat
        BY <2>1 DEF Claims
    <2> QED BY <2>1, <2>2, ClaimsUpdate
<1> HIDE DEF cleared, taken
<1>3. /\ SewTypeOK' /\ \A v \in Workflows \ {w} : Same(v)
      /\ claimable'[w] = cleared /\ withdrawn'[w] = taken
    BY <1>1, <1>2 DEF SewInv, SewTypeOK, Same
<1>4. Withdrew(w, p)
    BY <1>1, <1>3 DEF Withdrew, cleared, taken
<1> QED BY <1>3, <1>4 DEF Effect

(* execute-resolution-refused. *)
LEMMA RefusedEffect ==
    ASSUME SewInv, NEW w \in Workflows, NEW c \in Resolvers, ExecuteResolutionRefused(w, c)
    PROVE  SewTypeOK' /\ Effect(w)
<1> DEFINE e == [escrow[w] EXCEPT !.refused = TRUE]
<1>1. /\ Open(w) /\ escrow' = [escrow EXCEPT ![w] = e]
      /\ UNCHANGED <<now, pending, held, claimable, withdrawn, limit, active>>
    BY DEF ExecuteResolutionRefused, Disputed, Open
<1>2. escrow[w] \in EscrowRecord
    BY EntryTypes
<1>3. /\ e \in EscrowRecord /\ e.state = escrow[w].state /\ e.released = escrow[w].released
      /\ e.resolver = escrow[w].resolver /\ e.level = escrow[w].level
    BY <1>2 DEF EscrowRecord
<1> HIDE DEF e
<1> QED BY <1>1, <1>3, NotedEffect

(* execute-resolution: on the last level, or without an appeal window, the
   ruling settles at once; before that it becomes the pending settlement.
   On the last level there is no pending settlement to pass over. *)
LEMMA ExecuteResolutionEffect ==
    ASSUME SewInv, NEW w \in Workflows, NEW c \in Resolvers, NEW isRelease \in BOOLEAN,
           ExecuteResolution(w, c, isRelease)
    PROVE  SewTypeOK' /\ Effect(w)
<1> DEFINE d == Direction(isRelease)
           n == escrow[w].rulings + 1
           e == [escrow[w] EXCEPT !.ruling = d, !.rulings = n]
           claims == IF HasPending(w) THEN NoClaims ELSE claimable[w]
<1>1. /\ Disputed(w) /\ Open(w) /\ ~escrow[w].refused
      /\ UNCHANGED <<now, limit>>
    BY DEF ExecuteResolution, Disputed, Open
<1>2. escrow[w] \in EscrowRecord /\ claimable[w] \in Claims /\ escrow[w].rulings \in Nat
    BY EntryTypes DEF EscrowRecord
<1>3. d \in TerminalStates
    BY DEF Direction, TerminalStates
<1>4. /\ e \in EscrowRecord /\ e.state = escrow[w].state /\ e.released = escrow[w].released
      /\ e.resolver = escrow[w].resolver /\ e.level = escrow[w].level
    <2>1. n \in Nat
        BY <1>2
    <2> HIDE DEF d, n
    <2> QED BY <1>2, <1>3, <2>1 DEF EscrowRecord, TerminalStates
<1>5. claims \in Claims /\ Kept(w, claims)
    BY <1>2 DEF Kept, NoClaims, Claims
<1>6. CASE /\ FinalRound(w) \/ Window = 0
           /\ Finalize(w, e, d, claims)
           /\ FreeCapacity(escrow[w].resolver)
    <2>1. ~HasPending(w)
        BY <1>6 DEF SewInv, PendingOpen
    <2>2. Justified(w, d)
        BY <1>1, <2>1 DEF Justified
    <2>3. active' = IF Disputed(w) THEN [active EXCEPT ![escrow[w].resolver] = Decrement(@)]
                                   ELSE active
        BY <1>1, <1>6 DEF FreeCapacity
    <2> HIDE DEF d, e, claims
    <2> QED BY <1>1, <1>3, <1>4, <1>5, <1>6, <2>2, <2>3, FinalizeEffect
<1>7. CASE /\ ~FinalRound(w) /\ Window > 0
           /\ escrow' = [escrow EXCEPT ![w] = e]
           /\ pending' = [pending EXCEPT ![w] = [isRelease |-> isRelease, deadline |-> now + Window]]
           /\ claimable' = [claimable EXCEPT ![w] = claims]
           /\ UNCHANGED <<held, withdrawn, active>>
    <2> DEFINE decision == [isRelease |-> isRelease, deadline |-> now + Window]
    <2>1. decision \in Decision
        BY SewAssumption DEF Decision, SewInv, SewTypeOK
    <2>2. pending' = [pending EXCEPT ![w] = decision]
        BY <1>7
    <2> HIDE DEF d, e, claims, decision
    <2>3. /\ SewTypeOK' /\ \A v \in Workflows \ {w} : Same(v)
          /\ escrow'[w] = e /\ claimable'[w] = claims
        BY <1>1, <1>4, <1>5, <1>7, <2>1, <2>2 DEF SewInv, SewTypeOK, Same
    <2>4. Ruled(w)
        BY <1>1, <1>4, <1>5, <1>7, <2>3 DEF Ruled, Stays, SameTerms
    <2> QED BY <2>3, <2>4 DEF Effect
<1> QED BY <1>6, <1>7 DEF ExecuteResolution

(* The settlement of a dispute that leaves its record as it is. *)
LEMMA DisputeSettledEffect ==
    ASSUME SewInv, NEW w \in Workflows, NEW direction \in TerminalStates, Disputed(w),
           Justified(w, direction),
           Finalize(w, escrow[w], direction, claimable[w]),
           FreeCapacity(escrow[w].resolver), UNCHANGED <<now, limit>>
    PROVE  SewTypeOK' /\ Effect(w)
<1>1. Open(w) /\ Kept(w, claimable[w])
    BY DEF Open, Kept, Disputed
<1>2. active' = IF Disputed(w) THEN [active EXCEPT ![escrow[w].resolver] = Decrement(@)]
                               ELSE active
    BY DEF FreeCapacity
<1> QED BY <1>1, <1>2, EntryTypes, FinalizeEffect

(* execute-pending-settlement, of the active ruling once its window is over or
   of a superseded one when there is no active one. *)
LEMMA ExecutePendingEffect ==
    ASSUME SewInv, NEW w \in Workflows, ExecutePendingSettlement(w)
    PROVE  SewTypeOK' /\ Effect(w)
<1> DEFINE d == Direction(Executable(w).isRelease)
<1>1. d \in TerminalStates
    BY DEF Direction, TerminalStates
<1>2. Disputed(w) /\ Justified(w, d)
    <2>1. Disputed(w) /\ Expired(Executable(w).deadline) /\ ~escrow[w].refused
        BY DEF ExecutePendingSettlement, PendingSettlementExecutable
    <2> QED BY <2>1 DEF Justified, Executable
<1>3. /\ Finalize(w, escrow[w], d, claimable[w])
      /\ FreeCapacity(escrow[w].resolver) /\ UNCHANGED <<now, limit>>
    BY DEF ExecutePendingSettlement
<1> HIDE DEF d
<1> QED BY <1>1, <1>2, <1>3, DisputeSettledEffect

(* cancel-disputed-escrow-now, called when there is no ruling to wait for. *)
LEMMA CancelDisputedEffect ==
    ASSUME SewInv, NEW w \in Workflows, CancelDisputedNow(w),
           DisputeTimeoutExceeded(w) \/ AutoCancelDueOnDisputed(w)
    PROVE  SewTypeOK' /\ Effect(w)
<1>1. Disputed(w) /\ Justified(w, "refunded")
    BY DEF DisputeTimeoutExceeded, AutoCancelDueOnDisputed, Elapsed, Justified
<1>2. /\ Finalize(w, escrow[w], "refunded", claimable[w])
      /\ FreeCapacity(escrow[w].resolver) /\ UNCHANGED <<now, limit>>
    BY DEF CancelDisputedNow
<1> QED BY <1>1, <1>2, DisputeSettledEffect DEF TerminalStates

(* A dispute passes to another resolver and its pending settlement, if it has
   one, is archived. *)
LEMMA HandedOverEffect ==
    ASSUME SewInv, NEW w \in Workflows, NEW r \in Resolvers, NEW e \in EscrowRecord,
           NEW d \in Decision, NEW claims \in Claims,
           Disputed(w), e.state = escrow[w].state, e.released = escrow[w].released,
           e.resolver = r, d.deadline = 0, Kept(w, claims),
           escrow' = [escrow EXCEPT ![w] = e],
           pending' = [pending EXCEPT ![w] = d],
           claimable' = [claimable EXCEPT ![w] = claims],
           MoveCapacity(escrow[w].resolver, r),
           UNCHANGED <<now, held, withdrawn, limit>>
    PROVE  SewTypeOK' /\ Effect(w)
<1>1. active' \in [Resolvers -> Nat]
    <2>1. \A n \in Nat : Decrement(n) \in Nat
        BY DEF Decrement
    <2>2. escrow[w].resolver \in Resolvers
        BY DEF SewInv, Assigned, Disputed
    <2>3. [active EXCEPT ![escrow[w].resolver] = Decrement(@)] \in [Resolvers -> Nat]
        BY <2>1, <2>2 DEF SewInv, SewTypeOK
    <2> QED BY <2>3 DEF MoveCapacity
<1>2. /\ SewTypeOK' /\ \A v \in Workflows \ {w} : Same(v)
      /\ escrow'[w] = e /\ pending'[w] = d /\ claimable'[w] = claims
    BY <1>1 DEF SewInv, SewTypeOK, Same
<1>3. HandedOver(w, r)
    BY <1>2 DEF HandedOver, Stays
<1> QED BY <1>2, <1>3 DEF Effect

(* escalate-dispute and challenge-resolution. *)
LEMMA EscalateEffect ==
    ASSUME SewInv, NEW w \in Workflows, NEW c, Escalate(w, c)
    PROVE  SewTypeOK' /\ Effect(w)
<1> DEFINE level == escrow[w].level
           r == Ladder[level + 1]
           e == [escrow[w] EXCEPT !.level = level + 1, !.resolver = r]
<1>1. /\ Disputed(w) /\ ~FinalRound(w) /\ HasPending(w)
      /\ escrow' = [escrow EXCEPT ![w] = e]
      /\ pending' = [pending EXCEPT ![w] = NoDecision]
      /\ claimable' = [claimable EXCEPT ![w] = NoClaims]
      /\ MoveCapacity(escrow[w].resolver, r)
      /\ UNCHANGED <<now, held, withdrawn, limit>>
    BY DEF Escalate
<1>2. escrow[w] \in EscrowRecord /\ level \in 0..MaxLevel
    BY EntryTypes DEF EscrowRecord
<1>3. level + 1 \in 0..MaxLevel
    BY <1>1, <1>2, SewAssumption, SMTT(30) DEF FinalRound
<1>4. r \in Resolvers
    BY <1>3, SewAssumption
<1> HIDE DEF r, level
<1>5. /\ e \in EscrowRecord /\ e.state = escrow[w].state
      /\ e.released = escrow[w].released /\ e.resolver = r
    BY <1>2, <1>3, <1>4 DEF EscrowRecord, SomeResolver
<1> HIDE DEF e
<1>6. NoDecision \in Decision /\ NoDecision.deadline = 0 /\ NoClaims \in Claims
    BY DEF NoDecision, Decision, NoClaims, Claims
<1>7. Kept(w, NoClaims)
    BY <1>1 DEF Kept
<1> QED BY <1>1, <1>4, <1>5, <1>6, <1>7, HandedOverEffect

(* rotate-dispute-resolver. *)
LEMMA RotateEffect ==
    ASSUME SewInv, NEW w \in Workflows, NEW r \in Resolvers, RotateDisputeResolver(w, r)
    PROVE  SewTypeOK' /\ Effect(w)
<1> DEFINE pair == <<escrow[w].resolver, r>>
           e == [escrow[w] EXCEPT !.resolver = r, !.custom = None, !.rotation = pair]
<1>1. /\ Disputed(w) /\ ~HasPending(w)
      /\ escrow' = [escrow EXCEPT ![w] = e]
      /\ MoveCapacity(escrow[w].resolver, r)
      /\ UNCHANGED <<now, pending, held, claimable, withdrawn, limit>>
    BY DEF RotateDisputeResolver
<1>2. /\ escrow[w] \in EscrowRecord /\ pending[w] \in Decision /\ claimable[w] \in Claims
      /\ pending' = [pending EXCEPT ![w] = pending[w]]
      /\ claimable' = [claimable EXCEPT ![w] = claimable[w]]
    BY <1>1 DEF SewInv, SewTypeOK
<1>3. pair \in SomeResolver \X SomeResolver
    BY <1>2 DEF EscrowRecord, SomeResolver
<1> HIDE DEF pair
<1>4. /\ e \in EscrowRecord /\ e.state = escrow[w].state
      /\ e.released = escrow[w].released /\ e.resolver = r
    BY <1>2, <1>3 DEF EscrowRecord, SomeResolver
<1> HIDE DEF e
<1>5. pending[w].deadline = 0 /\ Kept(w, claimable[w])
    BY <1>1, <1>2 DEF HasPending, Decision, Kept
<1> QED BY <1>1, <1>2, <1>4, <1>5, HandedOverEffect

(* automate-timed-actions: whatever the keeper does is one of the settlements
   above, taken when its condition holds. *)
LEMMA KeeperEffect ==
    ASSUME SewInv, NEW w \in Workflows, AutomateTimedActions(w)
    PROVE  SewTypeOK' /\ Effect(w)
<1>1. CASE ExecutePendingSettlement(w)
    BY <1>1, ExecutePendingEffect
<1>2. CASE Priority(w) = 2 /\ CancelDisputedNow(w)
    <2>1. TimedConditions(w)[2]
        BY <1>2, PriorityHolds
    <2>2. AutoCancelDueOnDisputed(w)
        BY <2>1 DEF TimedConditions
    <2> QED BY <1>2, <2>2, CancelDisputedEffect
<1>3. CASE AutoCancelDisputed(w)
    BY <1>3, CancelDisputedEffect DEF AutoCancelDisputed
<1>4. CASE /\ Priority(w) = 4 /\ Finalize(w, escrow[w], "released", claimable[w])
           /\ UNCHANGED <<now, superseded, stake, limit, active, lastEscalation>>
    <2>1. TimedConditions(w)[4]
        BY <1>4, PriorityHolds
    <2>2. escrow[w].state = "pending"
        BY <2>1 DEF TimedConditions, AutoReleaseDue
    <2> QED BY <1>4, <2>2, PendingSettledEffect DEF TerminalStates
<1>5. CASE /\ Priority(w) = 5 /\ Finalize(w, escrow[w], "refunded", claimable[w])
           /\ UNCHANGED <<now, superseded, stake, limit, active, lastEscalation>>
    <2>1. TimedConditions(w)[5]
        BY <1>5, PriorityHolds
    <2>2. escrow[w].state = "pending"
        BY <2>1 DEF TimedConditions, AutoCancelDue
    <2> QED BY <1>5, <2>2, PendingSettledEffect DEF TerminalStates
<1> QED BY <1>1, <1>2, <1>3, <1>4, <1>5 DEF AutomateTimedActions

(* The clock, or set-resolver-capacity. *)
Untouched ==
    /\ UNCHANGED <<escrow, pending, held, claimable, withdrawn>>
    /\ \/ UNCHANGED <<limit, active>>
       \/ \E r \in Resolvers, n \in CapacityChoices :
             limit' = [limit EXCEPT ![r] = n] /\ active' = [active EXCEPT ![r] = 0]

(* Every event keeps the types and either touches no escrow or has one of the
   eight effects on one. *)
LEMMA StepEffect ==
    ASSUME SewInv, [Next]_vars
    PROVE  SewTypeOK' /\ (Untouched \/ \E w \in Workflows : Effect(w))
<1>1. CASE Tick
    BY <1>1 DEF Tick, SewInv, SewTypeOK, Untouched
<1>2. CASE \E r \in Resolvers, n \in CapacityChoices : SetResolverCapacity(r, n)
    <2>1. PICK r \in Resolvers, n \in CapacityChoices : SetResolverCapacity(r, n)
        BY <1>2
    <2>2. n \in Nat
        BY SewAssumption
    <2>3. SewTypeOK'
        BY <2>1, <2>2 DEF SetResolverCapacity, SewInv, SewTypeOK
    <2> QED BY <2>1, <2>3 DEF SetResolverCapacity, Untouched
<1>3. CASE UNCHANGED vars
    BY <1>3 DEF vars, SewInv, SewTypeOK, Untouched
<1>4. ASSUME NEW w \in Workflows, NEW custom \in CustomResolvers \cup {None},
             NEW auto \in AutoTimes, CreateEscrow(w, custom, auto)
      PROVE  SewTypeOK' /\ Effect(w)
    BY <1>4, CreateEffect
<1>5. ASSUME NEW w \in Workflows, NEW c \in Parties,
             RaiseDispute(w, c) \/ Cancel(w, c) \/ WithdrawEscrow(w, c) \/ EscalateDispute(w, c)
      PROVE  SewTypeOK' /\ Effect(w)
    BY <1>5, RaiseDisputeEffect, CancelEffect, WithdrawEffect, EscalateEffect DEF EscalateDispute
<1>6. ASSUME NEW w \in Workflows, Release(w)
      PROVE  SewTypeOK' /\ Effect(w)
    BY <1>6, PendingSettledEffect DEF Release, TerminalStates
<1>7. ASSUME NEW w \in Workflows, NEW a \in PartialAmounts, PartialRelease(w, a)
      PROVE  SewTypeOK' /\ Effect(w)
    BY <1>7, PartialReleaseEffect
<1>8. ASSUME NEW w \in Workflows, NEW c \in Resolvers, NEW isRelease \in BOOLEAN,
             ExecuteResolution(w, c, isRelease)
      PROVE  SewTypeOK' /\ Effect(w)
    BY <1>8, ExecuteResolutionEffect
<1>9. ASSUME NEW w \in Workflows, NEW c \in Resolvers,
             ExecuteResolutionRefused(w, c) \/ RotateDisputeResolver(w, c)
      PROVE  SewTypeOK' /\ Effect(w)
    BY <1>9, RefusedEffect, RotateEffect
<1>10. ASSUME NEW w \in Workflows,
              \/ ExecutePendingSettlement(w) \/ AutoCancelDisputed(w) \/ AutomateTimedActions(w)
              \/ \E c \in Callers : ChallengeResolution(w, c)
      PROVE  SewTypeOK' /\ Effect(w)
    BY <1>10, ExecutePendingEffect, CancelDisputedEffect, KeeperEffect, EscalateEffect
       DEF AutoCancelDisputed, ChallengeResolution
<1> QED BY <1>1, <1>2, <1>3, <1>4, <1>5, <1>6, <1>7, <1>8, <1>9, <1>10 DEF Next

-----------------------------------------------------------------------------
(* The invariant. *)

WorkflowInv(w) == PendingOpen(w) /\ Assigned(w) /\ CustodyCovers(w) /\ NeverOverpaid(w)

(* An escrow that a step does not touch keeps its invariant. *)
LEMMA SameKeeps ==
    ASSUME NEW v \in Workflows, WorkflowInv(v), Same(v)
    PROVE  WorkflowInv(v)'
BY DEF WorkflowInv, Same, PendingOpen, HasPending, Disputed, FinalRound, Assigned,
       CustodyCovers, NeverOverpaid, Open, Paid

(* The claims left by an event that keeps or erases them. *)
LEMMA KeptClaims ==
    ASSUME SewTypeOK, NEW w \in Workflows, NEW claims, Kept(w, claims)
    PROVE  claims \in Claims /\ \A p \in Parties : claims[p] <= claimable[w][p]
<1>1. claimable[w] \in Claims
    BY DEF SewTypeOK
<1>2. NoClaims \in Claims /\ \A p \in Parties : NoClaims[p] = 0
    BY DEF NoClaims, Claims
<1> QED BY <1>1, <1>2 DEF Kept, Claims

(* Every effect on an escrow keeps its invariant: in particular a ruling that
   becomes pending is not on the last level, and what a settlement or a part
   adds to the claims leaves custody. *)
LEMMA EffectKeeps ==
    ASSUME SewInv, SewTypeOK', NEW w \in Workflows, Effect(w)
    PROVE  WorkflowInv(w)'
<1>1. WorkflowInv(w) /\ SewTypeOK
    BY DEF SewInv, WorkflowInv
<1>2. /\ escrow[w].released \in Nat /\ escrow'[w].released \in Nat /\ Amount \in Nat \ {0}
      /\ held[w] \in Nat
    BY <1>1, SewAssumption DEF SewTypeOK, EscrowRecord
<1>3. /\ \A p \in Parties : /\ claimable[w][p] \in Nat /\ withdrawn[w][p] \in Nat
                            /\ claimable'[w][p] \in Nat /\ withdrawn'[w][p] \in Nat
      /\ Sender \in Parties /\ Recipient \in Parties /\ Sender # Recipient
    BY <1>1, SewAssumption, SMTT(30) DEF SewTypeOK, Claims, Parties
<1>4. pending[w].deadline \in Nat
    BY <1>1 DEF SewTypeOK, Decision
<1> USE DEF WorkflowInv, PendingOpen, Assigned, CustodyCovers, NeverOverpaid, Open, Paid,
            HasPending, Disputed, FinalRound
<1>5. CASE Created(w)
    BY <1>1, <1>2, <1>3, <1>5 DEF Created, Becomes
<1>6. CASE Contested(w)
    BY <1>1, <1>2, <1>3, <1>6 DEF Contested, Becomes, SameTerms
<1>7. CASE Ruled(w)
    <2>1. \A p \in Parties : claimable'[w][p] <= claimable[w][p]
        BY <1>1, <1>7, KeptClaims DEF Ruled
    <2>2. PendingOpen(w)' /\ Assigned(w)' /\ CustodyCovers(w)'
        BY <1>1, <1>2, <1>7 DEF Ruled, Stays, SameTerms
    <2>3. NeverOverpaid(w)'
        BY <1>1, <1>2, <1>3, <1>7, <2>1 DEF Ruled, Stays, SameTerms
    <2> QED BY <2>2, <2>3
<1>8. CASE Noted(w)
    BY <1>1, <1>2, <1>3, <1>8 DEF Noted, Stays, SameTerms
<1>9. ASSUME NEW direction \in TerminalStates, Settled(w, direction)
      PROVE  WorkflowInv(w)'
    <2>1. PICK claims \in Claims :
              Kept(w, claims) /\ claimable'[w] = [claims EXCEPT ![Payee(direction)] = @ + Owed(w)]
        BY <1>9 DEF Settled
    <2>2. \A p \in Parties : claims[p] \in Nat /\ claims[p] <= claimable[w][p]
        BY <1>1, <2>1, KeptClaims DEF Claims
    <2>3. escrow'[w].state \in TerminalStates /\ pending'[w].deadline = 0
        BY <1>9 DEF Settled, Becomes, NoDecision
    <2>4. PendingOpen(w)' /\ Assigned(w)' /\ CustodyCovers(w)'
        BY <1>1, <1>9, <2>3 DEF Settled, SameTerms, TerminalStates
    <2>5. NeverOverpaid(w)'
        <3>1. claimable'[w][Sender] + claimable'[w][Recipient]
                  = claims[Sender] + claims[Recipient] + Owed(w)
            <4>1. CASE direction = "released"
                BY <1>2, <1>3, <2>1, <2>2, <4>1 DEF Payee, Claims, Owed
            <4>2. CASE direction = "refunded"
                BY <1>2, <1>3, <2>1, <2>2, <4>2 DEF Payee, Claims, Owed
            <4> QED BY <4>1, <4>2 DEF TerminalStates
        <3>2. claimable[w][Sender] + withdrawn[w][Sender]
                + (claimable[w][Recipient] + withdrawn[w][Recipient]) <= escrow[w].released
            BY <1>1, <1>9 DEF Settled
        <3>3. claimable'[w][Sender] + withdrawn'[w][Sender]
                + (claimable'[w][Recipient] + withdrawn'[w][Recipient]) <= Amount
            BY <1>2, <1>3, <1>9, <2>2, <3>1, <3>2 DEF Settled, Owed
        <3> QED BY <2>3, <3>3 DEF TerminalStates
    <2> QED BY <2>4, <2>5
<1>10. ASSUME NEW a \in PartialAmounts, ReleasedPart(w, a)
       PROVE  WorkflowInv(w)'
    <2>1. a \in Nat \ {0} /\ a <= Amount - escrow[w].released
        BY <1>10, SewAssumption DEF ReleasedPart, Owed
    <2>2. claimable'[w][Recipient] = claimable[w][Recipient] + a
          /\ claimable'[w][Sender] = claimable[w][Sender]
        BY <1>1, <1>3, <1>10 DEF ReleasedPart, SewTypeOK, Claims
    <2>3. PendingOpen(w)' /\ Assigned(w)'
        BY <1>1, <1>10 DEF ReleasedPart
    <2>4. CustodyCovers(w)' /\ NeverOverpaid(w)'
        BY <1>1, <1>2, <1>3, <1>10, <2>1, <2>2 DEF ReleasedPart
    <2> QED BY <2>3, <2>4
<1>11. ASSUME NEW p \in Parties, Withdrew(w, p)
       PROVE  WorkflowInv(w)'
    <2>1. \A q \in Parties : Paid(w, q)' = Paid(w, q)
        BY <1>1, <1>3, <1>11 DEF Withdrew, SewTypeOK, Claims
    <2>2. PendingOpen(w)' /\ Assigned(w)' /\ CustodyCovers(w)'
        BY <1>1, <1>11 DEF Withdrew
    <2>3. NeverOverpaid(w)'
        BY <1>1, <1>3, <1>11, <2>1 DEF Withdrew
    <2> QED BY <2>2, <2>3
<1>12. ASSUME NEW r \in Resolvers, HandedOver(w, r)
       PROVE  WorkflowInv(w)'
    <2>1. \A p \in Parties : claimable'[w][p] <= claimable[w][p]
        BY <1>1, <1>12, KeptClaims DEF HandedOver
    <2>2. PendingOpen(w)' /\ Assigned(w)' /\ CustodyCovers(w)'
        BY <1>1, <1>2, <1>12 DEF HandedOver, Stays
    <2>3. NeverOverpaid(w)'
        BY <1>1, <1>2, <1>3, <1>12, <2>1 DEF HandedOver, Stays
    <2> QED BY <2>2, <2>3
<1> QED BY <1>5, <1>6, <1>7, <1>8, <1>9, <1>10, <1>11, <1>12 DEF Effect

(* One step keeps the invariant of every escrow. *)
LEMMA NextInv ==
    ASSUME SewInv, [Next]_vars
    PROVE  SewInv'
<1>1. SewTypeOK'
    BY StepEffect
<1>2. ASSUME NEW v \in Workflows PROVE WorkflowInv(v)'
    <2>1. WorkflowInv(v)
        BY DEF SewInv, WorkflowInv
    <2>2. CASE Untouched
        <3>1. Same(v)
            BY <2>2 DEF Untouched, Same
        <3> QED BY <2>1, <3>1, SameKeeps
    <2>3. ASSUME NEW w \in Workflows, Effect(w) PROVE WorkflowInv(v)'
        <3>1. CASE v = w
            BY <1>1, <2>3, <3>1, EffectKeeps
        <3>2. CASE v # w
            <4>1. Same(v)
                BY <2>3, <3>2 DEF Effect
            <4> QED BY <2>1, <4>1, SameKeeps
        <3> QED BY <3>1, <3>2
    <2> QED BY <2>2, <2>3, StepEffect
<1> QED BY <1>1, <1>2 DEF SewInv, WorkflowInv

(* SewInv holds whatever parties, resolvers and keeper do, for any number of
   escrows and any setting of the protocol. *)
THEOREM SewInvariant == Spec => []SewInv
<1>1. SewInv /\ [Next]_vars => SewInv'
    BY NextInv
<1> QED BY <1>1, InitInv, PTL DEF Spec

(* Claims and withdrawals of an escrow never add up to more than its amount,
   even where archived rulings erase claims. *)
THEOREM NoOverpayment == Spec => [](\A w \in Workflows : NeverOverpaid(w))
<1>1. SewInv => \A w \in Workflows : NeverOverpaid(w)
    BY DEF SewInv
<1> QED BY <1>1, SewInvariant, PTL

-----------------------------------------------------------------------------
(* The two rules about closing a dispute. *)

(* Whatever closes a dispute is justified. *)
LEMMA ClosingJustified ==
    ASSUME SewInv, [Next]_vars, NEW w \in Workflows, Disputed(w), escrow'[w].state # "disputed"
    PROVE  Justified(w, escrow'[w].state)
<1>1. escrow'[w].state # escrow[w].state
    BY DEF Disputed
<1>2. ~Untouched
    BY <1>1 DEF Untouched
<1>3. PICK v \in Workflows : Effect(v)
    BY <1>2, StepEffect
<1>4. v = w
    BY <1>1, <1>3 DEF Effect, Same
<1>5. \E direction \in TerminalStates : Settled(w, direction)
    BY <1>1, <1>3, <1>4 DEF Effect, Created, Contested, Ruled, Noted, ReleasedPart, Withdrew,
                            HandedOver, Stays, Disputed
<1> QED BY <1>5 DEF Settled, Becomes

(* Once the arbitrator has refused, an escrow closes only by a refund, on the
   dispute timeout or its auto-cancel time. *)
THEOREM RefusalFinal == Spec => RefusalIsFinal
<1> DEFINE Rule == \A w \in Workflows :
                     (Disputed(w) /\ escrow[w].refused /\ escrow'[w].state # "disputed") =>
                        /\ escrow'[w].state = "refunded"
                        /\ Elapsed(w, MaxDuration) \/ AutoCancelDueOnDisputed(w)
<1>1. SewInv /\ [Next]_vars => [Rule]_vars
    BY ClosingJustified DEF Justified
<1>2. [][Rule]_vars => RefusalIsFinal
    BY PTL DEF RefusalIsFinal
<1> QED BY <1>1, <1>2, SewInvariant, PTL DEF Spec

(* Nothing closes a dispute while its ruling is inside the appeal window. *)
THEOREM AppealWindow == Spec => AppealWindowHonoured
<1> DEFINE Rule == \A w \in Workflows :
                     (Disputed(w) /\ HasPending(w) /\ escrow'[w].state # "disputed") =>
                        Expired(pending[w].deadline)
<1>1. SewInv /\ [Next]_vars => [Rule]_vars
    BY ClosingJustified DEF Justified
<1>2. [][Rule]_vars => AppealWindowHonoured
    BY PTL DEF AppealWindowHonoured
<1> QED BY <1>1, <1>2, SewInvariant, PTL DEF Spec

-----------------------------------------------------------------------------
(* The lifecycle an escrow promises its parties. *)

(* Where nothing is released in part or no ruling is superseded, archiving a
   ruling erases no claim. *)
LEMMA NoErasure ==
    ASSUME NothingErased, SewInv, PaidInFull, NEW w \in Workflows, NEW claims, Kept(w, claims)
    PROVE  claims = claimable[w]
<1> SUFFICES ASSUME HasPending(w), claims = NoClaims PROVE claims = claimable[w]
    BY DEF Kept
<1>1. Disputed(w) /\ ~FinalRound(w) /\ Window > 0 /\ escrow[w].level \in 0..MaxLevel
    BY EntryTypes DEF SewInv, PendingOpen, EscrowRecord
<1>2. PartialAmounts = {}
    BY <1>1, SewAssumption DEF NothingErased, FinalRound
<1>3. claimable[w] \in Claims /\ withdrawn[w] \in Claims
    BY EntryTypes
<1>4. Paid(w, Sender) = 0 /\ Paid(w, Recipient) = 0
    BY <1>1, <1>2 DEF PaidInFull, Open, Disputed
<1>5. claimable[w][Sender] = 0 /\ claimable[w][Recipient] = 0
    BY <1>3, <1>4 DEF Paid, Claims, Parties
<1> QED BY <1>3, <1>5 DEF NoClaims, Claims, Parties

(* What the events credit to the parties of an escrow. *)
LEMMA EffectPays ==
    ASSUME NothingErased, SewInv, PaidInFull, SewTypeOK', NEW w \in Workflows, Effect(w)
    PROVE  \/ /\ Created(w) \/ Contested(w)
              /\ \A p \in Parties : Paid(w, p)' = Paid(w, p)
           \/ /\ Stays(w) /\ escrow'[w].released = escrow[w].released
              /\ \A p \in Parties : Paid(w, p)' = Paid(w, p)
           \/ \E direction \in TerminalStates :
                 /\ Settled(w, direction)
                 /\ \A p \in Parties :
                       Paid(w, p)' = Paid(w, p) + IF p = Payee(direction) THEN Owed(w) ELSE 0
           \/ \E a \in PartialAmounts :
                 /\ ReleasedPart(w, a)
                 /\ \A p \in Parties :
                       Paid(w, p)' = Paid(w, p) + IF p = Recipient THEN a ELSE 0
<1>1. /\ claimable[w] \in Claims /\ withdrawn[w] \in Claims
      /\ claimable'[w] \in Claims /\ withdrawn'[w] \in Claims
    BY DEF SewInv, SewTypeOK
<1>2. Owed(w) \in Int
    BY EntryTypes, SewAssumption DEF Owed, EscrowRecord
<1>3. CASE Created(w) \/ Contested(w)
    BY <1>3 DEF Created, Contested, Paid
<1>4. CASE Noted(w) \/ \E p \in Parties : Withdrew(w, p)
    <2>1. CASE Noted(w)
        BY <2>1 DEF Noted, SameTerms, Paid
    <2>2. ASSUME NEW q \in Parties, Withdrew(w, q)
          PROVE  /\ Stays(w) /\ escrow'[w].released = escrow[w].released
                 /\ \A p \in Parties : Paid(w, p)' = Paid(w, p)
        BY <1>1, <2>2 DEF Withdrew, Stays, Paid, Claims
    <2> QED BY <1>4, <2>1, <2>2
<1>5. CASE Ruled(w) \/ \E r \in Resolvers : HandedOver(w, r)
    <2>1. /\ Kept(w, claimable'[w]) /\ UNCHANGED withdrawn
          /\ Stays(w) /\ escrow'[w].released = escrow[w].released
        BY <1>5 DEF Ruled, HandedOver, SameTerms
    <2>2. claimable'[w] = claimable[w]
        BY <2>1, NoErasure
    <2> QED BY <2>1, <2>2 DEF Paid
<1>6. ASSUME NEW direction \in TerminalStates, Settled(w, direction)
      PROVE  \A p \in Parties :
                 Paid(w, p)' = Paid(w, p) + IF p = Payee(direction) THEN Owed(w) ELSE 0
    <2>1. PICK claims \in Claims :
              Kept(w, claims) /\ claimable'[w] = [claims EXCEPT ![Payee(direction)] = @ + Owed(w)]
        BY <1>6 DEF Settled
    <2>2. claims = claimable[w]
        BY <2>1, NoErasure
    <2>3. \A p \in Parties :
              claimable'[w][p] = claimable[w][p] + IF p = Payee(direction) THEN Owed(w) ELSE 0
        BY <1>1, <2>1, <2>2 DEF Claims
    <2> QED BY <1>1, <1>2, <1>6, <2>3 DEF Settled, Paid, Claims
<1>7. ASSUME NEW a \in PartialAmounts, ReleasedPart(w, a)
      PROVE  \A p \in Parties : Paid(w, p)' = Paid(w, p) + IF p = Recipient THEN a ELSE 0
    <2>1. a \in Int
        BY SewAssumption
    <2>2. \A p \in Parties :
              claimable'[w][p] = claimable[w][p] + IF p = Recipient THEN a ELSE 0
        BY <1>1, <1>7, <2>1 DEF ReleasedPart, Claims
    <2> QED BY <1>1, <1>7, <2>1, <2>2 DEF ReleasedPart, Paid, Claims
<1> QED BY <1>3, <1>4, <1>5, <1>6, <1>7 DEF Effect

(* PaidInFull survives every step. *)
LEMMA PaidInFullKept ==
    ASSUME NothingErased, SewInv, PaidInFull, [Next]_vars
    PROVE  PaidInFull'
<1> SUFFICES ASSUME NEW v \in Workflows
             PROVE  /\ PartialAmounts = {} => escrow'[v].released = 0
                    /\ Open(v)' => Paid(v, Sender)' = 0 /\ Paid(v, Recipient)' = escrow'[v].released
    BY DEF PaidInFull
<1>1. SewTypeOK'
    BY StepEffect
<1>2. /\ PartialAmounts = {} => escrow[v].released = 0
      /\ Open(v) => Paid(v, Sender) = 0 /\ Paid(v, Recipient) = escrow[v].released
    BY DEF PaidInFull
<1>3. CASE Same(v)
    BY <1>2, <1>3 DEF Same, Open, Paid
<1>4. CASE Effect(v)
    <2>1. /\ \A p \in Parties : Paid(v, p) \in Nat /\ Paid(v, p)' \in Nat
          /\ Sender \in Parties /\ Recipient \in Parties /\ Sender # Recipient
          /\ escrow[v].released \in Nat
        <3>1. /\ claimable[v] \in Claims /\ withdrawn[v] \in Claims
              /\ claimable'[v] \in Claims /\ withdrawn'[v] \in Claims
            BY <1>1 DEF SewInv, SewTypeOK
        <3>2. escrow[v].released \in Nat
            BY EntryTypes DEF EscrowRecord
        <3>3. Sender \in Parties /\ Recipient \in Parties /\ Sender # Recipient
            BY SewAssumption DEF Parties
        <3> QED BY <3>1, <3>2, <3>3 DEF Claims, Paid
    <2>2. CASE Created(v) /\ \A p \in Parties : Paid(v, p)' = Paid(v, p)
        <3>1. Paid(v, Sender) + Paid(v, Recipient) = 0
            BY <2>2 DEF Created, SewInv, NeverOverpaid
        <3> QED BY <2>1, <2>2, <3>1 DEF Created
    <2>3. CASE Contested(v) /\ \A p \in Parties : Paid(v, p)' = Paid(v, p)
        BY <1>2, <2>1, <2>3 DEF Contested, SameTerms, Open
    <2>4. CASE /\ Stays(v) /\ escrow'[v].released = escrow[v].released
               /\ \A p \in Parties : Paid(v, p)' = Paid(v, p)
        BY <1>2, <2>1, <2>4 DEF Stays, Open
    <2>5. ASSUME NEW direction \in TerminalStates, Settled(v, direction)
          PROVE  escrow'[v].released = escrow[v].released /\ ~Open(v)'
        BY <2>5 DEF Settled, SameTerms, Becomes, Open, TerminalStates
    <2>6. ASSUME NEW a \in PartialAmounts, ReleasedPart(v, a),
                 \A p \in Parties : Paid(v, p)' = Paid(v, p) + IF p = Recipient THEN a ELSE 0
          PROVE  /\ PartialAmounts # {}
                 /\ Open(v)' => Paid(v, Sender)' = 0 /\ Paid(v, Recipient)' = escrow'[v].released
        BY <1>2, <2>1, <2>6 DEF ReleasedPart, Open
    <2> QED BY <1>1, <1>2, <1>4, <2>2, <2>3, <2>4, <2>5, <2>6, EffectPays
<1>5. CASE Untouched
    BY <1>3, <1>5 DEF Untouched, Same
<1>6. CASE \E w \in Workflows : Effect(w)
    BY <1>3, <1>4, <1>6 DEF Effect
<1> QED BY <1>5, <1>6, StepEffect

(* The refinement mapping, entry by entry. *)
LifecycleState == [w \in Workflows |-> escrow[w].state]
LifecyclePaid == [w \in Workflows |-> [p \in Parties |-> claimable[w][p] + withdrawn[w][p]]]

(* A step that touches one escrow changes one entry of the lifecycle. *)
LEMMA MappedEntry ==
    ASSUME NEW w \in Workflows, \A v \in Workflows \ {w} : Same(v),
           NEW entry, entry = [p \in Parties |-> Paid(w, p)']
    PROVE  /\ LifecycleState' = [LifecycleState EXCEPT ![w] = escrow'[w].state]
           /\ LifecyclePaid' = [LifecyclePaid EXCEPT ![w] = entry]
BY DEF LifecycleState, LifecyclePaid, Same, Paid

(* Every step is a step of the lifecycle or leaves it alone. *)
LEMMA LifecycleStep ==
    ASSUME NothingErased, SewInv, PaidInFull, [Next]_vars
    PROVE  [Lifecycle!Next]_<<LifecycleState, LifecyclePaid>>
<1>1. CASE Untouched
    BY <1>1 DEF Untouched, LifecycleState, LifecyclePaid
<1>2. ASSUME NEW w \in Workflows, Effect(w)
      PROVE  [Lifecycle!Next]_<<LifecycleState, LifecyclePaid>>
    <2>1. SewTypeOK'
        BY StepEffect
    <2>2. /\ escrow[w].released \in Nat /\ Amount \in Nat
          /\ Sender \in Parties /\ Recipient \in Parties /\ Sender # Recipient
        BY EntryTypes, SewAssumption DEF EscrowRecord, Parties
    <2>3. \A p \in Parties : Paid(w, p) \in Nat
        BY EntryTypes DEF Paid, Claims
    <2> DEFINE entry == [p \in Parties |-> Paid(w, p)']
               before == [p \in Parties |-> Paid(w, p)]
    <2>4. /\ LifecycleState' = [LifecycleState EXCEPT ![w] = escrow'[w].state]
          /\ LifecyclePaid' = [LifecyclePaid EXCEPT ![w] = entry]
        BY <1>2, MappedEntry DEF Effect
    <2>5. LifecycleState[w] = escrow[w].state /\ LifecyclePaid[w] = before
        BY DEF LifecycleState, LifecyclePaid, Paid
    <2>6. \A p \in Parties : LifecyclePaid[w][p] = Paid(w, p)
        BY <2>5
    <2>7. ASSUME \A p \in Parties : Paid(w, p)' = Paid(w, p) PROVE UNCHANGED LifecyclePaid
        <3>1. entry = before
            BY <2>7
        <3> HIDE DEF entry, before
        <3> QED BY <2>4, <2>5, <3>1 DEF LifecyclePaid
    <2>8. ASSUME NEW q \in Parties, NEW n \in Int,
                 \A p \in Parties : Paid(w, p)' = Paid(w, p) + IF p = q THEN n ELSE 0
          PROVE  LifecyclePaid' = [LifecyclePaid EXCEPT ![w] = [LifecyclePaid[w] EXCEPT ![q] = @ + n]]
        <3>1. \A p \in Parties : Paid(w, p)' = IF p = q THEN Paid(w, q) + n ELSE Paid(w, p)
            BY <2>3, <2>8
        <3>2. entry = [before EXCEPT ![q] = @ + n]
            BY <3>1 DEF Paid
        <3> HIDE DEF entry, before
        <3> QED BY <2>4, <2>5, <3>2
    <2> HIDE DEF entry, before
    <2>9. Open(w) => Amount - (LifecyclePaid[w][Sender] + LifecyclePaid[w][Recipient]) = Owed(w)
        BY <2>2, <2>3, <2>6 DEF PaidInFull, Owed
    <2>10. CASE /\ Created(w) \/ Contested(w)
                /\ \A p \in Parties : Paid(w, p)' = Paid(w, p)
        <3>1. UNCHANGED LifecyclePaid
            BY <2>7, <2>10
        <3>2. \E s \in {"pending", "disputed"} :
                  /\ s \in Lifecycle!AllowedTransitions[LifecycleState[w]]
                  /\ LifecycleState' = [LifecycleState EXCEPT ![w] = s]
            <4>1. CASE Created(w)
                <5>1. escrow[w].state = "none" /\ escrow'[w].state = "pending"
                    BY <4>1 DEF Created, Becomes
                <5> QED BY <2>4, <2>5, <5>1 DEF Lifecycle!AllowedTransitions
            <4>2. CASE Contested(w)
                <5>1. escrow[w].state = "pending" /\ escrow'[w].state = "disputed"
                    BY <4>2 DEF Contested, Becomes
                <5> QED BY <2>4, <2>5, <5>1 DEF Lifecycle!AllowedTransitions
            <4> QED BY <2>10, <4>1, <4>2
        <3>3. \E s \in Lifecycle!EscrowStates : Lifecycle!Advance(w, s)
            BY <3>1, <3>2 DEF Lifecycle!Advance, Lifecycle!EscrowStates, Lifecycle!TerminalStates,
                              Lifecycle!AllowedTransitions, LifecycleState, LifecyclePaid
        <3> QED BY <3>3 DEF Lifecycle!Next
    <2>11. CASE Stays(w) /\ \A p \in Parties : Paid(w, p)' = Paid(w, p)
        <3>1. UNCHANGED LifecyclePaid
            BY <2>7, <2>11
        <3>2. UNCHANGED LifecycleState
            BY <2>4, <2>11 DEF Stays, LifecycleState
        <3> QED BY <3>1, <3>2
    <2>12. ASSUME NEW d \in TerminalStates, escrow'[w].state = d, Open(w),
                  \A p \in Parties : Paid(w, p)' = Paid(w, p) + IF p = Payee(d) THEN Owed(w) ELSE 0
           PROVE  Lifecycle!Next
        <3>1. Payee(d) \in Parties /\ Owed(w) \in Int
            BY <2>2 DEF Payee, Parties, Owed
        <3>2. LifecyclePaid' = [LifecyclePaid EXCEPT ![w] =
                                   [LifecyclePaid[w] EXCEPT ![Payee(d)] = @ + Owed(w)]]
            BY <2>8, <2>12, <3>1
        <3>3. /\ d \in Lifecycle!EscrowStates
              /\ d \in Lifecycle!AllowedTransitions[LifecycleState[w]] \cap Lifecycle!TerminalStates
            BY <2>5, <2>12 DEF Open, TerminalStates, Lifecycle!AllowedTransitions,
                               Lifecycle!TerminalStates, Lifecycle!EscrowStates
        <3>4. Lifecycle!Close(w, d)
            BY <2>4, <2>9, <2>12, <3>2, <3>3
               DEF Lifecycle!Close, Lifecycle!Owed, Lifecycle!Payee, Payee, LifecycleState, LifecyclePaid
        <3> QED BY <3>3, <3>4 DEF Lifecycle!Next
    <2>13. ASSUME NEW a \in PartialAmounts, ReleasedPart(w, a),
                  \A p \in Parties : Paid(w, p)' = Paid(w, p) + IF p = Recipient THEN a ELSE 0
           PROVE  Lifecycle!Next
        <3>1. a \in Nat \ {0} /\ a <= Owed(w) /\ Open(w) /\ Owed(w) \in Int
            BY <2>2, <2>13, SewAssumption DEF ReleasedPart, Open, Owed
        <3>2. CASE a = Owed(w)
            <4>1. escrow'[w].state = "released"
                BY <2>2, <2>13, <3>1, <3>2 DEF ReleasedPart, Owed
            <4> QED BY <2>12, <2>13, <3>1, <3>2, <4>1 DEF TerminalStates, Payee
        <3>3. CASE a < Owed(w)
            <4>1. escrow'[w].state = "pending" /\ escrow[w].state = "pending"
                BY <2>2, <2>13, <3>1, <3>3 DEF ReleasedPart, Owed
            <4>2. a \in 1..Amount
                BY <2>2, <3>1 DEF Owed
            <4>3. LifecyclePaid' = [LifecyclePaid EXCEPT ![w] =
                                       [LifecyclePaid[w] EXCEPT ![Recipient] = @ + a]]
                BY <2>2, <2>8, <2>13, <3>1
            <4>4. UNCHANGED LifecycleState
                BY <2>4, <4>1 DEF LifecycleState
            <4>5. Lifecycle!PayPart(w, a)
                BY <2>5, <2>9, <3>1, <3>3, <4>1, <4>3, <4>4
                   DEF Lifecycle!PayPart, Lifecycle!Owed, LifecycleState, LifecyclePaid
            <4> QED BY <4>2, <4>5 DEF Lifecycle!Next
        <3> QED BY <3>1, <3>2, <3>3
    <2>14. \A d \in TerminalStates : Settled(w, d) => Open(w) /\ escrow'[w].state = d
        BY DEF Settled, Becomes
    <2> QED BY <1>2, <2>1, <2>10, <2>11, <2>12, <2>13, <2>14, EffectPays
<1> QED BY <1>1, <1>2, StepEffect

(* The protocol pays every escrow out once, in full and to the party its final
   state names, along the transition graph of types.clj, where no unclaimed
   partial release can be erased by a superseded ruling. *)
THEOREM ImplementsLifecycle == NothingErased /\ Spec => RefinesLifecycle
<1> SUFFICES ASSUME NothingErased PROVE Spec => RefinesLifecycle
    OBVIOUS
<1>1. Init => Lifecycle!Init
    BY DEF Init, BlankEscrow, NoClaims, Lifecycle!Init, Lifecycle!Parties, Parties
<1>2. Init => PaidInFull
    BY DEF Init, BlankEscrow, PaidInFull, Open
<1>3. SewInv /\ PaidInFull /\ [Next]_vars => PaidInFull'
    BY PaidInFullKept
<1>4. SewInv /\ PaidInFull /\ [Next]_vars => [Lifecycle!Next]_(Lifecycle!vars)
    BY LifecycleStep DEF Lifecycle!vars, LifecycleState, LifecyclePaid
<1> QED BY <1>1, <1>2, <1>3, <1>4, SewInvariant, PTL DEF Spec, RefinesLifecycle, Lifecycle!Spec

-----------------------------------------------------------------------------
(* The counters of resolver capacity. *)

(* The open disputes of a resolver are finitely many. *)
LEMMA LoadFinite ==
    ASSUME NEW r
    PROVE  IsFiniteSet(Load(r)) /\ Cardinality(Load(r)) \in Nat
<1>1. IsFiniteSet(Load(r))
    BY SewAssumption, FS_Subset DEF Load
<1> QED BY <1>1, FS_CardinalityType

(* A counter that is exact for an open dispute is positive, so decrementing it
   is subtracting one. *)
LEMMA LoadedResolver ==
    ASSUME NEW w \in Workflows, Disputed(w)
    PROVE  /\ w \in Load(escrow[w].resolver)
           /\ Cardinality(Load(escrow[w].resolver)) > 0
<1>1. w \in Load(escrow[w].resolver)
    BY DEF Load
<1>2. Cardinality(Load(escrow[w].resolver)) # 0
    BY <1>1, LoadFinite, FS_EmptySet
<1> QED BY <1>1, <1>2, LoadFinite

(* The set of open disputes of a resolver changes by the touched escrow only. *)
LEMMA LoadChange ==
    ASSUME NEW w \in Workflows, \A v \in Workflows \ {w} : Same(v), NEW r
    PROVE  /\ (Disputed(w)' /\ escrow'[w].resolver = r) => Load(r)' = Load(r) \cup {w}
           /\ ~(Disputed(w)' /\ escrow'[w].resolver = r) => Load(r)' = Load(r) \ {w}
<1>1. \A v \in Workflows \ {w} : v \in Load(r)' <=> v \in Load(r)
    BY DEF Load, Same, Disputed
<1>2. w \in Load(r)' <=> (Disputed(w)' /\ escrow'[w].resolver = r)
    BY DEF Load
<1>3. Load(r) \subseteq Workflows /\ Load(r)' \subseteq Workflows
    BY DEF Load
<1> QED BY <1>1, <1>2, <1>3

(* Every raise, settlement and hand-over moves the counters of the resolvers
   as it moves the dispute, the hand-over of a dispute to the resolver that
   already has it included. *)
LEMMA CapacityEffect ==
    ASSUME SewInv, CapacityCounts, NEW w \in Workflows, Effect(w)
    PROVE  CapacityCounts'
<1> SUFFICES ASSUME NEW r \in Resolvers, limit'[r] = Capacity
             PROVE  active'[r] = Cardinality(Load(r)')
    BY DEF CapacityCounts, Load, Disputed
<1>1. limit' = limit
    BY DEF Effect, Created, Contested, Ruled, Noted, Settled, ReleasedPart, Withdrew, HandedOver
<1>2. active[r] = Cardinality(Load(r)) /\ active \in [Resolvers -> Nat]
    BY <1>1 DEF CapacityCounts, Load, Disputed, SewInv, SewTypeOK
<1>3. \A v \in Workflows \ {w} : Same(v)
    BY DEF Effect
<1>4. IsFiniteSet(Load(r)) /\ Cardinality(Load(r)) \in Nat
    BY LoadFinite
<1>5. /\ (Disputed(w)' /\ escrow'[w].resolver = r) => Load(r)' = Load(r) \cup {w}
      /\ ~(Disputed(w)' /\ escrow'[w].resolver = r) => Load(r)' = Load(r) \ {w}
    BY <1>3, LoadChange
<1>6. w \in Load(r) <=> (Disputed(w) /\ escrow[w].resolver = r)
    BY DEF Load
<1>7. /\ Cardinality(Load(r) \cup {w}) =
            IF w \in Load(r) THEN Cardinality(Load(r)) ELSE Cardinality(Load(r)) + 1
      /\ Cardinality(Load(r) \ {w}) =
            IF w \in Load(r) THEN Cardinality(Load(r)) - 1 ELSE Cardinality(Load(r))
    BY <1>4, FS_AddElement, FS_RemoveElement
<1>8. w \in Load(r) => active[r] > 0
    BY <1>2, <1>6, LoadedResolver
<1>9. CASE /\ UNCHANGED active
           /\ (Disputed(w)' /\ escrow'[w].resolver = r) <=> (Disputed(w) /\ escrow[w].resolver = r)
    BY <1>2, <1>5, <1>6, <1>7, <1>9
<1>10. CASE Created(w) \/ Ruled(w) \/ Noted(w)
    BY <1>9, <1>10 DEF Created, Ruled, Noted, Becomes, Stays, SameTerms, Disputed
<1>11. CASE (\E a \in PartialAmounts : ReleasedPart(w, a)) \/ (\E p \in Parties : Withdrew(w, p))
    BY <1>9, <1>11 DEF ReleasedPart, Withdrew, Disputed
<1>12. CASE Contested(w)
    <2>1. /\ ~Disputed(w) /\ Disputed(w)' /\ escrow'[w].resolver = escrow[w].resolver
          /\ escrow[w].resolver \in Resolvers
        BY <1>12 DEF Contested, Becomes, SameTerms, Disputed, SewInv, Assigned
    <2>2. active'[r] = IF r = escrow[w].resolver THEN active[r] + 1 ELSE active[r]
        BY <1>2, <1>12, <2>1 DEF Contested
    <2> QED BY <1>2, <1>5, <1>6, <1>7, <2>1, <2>2
<1>13. ASSUME NEW direction \in TerminalStates, Settled(w, direction)
       PROVE  active'[r] = Cardinality(Load(r)')
    <2>1. /\ ~Disputed(w)' /\ escrow[w].resolver \in Resolvers
        BY <1>13 DEF Settled, Becomes, TerminalStates, Disputed, SewInv, Assigned, Open
    <2>2. active'[r] = IF Disputed(w) /\ r = escrow[w].resolver THEN Decrement(active[r]) ELSE active[r]
        BY <1>2, <1>13, <2>1 DEF Settled
    <2> QED BY <1>2, <1>5, <1>6, <1>7, <1>8, <2>1, <2>2 DEF Decrement
<1>14. ASSUME NEW to \in Resolvers, HandedOver(w, to)
       PROVE  active'[r] = Cardinality(Load(r)')
    <2> DEFINE from == escrow[w].resolver
               freed == [active EXCEPT ![from] = Decrement(@)]
    <2>1. Disputed(w) /\ Disputed(w)' /\ escrow'[w].resolver = to /\ from \in Resolvers
        BY <1>14 DEF HandedOver, Stays, Disputed, SewInv, Assigned
    <2>2. active' = [freed EXCEPT ![to] = @ + 1]
        BY <1>14 DEF HandedOver, MoveCapacity
    <2>3. /\ DOMAIN freed = Resolvers
          /\ freed[r] = IF r = from THEN Decrement(active[r]) ELSE active[r]
        BY <1>2, <2>1
    <2> HIDE DEF freed
    <2>4. active'[r] = IF r = to THEN freed[r] + 1 ELSE freed[r]
        BY <2>2, <2>3
    <2>5. w \in Load(r) <=> r = from
        BY <1>6, <2>1
    <2> HIDE DEF from
    <2> QED BY <1>2, <1>5, <1>7, <1>8, <2>1, <2>3, <2>4, <2>5 DEF Decrement
<1> QED BY <1>10, <1>11, <1>12, <1>13, <1>14 DEF Effect

(* current-active is the number of open disputes assigned to the resolver,
   unless its capacity was set again (to another value, so that its limit
   tells). *)
THEOREM CapacityExact == Capacity \notin CapacityChoices /\ Spec => []CapacityCounts
<1> SUFFICES ASSUME Capacity \notin CapacityChoices PROVE Spec => []CapacityCounts
    OBVIOUS
<1>1. Init => CapacityCounts
    <2> SUFFICES ASSUME Init, NEW r \in Resolvers
                 PROVE  active[r] = Cardinality(Load(r))
        BY DEF CapacityCounts, Load, Disputed
    <2>1. Load(r) = {}
        BY DEF Init, BlankEscrow, Load, Disputed
    <2> QED BY <2>1, FS_EmptySet DEF Init
<1>2. SewInv /\ CapacityCounts /\ [Next]_vars => CapacityCounts'
    <2> SUFFICES ASSUME SewInv, CapacityCounts, [Next]_vars PROVE CapacityCounts'
        OBVIOUS
    <2>1. CASE Untouched
        <3>1. ASSUME NEW r \in Resolvers, limit'[r] = Capacity
              PROVE  limit[r] = Capacity /\ active'[r] = active[r]
            BY <2>1, <3>1 DEF Untouched, SewInv, SewTypeOK
        <3>2. \A r \in Resolvers : Load(r)' = Load(r)
            BY <2>1 DEF Untouched, Load, Disputed
        <3> QED BY <3>1, <3>2 DEF CapacityCounts, Load, Disputed
    <2>2. ASSUME NEW w \in Workflows, Effect(w) PROVE CapacityCounts'
        BY <2>2, CapacityEffect
    <2> QED BY <2>1, <2>2, StepEffect
<1> QED BY <1>1, <1>2, SewInvariant, PTL DEF Spec
==============================================================================
