----------------------------- MODULE SewDispute -----------------------------
(***************************************************************************)
(* The Sew escrow protocol: escrows created, cancelled, released and       *)
(* disputed (lifecycle.clj), rulings with an appeal window, escalation,    *)
(* challenge, refusal, recovery of superseded rulings, timeouts and the    *)
(* keeper (resolution.clj, state_machine.clj), and the withdrawal of what  *)
(* was settled (accounting.clj).  Each action is one event applied to the  *)
(* world map; an event whose guards fail leaves the world as it was, and   *)
(* is the action being disabled.                                           *)
(*                                                                         *)
(* The snapshot modelled is the direct-resolver one: no resolution module, *)
(* bonds and reversal slashes of zero, no yield module, no fee on          *)
(* transfer, no resolver frozen, protocol not paused.                      *)
(***************************************************************************)
EXTENDS Integers, Sequences, FiniteSets, FiniteSetsExt

CONSTANTS
    Workflows, Sender, Recipient,
    Outsiders,         \* challengers who are no party to an escrow
    Resolvers,
    CustomResolvers,   \* the custom-resolver settings an escrow may choose from
    None,              \* no custom resolver, no rotation
    Ladder,            \* Ladder[n]: the resolver escalation-fn names for level n
    Amount,            \* amount-after-fee of an escrow
    Stake,             \* a resolver's registered stake
    MaxLevel,          \* max-dispute-level
    Window,            \* max of appeal-window-duration, challenge-window-duration
    MaxDuration,       \* max-dispute-duration
    ResponseWindow,    \* resolver-response-window, 0 when disabled
    Cooldown,          \* escalation-cooldown-seconds
    MaxSuperseded,     \* max-superseded-pending-per-workflow
    Capacity,          \* max-concurrent each resolver starts with, 0 unlimited
    CapacityChoices,   \* the values set-resolver-capacity may give later
    PartialAmounts,    \* the amounts partial-release may be called with
    AutoTimes,         \* the <<auto-release-time, auto-cancel-time>> settings
    Unilateral,        \* does the cancellation strategy allow one party to cancel
    MaxTime,           \* bound on the clock
    MaxRulings         \* bound on the rulings of one workflow

ASSUME SewAssumption ==
    /\ IsFiniteSet(Workflows)
    /\ Sender # Recipient /\ {Sender, Recipient} \cap Resolvers = {}
    /\ None \notin Resolvers /\ CustomResolvers \subseteq Resolvers
    /\ Amount \in Nat \ {0} /\ Stake \in Nat /\ MaxLevel \in Nat
    /\ Window \in Nat /\ MaxDuration \in Nat /\ ResponseWindow \in Nat
    /\ Cooldown \in Nat /\ MaxSuperseded \in Nat \ {0} /\ Capacity \in Nat
    /\ CapacityChoices \subseteq Nat /\ PartialAmounts \subseteq Nat \ {0}
    /\ AutoTimes \subseteq Nat \X Nat
    /\ \A a \in AutoTimes : a[1] = 0 \/ a[2] = 0
    /\ Unilateral \in BOOLEAN /\ MaxTime \in Nat /\ MaxRulings \in Nat
    /\ Ladder \in [0..MaxLevel -> Resolvers]

VARIABLES
    now,           \* block timestamp; 0 stands for "unset" in the world map
    escrow,        \* escrow[w]: the escrow-transfers entry and its satellites
    pending,       \* pending[w]: the active pending settlement
    superseded,    \* superseded[w]: archived rulings, in the order of the list
    held,          \* held[w]: the escrow-principal position in custody
    claimable,     \* claimable[w][p]: settlement/principal owed to p
    withdrawn,     \* withdrawn[w][p]: what p has withdrawn
    stake,         \* resolver-stakes
    limit, active, \* resolver-capacities: max-concurrent, current-active
    lastEscalation \* last-escalation-block-time-per-addr, by caller and level

vars == <<now, escrow, pending, superseded, held, claimable, withdrawn, stake,
          limit, active, lastEscalation>>

Parties == {Sender, Recipient}
Callers == Parties \cup Outsiders

NoDecision == [isRelease |-> FALSE, deadline |-> 0]
NoClaims == [p \in Parties |-> 0]

BlankEscrow ==
    [state |-> "none", senderStatus |-> "none", recipientStatus |-> "none",
     resolver |-> None, custom |-> None, rotation |-> <<None, None>>,
     autoRelease |-> 0, autoCancel |-> 0, released |-> 0,
     disputedAt |-> 0, level |-> 0, refused |-> FALSE,
     ruling |-> "none", rulings |-> 0]

-----------------------------------------------------------------------------
(* Predicates of types.clj, state_machine.clj and authority.clj            *)

TerminalStates == {"released", "refunded"}
Disputed(w) == escrow[w].state = "disputed"
HasPending(w) == pending[w].deadline > 0
FinalRound(w) == escrow[w].level >= MaxLevel
AtCapacity(r) == limit[r] > 0 /\ active[r] >= limit[r]
Expired(deadline) == now >= deadline
Elapsed(w, duration) ==
    /\ Disputed(w) /\ escrow[w].disputedAt > 0 /\ duration > 0
    /\ Expired(escrow[w].disputedAt + duration)

AutoReleaseDue(w) ==
    escrow[w].state = "pending" /\ escrow[w].autoRelease > 0 /\ Expired(escrow[w].autoRelease)
AutoCancelDue(w) ==
    escrow[w].state = "pending" /\ escrow[w].autoCancel > 0 /\ Expired(escrow[w].autoCancel)
AutoCancelDueOnDisputed(w) ==
    Disputed(w) /\ escrow[w].autoCancel > 0 /\ Expired(escrow[w].autoCancel) /\ ~HasPending(w)
DisputeTimeoutExceeded(w) == ~HasPending(w) /\ Elapsed(w, MaxDuration)
ResolverResponseExceeded(w) == ~HasPending(w) /\ Elapsed(w, ResponseWindow)
RefusedResolutionTimeout(w) == escrow[w].refused /\ Elapsed(w, MaxDuration)

AuthorizedResolver(w, c) ==
    c = IF escrow[w].custom # None THEN escrow[w].custom ELSE escrow[w].resolver
AuthorizedFallbackResolver(w, c) ==
    c = escrow[w].resolver \/ (c \notin Parties /\ stake[c] > 0)

\* last of a stable sort by <<superseded-at, appeal-deadline>>: the greatest
\* key, and among equal keys the one furthest down the list
SortsLast(entries) ==
    LET After(i, j) == \/ entries[i].at > entries[j].at
                       \/ /\ entries[i].at = entries[j].at
                          /\ \/ entries[i].deadline > entries[j].deadline
                             \/ entries[i].deadline = entries[j].deadline /\ i > j
    IN  entries[CHOOSE i \in DOMAIN entries :
                    \A j \in DOMAIN entries \ {i} : After(i, j)]

\* eligible-superseded-pending, and pick-eligible-superseded-pending, its twin
EligibleSuperseded(w) ==
    LET sameLevel == SelectSeq(superseded[w], LAMBDA e : e.level = escrow[w].level)
    IN  IF sameLevel # <<>> THEN SortsLast(sameLevel)
        ELSE IF Disputed(w) /\ superseded[w] # <<>> THEN SortsLast(superseded[w])
        ELSE NoDecision

\* mutant: an expired superseded ruling wins over a ruling still in its window
ExecutableSupersededFirst(w) ==
    IF superseded[w] # <<>> THEN EligibleSuperseded(w) ELSE pending[w]

Executable(w) == IF HasPending(w) THEN pending[w] ELSE EligibleSuperseded(w)

PendingSettlementExecutable(w) ==
    Disputed(w) /\ Executable(w).deadline > 0 /\ Expired(Executable(w).deadline)

-----------------------------------------------------------------------------
(* Effects shared by several events                                        *)

Payee(direction) == IF direction = "released" THEN Recipient ELSE Sender
Direction(isRelease) == IF isRelease THEN "released" ELSE "refunded"
Owed(w) == Amount - escrow[w].released
Decrement(n) == IF n > 0 THEN n - 1 ELSE 0

Closed(e, direction) ==
    [e EXCEPT !.state = direction, !.senderStatus = "none",
              !.recipientStatus = "none", !.disputedAt = 0]

\* finalize: the whole remainder leaves custody for one party's claim
Finalize(w, e, direction, claims) ==
    /\ held[w] >= Owed(w)
    /\ escrow' = [escrow EXCEPT ![w] = Closed(e, direction)]
    /\ pending' = [pending EXCEPT ![w] = NoDecision]
    /\ held' = [held EXCEPT ![w] = @ - Owed(w)]
    /\ claimable' = [claimable EXCEPT ![w] = [claims EXCEPT ![Payee(direction)] = @ + Owed(w)]]
    /\ UNCHANGED withdrawn

\* archive-current-pending-settlement: take-last returns a list, so conj adds
\* at its front, and take-last keeps the end of it
TakeLast(n, list) ==
    SubSeq(list, IF Len(list) > n THEN Len(list) - n + 1 ELSE 1, Len(list))

Archived(w) ==
    TakeLast(MaxSuperseded,
             <<[isRelease |-> pending[w].isRelease, deadline |-> pending[w].deadline,
                at |-> now, level |-> escrow[w].level]>> \o superseded[w])

FreeCapacity(r) == active' = [active EXCEPT ![r] = Decrement(@)]
\* mutant: the old resolver's counter is not decremented
MoveCapacityOnlyUp(from, to) == active' = [active EXCEPT ![to] = @ + 1]

MoveCapacity(from, to) ==
    active' = [[active EXCEPT ![from] = Decrement(@)] EXCEPT ![to] = @ + 1]

-----------------------------------------------------------------------------
(* Events of a pending escrow                                              *)

Init ==
    /\ now = 1
    /\ escrow = [w \in Workflows |-> BlankEscrow]
    /\ pending = [w \in Workflows |-> NoDecision]
    /\ superseded = [w \in Workflows |-> <<>>]
    /\ held = [w \in Workflows |-> 0]
    /\ claimable = [w \in Workflows |-> NoClaims]
    /\ withdrawn = [w \in Workflows |-> NoClaims]
    /\ stake = [r \in Resolvers |-> Stake]
    /\ limit = [r \in Resolvers |-> Capacity]
    /\ active = [r \in Resolvers |-> 0]
    /\ lastEscalation = [c \in Callers, n \in 0..MaxLevel |-> 0]

CreateEscrow(w, custom, auto) ==
    LET resolver == IF custom # None THEN custom ELSE Ladder[0]
    IN  /\ escrow[w].state = "none"
        /\ ~AtCapacity(resolver)
        /\ escrow' = [escrow EXCEPT ![w] =
               [BlankEscrow EXCEPT !.state = "pending", !.custom = custom,
                    !.resolver = resolver, !.autoRelease = auto[1], !.autoCancel = auto[2]]]
        /\ held' = [held EXCEPT ![w] = Amount]
        /\ UNCHANGED <<now, pending, superseded, claimable, withdrawn, stake, limit, active, lastEscalation>>

\* mutant: the dispute timestamp is not recorded
RaiseDisputeUntimed(w, c) ==
    /\ escrow[w].state = "pending" /\ ~AtCapacity(escrow[w].resolver)
    /\ now + MaxDuration <= MaxTime
    /\ escrow' = [escrow EXCEPT ![w] =
           [@ EXCEPT !.state = "disputed",
                     !.senderStatus = IF c = Sender THEN "raise-dispute" ELSE "none",
                     !.recipientStatus = IF c = Sender THEN "none" ELSE "raise-dispute"]]
    /\ active' = [active EXCEPT ![escrow[w].resolver] = @ + 1]
    /\ UNCHANGED <<now, pending, superseded, held, claimable, withdrawn, stake, limit, lastEscalation>>

RaiseDispute(w, c) ==
    /\ escrow[w].state = "pending"
    /\ ~AtCapacity(escrow[w].resolver)
    /\ now + MaxDuration <= MaxTime
    /\ escrow' = [escrow EXCEPT ![w] =
           [@ EXCEPT !.state = "disputed", !.disputedAt = now,
                     !.senderStatus = IF c = Sender THEN "raise-dispute" ELSE "none",
                     !.recipientStatus = IF c = Sender THEN "none" ELSE "raise-dispute"]]
    /\ active' = [active EXCEPT ![escrow[w].resolver] = @ + 1]
    /\ UNCHANGED <<now, pending, superseded, held, claimable, withdrawn, stake, limit, lastEscalation>>

Release(w) ==
    /\ escrow[w].state = "pending"
    /\ Finalize(w, escrow[w], "released", claimable[w])
    /\ UNCHANGED <<now, superseded, stake, limit, active, lastEscalation>>

\* mutant: the amount is not compared with what remains
PartialReleaseUnchecked(w, a) ==
    /\ escrow[w].state = "pending"
    /\ escrow' = [escrow EXCEPT ![w].released = @ + a]
    /\ held' = [held EXCEPT ![w] = @ - a]
    /\ claimable' = [claimable EXCEPT ![w][Recipient] = @ + a]
    /\ UNCHANGED <<now, pending, superseded, withdrawn, stake, limit, active, lastEscalation>>

PartialRelease(w, a) ==
    LET e == [escrow[w] EXCEPT !.released = @ + a]
    IN  /\ escrow[w].state = "pending" /\ a <= Owed(w)
        /\ escrow' = [escrow EXCEPT ![w] =
               IF e.released < Amount THEN e
               ELSE [e EXCEPT !.state = "released", !.senderStatus = "none", !.recipientStatus = "none"]]
        /\ held' = [held EXCEPT ![w] = @ - a]
        /\ claimable' = [claimable EXCEPT ![w][Recipient] = @ + a]
        /\ UNCHANGED <<now, pending, superseded, withdrawn, stake, limit, active, lastEscalation>>

\* sender-cancel and recipient-cancel
Agreed(e, c) ==
    IF c = Sender THEN [e EXCEPT !.senderStatus = "agree-to-cancel"]
                  ELSE [e EXCEPT !.recipientStatus = "agree-to-cancel"]
BothAgreed(e) ==
    e.senderStatus = "agree-to-cancel" /\ e.recipientStatus = "agree-to-cancel"

Cancel(w, c) ==
    /\ escrow[w].state = "pending"
    /\ \/ /\ Unilateral \/ BothAgreed(Agreed(escrow[w], c))
          /\ Finalize(w, escrow[w], "refunded", claimable[w])
       \/ /\ ~Unilateral /\ ~BothAgreed(Agreed(escrow[w], c))
          /\ escrow' = [escrow EXCEPT ![w] = Agreed(@, c)]
          /\ UNCHANGED <<pending, held, claimable, withdrawn>>
    /\ UNCHANGED <<now, superseded, stake, limit, active, lastEscalation>>

\* mutant: the claim is not cleared
WithdrawEscrowAgain(w, p) ==
    /\ escrow[w].state \in TerminalStates \cup {"pending"}
    /\ claimable[w][p] > 0 /\ withdrawn[w][p] < 2 * Amount
    /\ withdrawn' = [withdrawn EXCEPT ![w][p] = @ + claimable[w][p]]
    /\ UNCHANGED <<now, escrow, pending, superseded, held, claimable, stake, limit, active, lastEscalation>>

WithdrawEscrow(w, p) ==
    /\ escrow[w].state \in TerminalStates \cup {"pending"}
    /\ claimable[w][p] > 0
    /\ claimable' = [claimable EXCEPT ![w][p] = 0]
    /\ withdrawn' = [withdrawn EXCEPT ![w][p] = @ + claimable[w][p]]
    /\ UNCHANGED <<now, escrow, pending, superseded, held, stake, limit, active, lastEscalation>>

SetResolverCapacity(r, n) ==
    /\ limit' = [limit EXCEPT ![r] = n]
    /\ active' = [active EXCEPT ![r] = 0]
    /\ UNCHANGED <<now, escrow, pending, superseded, held, claimable, withdrawn, stake, lastEscalation>>

-----------------------------------------------------------------------------
(* Events of a dispute                                                     *)

\* execute-resolution and apply-resolution-transition.  A ruling replaces the
\* active one, which is archived together with the workflow's principal claims.
ExecuteResolution(w, c, isRelease) ==
    LET e == [escrow[w] EXCEPT !.ruling = Direction(isRelease), !.rulings = @ + 1]
        claims == IF HasPending(w) THEN NoClaims ELSE claimable[w]
    IN  /\ Disputed(w) /\ ~escrow[w].refused
        /\ IF ResolverResponseExceeded(w) THEN AuthorizedFallbackResolver(w, c)
                                          ELSE AuthorizedResolver(w, c)
        /\ escrow[w].rulings < MaxRulings /\ now + Window <= MaxTime
        /\ superseded' = IF HasPending(w) THEN [superseded EXCEPT ![w] = Archived(w)]
                                          ELSE superseded
        /\ \/ /\ FinalRound(w) \/ Window = 0
              /\ Finalize(w, e, Direction(isRelease), claims)
              /\ FreeCapacity(escrow[w].resolver)
           \/ /\ ~FinalRound(w) /\ Window > 0
              /\ escrow' = [escrow EXCEPT ![w] = e]
              /\ pending' = [pending EXCEPT ![w] = [isRelease |-> isRelease, deadline |-> now + Window]]
              /\ claimable' = [claimable EXCEPT ![w] = claims]
              /\ UNCHANGED <<held, withdrawn, active>>
        /\ UNCHANGED <<now, stake, limit, lastEscalation>>

ExecuteResolutionRefused(w, c) ==
    /\ Disputed(w) /\ ~HasPending(w)
    /\ AuthorizedResolver(w, c)
    /\ escrow' = [escrow EXCEPT ![w].refused = TRUE]
    /\ UNCHANGED <<now, pending, superseded, held, claimable, withdrawn, stake, limit, active, lastEscalation>>

\* mutant: a refusal does not stop a ruling left from a lower level
ExecutePendingSettlementRefused(w) ==
    /\ PendingSettlementExecutable(w)
    /\ Finalize(w, escrow[w], Direction(Executable(w).isRelease), claimable[w])
    /\ FreeCapacity(escrow[w].resolver)
    /\ UNCHANGED <<now, superseded, stake, limit, lastEscalation>>

ExecutePendingSettlement(w) ==
    /\ ~escrow[w].refused
    /\ PendingSettlementExecutable(w)
    /\ Finalize(w, escrow[w], Direction(Executable(w).isRelease), claimable[w])
    /\ FreeCapacity(escrow[w].resolver)
    /\ UNCHANGED <<now, superseded, stake, limit, lastEscalation>>

\* escalate-dispute by a party, challenge-resolution by anyone: the active
\* ruling is archived and the next level's resolver takes the dispute over
Escalate(w, c) ==
    LET level == escrow[w].level IN
    /\ Disputed(w) /\ ~FinalRound(w)
    /\ HasPending(w) /\ now < pending[w].deadline
    /\ lastEscalation[c, level] = 0 \/ now - lastEscalation[c, level] >= Cooldown
    /\ superseded' = [superseded EXCEPT ![w] = Archived(w)]
    /\ pending' = [pending EXCEPT ![w] = NoDecision]
    /\ claimable' = [claimable EXCEPT ![w] = NoClaims]
    /\ escrow' = [escrow EXCEPT ![w] = [@ EXCEPT !.level = level + 1, !.resolver = Ladder[level + 1]]]
    /\ MoveCapacity(escrow[w].resolver, Ladder[level + 1])
    /\ lastEscalation' = [lastEscalation EXCEPT ![<<c, level>>] = now]
    /\ UNCHANGED <<now, held, withdrawn, stake, limit>>

EscalateDispute(w, c) == c \in Parties /\ Escalate(w, c)
ChallengeResolution(w, c) == c \in Callers /\ Escalate(w, c)

RotateDisputeResolver(w, r) ==
    LET old == escrow[w].resolver IN
    /\ Disputed(w) /\ ~HasPending(w)
    /\ r # old /\ escrow[w].rotation # <<old, r>>
    /\ escrow' = [escrow EXCEPT ![w] = [@ EXCEPT !.resolver = r, !.custom = None, !.rotation = <<old, r>>]]
    /\ MoveCapacity(old, r)
    /\ UNCHANGED <<now, pending, superseded, held, claimable, withdrawn, stake, limit, lastEscalation>>

\* cancel-disputed-escrow-now: refund, and slash the resolver for the timeout
CancelDisputedNow(w) ==
    LET r == escrow[w].resolver IN
    /\ Finalize(w, escrow[w], "refunded", claimable[w])
    /\ stake' = [stake EXCEPT ![r] = @ - Min({@, Amount})]
    /\ FreeCapacity(r)
    /\ UNCHANGED <<now, superseded, limit, lastEscalation>>

AutoCancelDisputed(w) == DisputeTimeoutExceeded(w) /\ CancelDisputedNow(w)

-----------------------------------------------------------------------------
(* The keeper                                                              *)

\* automate-timed-actions: the first condition that holds picks the entry
\* tried, and when that entry fails the call fails
TimedConditions(w) ==
    << PendingSettlementExecutable(w),
       AutoCancelDueOnDisputed(w),
       RefusedResolutionTimeout(w) \/ DisputeTimeoutExceeded(w),
       AutoReleaseDue(w),
       AutoCancelDue(w) >>
Priority(w) == Min({i \in 1..5 : TimedConditions(w)[i]} \cup {6})

AutomateTimedActions(w) ==
    \/ Priority(w) = 1 /\ ExecutePendingSettlement(w)
    \/ Priority(w) = 2 /\ CancelDisputedNow(w)
    \/ Priority(w) = 3 /\ AutoCancelDisputed(w)
    \/ /\ \/ Priority(w) = 4 /\ Finalize(w, escrow[w], "released", claimable[w])
          \/ Priority(w) = 5 /\ Finalize(w, escrow[w], "refunded", claimable[w])
       /\ UNCHANGED <<now, superseded, stake, limit, active, lastEscalation>>

Tick ==
    /\ now < MaxTime
    /\ now' = now + 1
    /\ UNCHANGED <<escrow, pending, superseded, held, claimable, withdrawn, stake, limit, active, lastEscalation>>

Next ==
    \/ Tick
    \/ \E r \in Resolvers, n \in CapacityChoices : SetResolverCapacity(r, n)
    \/ \E w \in Workflows :
        \/ \E custom \in CustomResolvers \cup {None}, auto \in AutoTimes : CreateEscrow(w, custom, auto)
        \/ \E c \in Parties :
             RaiseDispute(w, c) \/ Cancel(w, c) \/ WithdrawEscrow(w, c) \/ EscalateDispute(w, c)
        \/ Release(w)
        \/ \E a \in PartialAmounts : PartialRelease(w, a)
        \/ \E c \in Resolvers, isRelease \in BOOLEAN : ExecuteResolution(w, c, isRelease)
        \/ \E c \in Resolvers : ExecuteResolutionRefused(w, c) \/ RotateDisputeResolver(w, c)
        \/ ExecutePendingSettlement(w)
        \/ \E c \in Callers : ChallengeResolution(w, c)
        \/ AutoCancelDisputed(w)
        \/ AutomateTimedActions(w)

Spec == Init /\ [][Next]_vars

\* Time passes, the keeper runs, and someone sends auto-cancel-disputed, which
\* any caller may, when the dispute timeout has passed.
FairSpec ==
    /\ Spec /\ WF_vars(Tick)
    /\ \A w \in Workflows : WF_vars(AutomateTimedActions(w)) /\ WF_vars(AutoCancelDisputed(w))

-----------------------------------------------------------------------------
(* Properties                                                              *)

\* Once the arbitrator has refused (execute-resolution-refused) no ruling,
\* active, superseded or new, settles the escrow: it closes by a refund, and
\* only on the dispute timeout or the auto-cancel time.
RefusalIsFinal ==
    [][\A w \in Workflows :
         (Disputed(w) /\ escrow[w].refused /\ escrow'[w].state # "disputed") =>
            /\ escrow'[w].state = "refunded"
            /\ Elapsed(w, MaxDuration) \/ AutoCancelDueOnDisputed(w)]_vars

\* While a ruling is inside its appeal window nothing closes the dispute: not
\* the keeper, not a timeout, not a superseded ruling whose own window is over.
AppealWindowHonoured ==
    [][\A w \in Workflows :
         (Disputed(w) /\ HasPending(w) /\ escrow'[w].state # "disputed") =>
            Expired(pending[w].deadline)]_vars

Lifecycle ==
    INSTANCE EscrowLifecycle WITH
        state <- [w \in Workflows |-> escrow[w].state],
        paid <- [w \in Workflows |-> [p \in Parties |-> claimable[w][p] + withdrawn[w][p]]]

\* Claims and withdrawals together pay each escrow out exactly once, in full,
\* to the party its final state names, along the transition graph of types.clj.
RefinesLifecycle == Lifecycle!Spec

\* current-active is the number of open disputes assigned to the resolver,
\* through every raise, escalation, rotation, settlement and timeout, unless
\* its capacity was set again: set-resolver-capacity restarts the count at 0.
CapacityCounts ==
    \A r \in Resolvers :
        limit[r] = Capacity =>
            active[r] = Cardinality({w \in Workflows : Disputed(w) /\ escrow[w].resolver = r})

\* Every dispute is settled: by a ruling, by a recovered ruling or by timeout.
DisputesSettle ==
    \A w \in Workflows : Disputed(w) ~> escrow[w].state \in TerminalStates

-----------------------------------------------------------------------------
(* What a comment or docstring says and the code does not do               *)

\* "the most recently superseded decision across all levels is recovered"
\* (eligible-superseded-pending): the ruling to recover is the latest one.
RecoversLatestRuling ==
    \A w \in Workflows :
        (Disputed(w) /\ ~HasPending(w) /\ superseded[w] # <<>>) =>
            Direction(EligibleSuperseded(w).isRelease) = escrow[w].ruling

=============================================================================
