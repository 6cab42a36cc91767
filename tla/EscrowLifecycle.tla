--------------------------- MODULE EscrowLifecycle ---------------------------
(***************************************************************************)
(* What an escrow promises its two parties: it walks the transition graph  *)
(* of types.clj, pays its recipient in parts only while it is pending, and *)
(* on closing pays everything still owed to one party: the recipient of a  *)
(* released escrow, the sender of a refunded one.  Nothing is paid twice,  *)
(* and nothing is paid after it has closed.                                *)
(***************************************************************************)
EXTENDS Naturals

CONSTANTS Workflows, Sender, Recipient, Amount

VARIABLES
    state,  \* state[w]: the EscrowState of workflow w
    paid    \* paid[w][p]: what workflow w has credited to party p so far

vars == <<state, paid>>

Parties == {Sender, Recipient}

\* allowed-transitions, without :resolved, which no operation enters
AllowedTransitions ==
    [none |-> {"pending"}, pending |-> {"disputed", "released", "refunded"},
     disputed |-> {"released", "refunded"}, released |-> {}, refunded |-> {}]

EscrowStates == DOMAIN AllowedTransitions
TerminalStates == {s \in EscrowStates : AllowedTransitions[s] = {}}

Payee(direction) == IF direction = "released" THEN Recipient ELSE Sender
Owed(w) == Amount - (paid[w][Sender] + paid[w][Recipient])

Init ==
    /\ state = [w \in Workflows |-> "none"]
    /\ paid = [w \in Workflows |-> [p \in Parties |-> 0]]

Advance(w, s) ==
    /\ s \in AllowedTransitions[state[w]] \ TerminalStates
    /\ state' = [state EXCEPT ![w] = s]
    /\ UNCHANGED paid

PayPart(w, a) ==
    /\ state[w] = "pending" /\ a < Owed(w)
    /\ paid' = [paid EXCEPT ![w][Recipient] = @ + a]
    /\ UNCHANGED state

Close(w, s) ==
    /\ s \in AllowedTransitions[state[w]] \cap TerminalStates
    /\ state' = [state EXCEPT ![w] = s]
    /\ paid' = [paid EXCEPT ![w][Payee(s)] = @ + Owed(w)]

Next == \E w \in Workflows :
            \/ \E s \in EscrowStates : Advance(w, s) \/ Close(w, s)
            \/ \E a \in 1..Amount : PayPart(w, a)

Spec == Init /\ [][Next]_vars
=============================================================================
