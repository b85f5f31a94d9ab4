--------------------------- MODULE EscrowContract ---------------------------
(***************************************************************************)
(* What the escrow service promises to a client and a traveler, without    *)
(* requests, references or a payment provider: a match has one escrow at a *)
(* time, an escrow moves along its lifecycle and is released only once its *)
(* delivery is on record, one decision about its money is ever taken, and  *)
(* the money moves at most once and only the way that was decided.         *)
(* EscrowPayments implements it; Deals builds on it.                       *)
(***************************************************************************)
EXTENDS Naturals

CONSTANTS Escrows, Matches, NoMatch

VARIABLES
    status,     \* how far each escrow got
    match,      \* the match each escrow was made for
    open,       \* escrows the parties still see
    delivered,  \* matches that were delivered
    moved       \* where the money of each escrow went

vars == <<status, match, open, delivered, moved>>

Init ==
    /\ status = [e \in Escrows |-> "absent"]
    /\ match = [e \in Escrows |-> NoMatch]
    /\ open = {}
    /\ delivered = {}
    /\ moved = [e \in Escrows |-> "nowhere"]

Create(e, m) ==
    /\ status[e] = "absent"
    /\ \A f \in open : match[f] # m
    /\ status' = [status EXCEPT ![e] = "pending_funding"]
    /\ match' = [match EXCEPT ![e] = m]
    /\ open' = open \cup {e}
    /\ UNCHANGED <<delivered, moved>>

Deliver(m) ==
    /\ delivered' = delivered \cup {m}
    /\ UNCHANGED <<status, match, open, moved>>

\* Only an open escrow changes status.
Advance(e, from, to) ==
    /\ e \in open
    /\ status[e] \in from
    /\ status' = [status EXCEPT ![e] = to]
    /\ UNCHANGED <<match, open, delivered, moved>>

Fund(e) == Advance(e, {"pending_funding"}, "funded")
Dispute(e) == Advance(e, {"funded"}, "disputed")
Release(e) == match[e] \in delivered /\ Advance(e, {"funded"}, "released")
Refund(e) == Advance(e, {"funded", "disputed"}, "refunded")

\* The decision outlives the row.
Delete(e) ==
    /\ e \in open
    /\ open' = open \ {e}
    /\ UNCHANGED <<status, match, delivered, moved>>

Move(e, decision, to) ==
    /\ status[e] = decision
    /\ moved[e] = "nowhere"
    /\ moved' = [moved EXCEPT ![e] = to]
    /\ UNCHANGED <<status, match, open, delivered>>

Pay(e) == Move(e, "released", "traveler")
Return(e) == Move(e, "refunded", "client")

Next ==
    \/ \E m \in Matches : Deliver(m)
    \/ \E e \in Escrows :
          \/ \E m \in Matches : Create(e, m)
          \/ Fund(e) \/ Dispute(e) \/ Release(e) \/ Refund(e) \/ Delete(e)
          \/ Pay(e) \/ Return(e)

Spec == Init /\ [][Next]_vars
=============================================================================
