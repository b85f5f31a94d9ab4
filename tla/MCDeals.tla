------------------------------ MODULE MCDeals ------------------------------
(* Deals of one client and one traveler. *)
EXTENDS Deals

CONSTANTS ann, tom

MCUsers == {ann, tom}
MCclient == [m \in Matches |-> ann]
MCtraveler == [m \in Matches |-> tom]

=============================================================================
