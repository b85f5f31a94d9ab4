-------------------------- MODULE MCEscrowPayments --------------------------
(* Instances of EscrowPayments for TLC: one traveler owns every listing.     *)
EXTENDS EscrowPayments, TLC

MCTravelerOf == [m \in Matches |-> CHOOSE t \in Travelers : TRUE]

Symmetry == Permutations(Workers) \cup Permutations(Keys)

=============================================================================
