-------------------------- MODULE MCPostgresStore --------------------------
(* Instances of PostgresStore for TLC: one identity has one address, of     *)
(* another the client names either.                                         *)
EXTENDS PostgresStore, TLC

CONSTANTS e1, e2, i1, i2

MCAddressesOf == [i \in Identities |-> IF i = i1 THEN {e1} ELSE {e1, e2}]

\* What users submit, publish and are paid on does not look at addresses: it is
\* explored with one address and one identity, and both with users alone.
OneAddress ==
    /\ DOMAIN social \subseteq {i1}
    /\ \A u \in DOMAIN users : users[u].email = e1
    /\ \A w \in Workers : "identity" \in DOMAIN workers[w] => workers[w].identity = i1
UsersAlone == kycs = <<>> /\ listings = <<>> /\ requests = <<>> /\ accounts = {}
Focus == OneAddress \/ UsersAlone

Symmetric == Permutations(Ids) \cup Permutations(Workers) \cup Permutations(KYCs)

=============================================================================
