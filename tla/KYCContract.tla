---------------------------- MODULE KYCContract ----------------------------
(***************************************************************************)
(* What Repository promises about identity checks, whichever store is      *)
(* behind it: a verdict is written on the case and on its owner's record   *)
(* together, only a review writes either, and the last review counts.      *)
(* CreateMatch looks at the record and an admin at the case.               *)
(*                                                                         *)
(* Marketplace (the memory store, where a review may meet an owner who is  *)
(* gone) and PostgresStore (a transaction of two statements) implement it. *)
(***************************************************************************)
CONSTANTS Cases, Users

VARIABLES
    cases,      \* submissions, each with its owner and status
    standing    \* users and the verdict on their record

vars == <<cases, standing>>

Verdicts == {"verified", "rejected"}
Case(k, u, status) == [id |-> k, user |-> u, status |-> status]
Standing(u, verdict) == [user |-> u, verdict |-> verdict]

Init == cases = {} /\ \A s \in standing : s.verdict = "unverified"

Submit(k, u) ==
    /\ \A c \in cases : c.id # k
    /\ cases' = cases \cup {Case(k, u, "pending_review")}
    /\ UNCHANGED standing

\* An owner who is gone has no record.
Review(c, verdict) ==
    /\ c \in cases
    /\ cases' = (cases \ {c}) \cup {Case(c.id, c.user, verdict)}
    /\ standing' = {IF s.user = c.user THEN Standing(s.user, verdict) ELSE s : s \in standing}

Join(u) ==
    /\ \A s \in standing : s.user # u
    /\ standing' = standing \cup {Standing(u, "unverified")}
    /\ UNCHANGED cases

Leave(u) ==
    /\ standing' = {s \in standing : s.user # u}
    /\ UNCHANGED cases

Next ==
    \/ \E k \in Cases, u \in Users : Submit(k, u)
    \/ \E c \in cases, verdict \in Verdicts : Review(c, verdict)
    \/ \E u \in Users : Join(u) \/ Leave(u)

Spec == Init /\ [][Next]_vars
=============================================================================
