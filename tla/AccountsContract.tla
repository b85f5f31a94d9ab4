-------------------------- MODULE AccountsContract --------------------------
(***************************************************************************)
(* What Repository promises about accounts, whichever store is behind it:  *)
(* an address has one account, an identity at Google or Apple leads to one *)
(* account at most, an account is deleted together with its links, and an  *)
(* id is never given to a second account.  Each operation is one step.     *)
(*                                                                         *)
(* SignIn (the maps of MemoryStore) and PostgresStore (transactions, open  *)
(* for as long as they need and lost in a restart) implement it.           *)
(***************************************************************************)
CONSTANTS Ids, Emails, Identities

VARIABLES
    registered,     \* the accounts, each with its id and address
    links,          \* identities and the accounts they lead to
    retired         \* ids that no account will have

vars == <<registered, links, retired>>

Account(u, e) == [id |-> u, email |-> e]
Registered(u) == \E a \in registered : a.id = u

Init == registered = {} /\ links = {} /\ retired = {}

Enter(u, e) ==
    /\ u \notin retired /\ ~Registered(u)
    /\ \A a \in registered : a.email # e
    /\ registered' = registered \cup {Account(u, e)}

CreateUser(u, e) == Enter(u, e) /\ UNCHANGED <<links, retired>>

\* The first sign-in with an identity, to the account with the address it names or
\* to a new one.  A later one changes nothing, or is a CreateUser when it overlapped
\* with the first and names another address.
SocialLogin(i, u, e) ==
    /\ \A l \in links : l.identity # i
    /\ \/ Account(u, e) \in registered /\ UNCHANGED registered
       \/ Enter(u, e)
    /\ links' = links \cup {[identity |-> i, id |-> u]}
    /\ UNCHANGED retired

DeleteUserByID(u) ==
    /\ Registered(u)
    /\ registered' = {a \in registered : a.id # u}
    /\ links' = {l \in links : l.id # u}
    /\ retired' = retired \cup {u}

\* Ids that were drawn for accounts which did not come about.
Waste(ids) ==
    /\ \A u \in ids : ~Registered(u)
    /\ retired' = retired \cup ids
    /\ UNCHANGED <<registered, links>>

Next ==
    \/ \E u \in Ids, e \in Emails :
          \/ CreateUser(u, e)
          \/ \E i \in Identities : SocialLogin(i, u, e)
    \/ \E u \in Ids : DeleteUserByID(u)
    \/ \E ids \in SUBSET Ids : Waste(ids)

Spec == Init /\ [][Next]_vars
=============================================================================
