--------------------------- MODULE PostgresStore ---------------------------
(***************************************************************************)
(* The repository over Postgres, statement by statement.  A statement is   *)
(* atomic and sees what is committed (READ COMMITTED); what a transaction  *)
(* has inserted is seen by nobody else, but another insert of a unique     *)
(* value waits for its end, and so does a DELETE of a row it refers to.    *)
(* Two operations are transactions, SocialLogin and ReviewKYCVerification; *)
(* their last UPDATE is one step with the COMMIT.  The others commit each  *)
(* statement, also a check and the insert that it is for.  A restart ends  *)
(* what was under way and keeps the rows.                                  *)
(*                                                                         *)
(* Ids are UUIDs: none is given twice.  The making of a payout account is  *)
(* here too, as it outlives the process on both sides.                     *)
(***************************************************************************)
EXTENDS Naturals

CONSTANTS
    Ids, Emails, Identities,    \* of users; identities at Google or Apple
    AddressesOf,                \* the addresses a sign-in with an identity may name
    KYCs, Listings, Requests, Packages, Workers,
    MaxRestarts,
    NoAccount

\* Google's answer has the address.  Apple's token may leave it out, and then the
\* client names one in its request, another one in another request if it likes.
ASSUME AddressesAssumption == AddressesOf \in [Identities -> SUBSET Emails]
ASSUME NoAccountAssumption == NoAccount \notin Ids
ASSUME BoundAssumption == MaxRestarts \in Nat

VARIABLES
    users, issued,      \* rows by id; ids ever given
    social,             \* social_accounts: identities and their users
    kycs,
    listings, requests, packages, matches,
    accounts,           \* connected accounts at Stripe: idempotency key and user
    workers, restarts

catalogue == <<listings, requests, packages, matches>>
vars == <<users, issued, social, kycs, catalogue, accounts, workers, restarts>>

-----------------------------------------------------------------------------
(* Data *)

Partial(S, T) == UNION {[D -> T] : D \in SUBSET S}
Insert(f, k, row) == [j \in DOMAIN f \cup {k} |-> IF j = k THEN row ELSE f[j]]
Delete(f, keys) == [j \in DOMAIN f \ keys |-> f[j]]

\* An account is named by the key it was made with.
Accounts == [key : Ids, user : Ids]

UserRows == [email : Emails, kyc : {"unverified", "verified", "rejected"},
             account : Ids \cup {NoAccount}]
KYCRows == [user : Ids, status : {"pending_review", "verified", "rejected"}]
PackageRows == [request : Requests,
                status : {"pending_review", "approved", "rejected", "rejected_high_risk"}]

\* UNIQUE in the migrations, table and columns; primary keys are left out.
UniqueIndexes ==
    { <<"users", {"email"}>>,
      <<"social_accounts", {"provider", "provider_user_id"}>>,
      <<"payment_events", {"provider", "provider_event_id"}>>,
      <<"user_reviews", {"match_id", "author_id"}>> }

\* pc names the next statement.  created and linked: what the transaction of a
\* social sign-in has inserted and not yet committed.
SignIns == [pc : {"link", "touch"}, identity : Identities, email : Emails, user : Ids,
            created : BOOLEAN, linked : BOOLEAN]
WorkerStates ==
    [pc : {"idle"}]
    \cup [pc : {"email", "user"}, identity : Identities, email : Emails]
    \cup SignIns
    \cup [pc : {"kyc", "ensure"}, user : Ids]
    \cup [pc : {"publish"}, row : KYCs, verdict : {"verified", "rejected"}]
    \cup [pc : {"record"}, user : Ids, account : Ids]
    \cup [pc : {"package"}, request : Requests, status : {"pending_review", "rejected_high_risk"}]
    \cup [pc : {"approved", "match"}, listing : Listings, request : Requests]
Idle == [pc |-> "idle"]

Init ==
    /\ users = <<>> /\ issued = {}
    /\ social = <<>>
    /\ kycs = <<>>
    /\ listings = <<>> /\ requests = <<>> /\ packages = <<>> /\ matches = {}
    /\ accounts = {}
    /\ workers = [w \in Workers |-> Idle]
    /\ restarts = 0

Goto(w, task) == workers' = [workers EXCEPT ![w] = task]
Finish(w) == Goto(w, Idle)

-----------------------------------------------------------------------------
(* Users and social accounts *)

NewUser(e) == [email |-> e, kyc |-> "unverified", account |-> NoAccount]
WithEmail(e) == {u \in DOMAIN users : users[u].email = e}

\* Transactions that have inserted a user with this address, or this link.
Creating(e) == {w \in Workers : workers[w].pc \in {"link", "touch"}
                                /\ workers[w].created /\ workers[w].email = e}
Linking(i) == {w \in Workers : workers[w].pc = "touch"
                               /\ workers[w].linked /\ workers[w].identity = i}

CreateUser(u, e) ==
    /\ u \notin issued
    /\ WithEmail(e) = {} /\ Creating(e) = {}
    /\ users' = Insert(users, u, NewUser(e))
    /\ issued' = issued \cup {u}
    /\ UNCHANGED <<social, kycs, catalogue, accounts, workers, restarts>>

\* Rows of these tables keep their user; links go with it (ON DELETE CASCADE).
Referenced(u) ==
    \/ \E k \in DOMAIN kycs : kycs[k].user = u
    \/ \E l \in DOMAIN listings : listings[l] = u
    \/ \E r \in DOMAIN requests : requests[r] = u

\* Mutant: no ON DELETE CASCADE.
LinksOfNone(u) == {}

LinksOf(u) == {i \in DOMAIN social : social[i] = u}

DeleteUserByID(u) ==
    /\ u \in DOMAIN users /\ ~Referenced(u)
    /\ \A i \in Identities : \A w \in Linking(i) : workers[w].user # u
    /\ users' = Delete(users, {u})
    /\ social' = Delete(social, LinksOf(u))
    /\ UNCHANGED <<issued, kycs, catalogue, accounts, workers, restarts>>

SelectLink(w, i, e) ==
    /\ workers[w].pc = "idle"
    /\ Goto(w, IF i \in DOMAIN social
               THEN [pc |-> "touch", identity |-> i, email |-> e, user |-> social[i],
                     created |-> FALSE, linked |-> FALSE]
               ELSE [pc |-> "email", identity |-> i, email |-> e])
    /\ UNCHANGED <<users, issued, social, kycs, catalogue, accounts, restarts>>

Linkable(w, u, created) ==
    Goto(w, [pc |-> "link", identity |-> workers[w].identity, email |-> workers[w].email,
             user |-> u, created |-> created, linked |-> FALSE])

SelectEmail(w) ==
    LET found == WithEmail(workers[w].email) IN
    /\ workers[w].pc = "email"
    /\ \/ \E u \in found : Linkable(w, u, FALSE)
       \/ found = {} /\ Goto(w, [workers[w] EXCEPT !.pc = "user"])
    /\ UNCHANGED <<users, issued, social, kycs, catalogue, accounts, restarts>>

\* Mutant: users.email is not unique.
EmailTakenByNone(e) == FALSE

EmailTaken(e) == WithEmail(e) # {}

InsertUser(w) ==
    LET e == workers[w].email IN
    /\ workers[w].pc = "user"
    /\ Creating(e) = {}
    /\ \/ EmailTaken(e) /\ Finish(w) /\ UNCHANGED issued
       \/ /\ ~EmailTaken(e)
          /\ \E u \in Ids \ issued : Linkable(w, u, TRUE) /\ issued' = issued \cup {u}
    /\ UNCHANGED <<users, social, kycs, catalogue, accounts, restarts>>

\* ON CONFLICT DO NOTHING, whoever the identity is linked to by then; the user
\* must still be there when a link is inserted.
InsertLink(w) ==
    LET t == workers[w] IN
    /\ t.pc = "link"
    /\ Linking(t.identity) = {}
    /\ \/ t.identity \in DOMAIN social /\ Goto(w, [t EXCEPT !.pc = "touch"])
       \/ /\ t.identity \notin DOMAIN social
          /\ t.created \/ t.user \in DOMAIN users
          /\ Goto(w, [t EXCEPT !.pc = "touch", !.linked = TRUE])
       \/ /\ t.identity \notin DOMAIN social /\ ~t.created /\ t.user \notin DOMAIN users
          /\ Finish(w)
    /\ UNCHANGED <<users, issued, social, kycs, catalogue, accounts, restarts>>

\* A user that is gone rolls everything back; there is nothing of it then.
TouchUser(w) ==
    LET t == workers[w] IN
    /\ t.pc = "touch"
    /\ users' = IF t.created THEN Insert(users, t.user, NewUser(t.email)) ELSE users
    /\ social' = IF t.linked THEN Insert(social, t.identity, t.user) ELSE social
    /\ Finish(w)
    /\ UNCHANGED <<issued, kycs, catalogue, accounts, restarts>>

-----------------------------------------------------------------------------
(* KYC *)

Submitted(u) == \E k \in DOMAIN kycs :
    kycs[k].user = u /\ kycs[k].status \in {"pending_review", "verified"}

CheckKYC(w, u) ==
    /\ workers[w].pc = "idle" /\ ~Submitted(u)
    /\ Goto(w, [pc |-> "kyc", user |-> u])
    /\ UNCHANGED <<users, issued, social, kycs, catalogue, accounts, restarts>>

InsertKYC(w, k) ==
    /\ workers[w].pc = "kyc" /\ k \notin DOMAIN kycs
    /\ kycs' = IF workers[w].user \in DOMAIN users
               THEN Insert(kycs, k, [user |-> workers[w].user, status |-> "pending_review"])
               ELSE kycs
    /\ Finish(w)
    /\ UNCHANGED <<users, issued, social, catalogue, accounts, restarts>>

\* Mutant: the row is committed before the user's record is written.
UpdateKYCAtOnce(k, verdict) == kycs' = [kycs EXCEPT ![k].status = verdict]

UpdateKYC(k, verdict) == UNCHANGED kycs

\* The UPDATE of the row holds its lock until the end of the transaction.
ReviewKYCVerification(w, k, verdict) ==
    /\ workers[w].pc = "idle" /\ k \in DOMAIN kycs
    /\ \A v \in Workers : workers[v].pc = "publish" => workers[v].row # k
    /\ UpdateKYC(k, verdict)
    /\ Goto(w, [pc |-> "publish", row |-> k, verdict |-> verdict])
    /\ UNCHANGED <<users, issued, social, catalogue, accounts, restarts>>

PublishVerdict(w) ==
    LET t == workers[w] IN
    /\ t.pc = "publish"
    /\ kycs' = [kycs EXCEPT ![t.row].status = t.verdict]
    /\ users' = [users EXCEPT ![kycs[t.row].user].kyc = t.verdict]
    /\ Finish(w)
    /\ UNCHANGED <<issued, social, catalogue, accounts, restarts>>

-----------------------------------------------------------------------------
(* Payout accounts *)

\* createPayoutOnboarding goes on with an account that is recorded to a link, of
\* which nothing is kept.
StartOnboarding(w, u) ==
    /\ workers[w].pc = "idle"
    /\ u \in DOMAIN users /\ users[u].account = NoAccount
    /\ Goto(w, [pc |-> "ensure", user |-> u])
    /\ UNCHANGED <<users, issued, social, kycs, catalogue, accounts, restarts>>

\* Mutant: a retry has a key of its own.
AccountKeyFresh(u) ==
    IF \E a \in accounts : a.key = u THEN CHOOSE v \in Ids : v # u ELSE u

AccountKey(u) == u

\* Stripe makes one account per key and answers it to every later call; a call
\* may be refused, and its answer may be lost.
EnsurePayoutAccount(w) ==
    LET u == workers[w].user
        a == [key |-> AccountKey(u), user |-> u] IN
    /\ workers[w].pc = "ensure"
    /\ \/ /\ accounts' = accounts \cup {a}
          /\ Goto(w, [pc |-> "record", user |-> u, account |-> a.key])
       \/ accounts' \in {accounts, accounts \cup {a}} /\ Finish(w)
    /\ UNCHANGED <<users, issued, social, kycs, catalogue, restarts>>

SetUserPayoutAccount(w) ==
    LET t == workers[w] IN
    /\ t.pc = "record"
    /\ users' = IF t.user \in DOMAIN users
                THEN [users EXCEPT ![t.user].account = t.account] ELSE users
    /\ Finish(w)
    /\ UNCHANGED <<issued, social, kycs, catalogue, accounts, restarts>>

-----------------------------------------------------------------------------
(* Listings, requests, packages and matches *)

CreateTravelerListing(l, u) ==
    /\ l \notin DOMAIN listings /\ u \in DOMAIN users
    /\ listings' = Insert(listings, l, u)
    /\ UNCHANGED <<users, issued, social, kycs, requests, packages, matches, accounts, workers,
                   restarts>>

CreateDeliveryRequest(r, u) ==
    /\ r \notin DOMAIN requests /\ u \in DOMAIN users
    /\ requests' = Insert(requests, r, u)
    /\ UNCHANGED <<users, issued, social, kycs, listings, packages, matches, accounts, workers,
                   restarts>>

Screened(r) == \E p \in DOMAIN packages :
    packages[p].request = r /\ packages[p].status \in {"pending_review", "approved"}
Approved(r) == \E p \in DOMAIN packages :
    packages[p].request = r /\ packages[p].status = "approved"

\* No package is approved without a review here, unlike in the memory store.
CheckPackage(w, r, status) ==
    /\ workers[w].pc = "idle" /\ r \in DOMAIN requests /\ ~Screened(r)
    /\ Goto(w, [pc |-> "package", request |-> r, status |-> status])
    /\ UNCHANGED <<users, issued, social, kycs, catalogue, accounts, restarts>>

InsertPackage(w, p) ==
    LET t == workers[w] IN
    /\ t.pc = "package" /\ p \notin DOMAIN packages
    /\ packages' = Insert(packages, p, [request |-> t.request, status |-> t.status])
    /\ Finish(w)
    /\ UNCHANGED <<users, issued, social, kycs, listings, requests, matches, accounts, restarts>>

ReviewPackageVerification(p, verdict) ==
    /\ p \in DOMAIN packages
    /\ packages' = [packages EXCEPT ![p].status = verdict]
    /\ UNCHANGED <<users, issued, social, kycs, listings, requests, matches, accounts, workers,
                   restarts>>

\* Listings and requests never change, so that their SELECTs are one step with
\* that of the traveler.  A pair whose weights do not fit ends here.
CheckTraveler(w, l, r) ==
    /\ workers[w].pc = "idle"
    /\ l \in DOMAIN listings /\ r \in DOMAIN requests
    /\ users[listings[l]].kyc = "verified"
    /\ Goto(w, [pc |-> "approved", listing |-> l, request |-> r])
    /\ UNCHANGED <<users, issued, social, kycs, catalogue, accounts, restarts>>

CheckApproved(w) ==
    /\ workers[w].pc = "approved"
    /\ IF Approved(workers[w].request) THEN Goto(w, [workers[w] EXCEPT !.pc = "match"])
                                       ELSE Finish(w)
    /\ UNCHANGED <<users, issued, social, kycs, catalogue, accounts, restarts>>

\* ON CONFLICT (columns) is an error without a unique index of just these.
InsertMatch(w) ==
    LET t == workers[w] IN
    /\ t.pc = "match"
    /\ matches' = IF <<"matches", {"listing_id", "request_id"}>> \in UniqueIndexes
                  THEN matches \cup {[listing |-> t.listing, request |-> t.request]}
                  ELSE matches
    /\ Finish(w)
    /\ UNCHANGED <<users, issued, social, kycs, listings, requests, packages, accounts, restarts>>

-----------------------------------------------------------------------------
(* Specification *)

Restart ==
    /\ restarts < MaxRestarts
    /\ restarts' = restarts + 1
    /\ workers' = [w \in Workers |-> Idle]
    /\ UNCHANGED <<users, issued, social, kycs, catalogue, accounts>>

UserSteps ==
    \/ \E u \in Ids, e \in Emails : CreateUser(u, e)
    \/ \E u \in Ids : DeleteUserByID(u)
    \/ \E w \in Workers : \/ \E i \in Identities : \E e \in AddressesOf[i] : SelectLink(w, i, e)
                          \/ SelectEmail(w) \/ InsertUser(w) \/ InsertLink(w) \/ TouchUser(w)

KYCSteps == \E w \in Workers :
    \/ \E u \in Ids : CheckKYC(w, u)
    \/ \E k \in KYCs : InsertKYC(w, k)
    \/ \E k \in KYCs, verdict \in {"verified", "rejected"} : ReviewKYCVerification(w, k, verdict)
    \/ PublishVerdict(w)

PayoutSteps == \E w \in Workers :
    \/ \E u \in Ids : StartOnboarding(w, u)
    \/ EnsurePayoutAccount(w) \/ SetUserPayoutAccount(w)

MatchSteps ==
    \/ \E l \in Listings, u \in Ids : CreateTravelerListing(l, u)
    \/ \E r \in Requests, u \in Ids : CreateDeliveryRequest(r, u)
    \/ \E p \in Packages, verdict \in {"approved", "rejected", "rejected_high_risk"} :
          ReviewPackageVerification(p, verdict)
    \/ \E w \in Workers :
          \/ \E r \in Requests, status \in {"pending_review", "rejected_high_risk"} :
                CheckPackage(w, r, status)
          \/ \E p \in Packages : InsertPackage(w, p)
          \/ \E l \in Listings, r \in Requests : CheckTraveler(w, l, r)
          \/ CheckApproved(w) \/ InsertMatch(w)

Next == UserSteps \/ KYCSteps \/ PayoutSteps \/ MatchSteps \/ Restart

Spec == Init /\ [][Next]_vars

-----------------------------------------------------------------------------
(* Properties *)

TypeOK ==
    /\ users \in Partial(Ids, UserRows)
    /\ issued \subseteq Ids /\ DOMAIN users \subseteq issued
    /\ social \in Partial(Identities, DOMAIN users)
    /\ kycs \in Partial(KYCs, KYCRows)
    /\ listings \in Partial(Listings, DOMAIN users)
    /\ requests \in Partial(Requests, DOMAIN users)
    /\ packages \in Partial(Packages, PackageRows)
    /\ matches \subseteq [listing : Listings, request : Requests]
    /\ accounts \subseteq Accounts
    /\ workers \in [Workers -> WorkerStates]
    /\ restarts \in Nat

\* Whatever sign-ins, registrations and deletions meet it, a social sign-in that is
\* answered with a user has this user linked to its identity, if the identity has one
\* address.  If it may name several, a sign-in that another one overtook with another
\* address links nothing, and its user is that of the address it named.
SignedInAsNamed ==
    [][\A w \in Workers :
          LET i == workers[w].identity
              u == workers[w].user
              linked == i \in DOMAIN social' /\ social'[i] = u
          IN  workers[w].pc = "touch" /\ workers'[w].pc = "idle" /\ restarts' = restarts
              /\ u \in DOMAIN users'
              => /\ linked \/ users'[u].email = workers[w].email
                 /\ AddressesOf[i] = {workers[w].email} => linked]_vars

\* The verdict on a user's record is that of one of the user's rows, also when
\* reviews overlap or the process stops in the middle of one.
VerdictsAgree ==
    \A u \in DOMAIN users : users[u].kyc # "unverified" =>
        \E k \in DOMAIN kycs : kycs[k] = [user |-> u, status |-> users[u].kyc]

\* The submissions and the records of users, as KYCContract has them.
Vetting == INSTANCE KYCContract WITH
    Cases <- KYCs, Users <- Ids,
    cases <- {[id |-> k, user |-> kycs[k].user, status |-> kycs[k].status] : k \in DOMAIN kycs},
    standing <- {[user |-> u, verdict |-> users[u].kyc] : u \in DOMAIN users}

\* A review is two statements, and yet a verdict is on the case and on its owner's
\* record at the same time, whatever other reviews and restarts do in between.
KeepsVerdicts == Vetting!Spec

\* However often an onboarding is repeated, lost or cut off, a user has one
\* connected account, and only this one is ever recorded.
OneAccountPerUser ==
    /\ \A a, b \in accounts : a.user = b.user => a = b
    /\ \A u \in DOMAIN users : users[u].account # NoAccount =>
          [key |-> users[u].account, user |-> u] \in accounts

\* The accounts that are committed, as AccountsContract has them.  An id is lost
\* when the transaction that drew it ends without its user.
Drawn(u) == \E w \in Workers :
    workers[w].pc \in {"link", "touch"} /\ workers[w].created /\ workers[w].user = u

Contract == INSTANCE AccountsContract WITH
    registered <- {[id |-> u, email |-> users[u].email] : u \in DOMAIN users},
    links <- {[identity |-> i, id |-> social[i]] : i \in DOMAIN social},
    retired <- {u \in issued : u \notin DOMAIN users /\ ~Drawn(u)}

\* Five statements make a social sign-in, and yet the tables keep the contract of
\* accounts, as if each operation were one step, a restart in its middle included.
KeepsAccounts == Contract!Spec

\* A match whose checks all passed is in the table when its insert is done.
CheckedMatchIsMade ==
    [][\A w \in Workers :
          workers[w].pc = "match" /\ workers'[w].pc = "idle" /\ restarts' = restarts
          => [listing |-> workers[w].listing, request |-> workers[w].request] \in matches']_vars

-----------------------------------------------------------------------------
(* The inductive invariant behind the safety properties *)

\* Addresses are unique, those of open transactions included, and a link is to a
\* user with an address that its identity may name.
UsersOK ==
    /\ \A u, v \in DOMAIN users : users[u].email = users[v].email => u = v
    /\ \A i \in DOMAIN social : users[social[i]].email \in AddressesOf[i]
    /\ \A k \in DOMAIN kycs : kycs[k].user \in DOMAIN users

\* What a transaction has inserted nobody else has; what it found may be gone, but
\* is nothing else: ids are not given twice.
Linked(t) == t.identity \in DOMAIN social /\ social[t.identity] = t.user
SignInOK(w) ==
    LET t == workers[w] IN
    /\ t.pc \in {"email", "user", "link", "touch"} => t.email \in AddressesOf[t.identity]
    /\ t.pc \in {"link", "touch"} =>
        /\ t.user \in issued
        /\ t.created => t.user \notin DOMAIN users /\ WithEmail(t.email) = {}
        /\ t.pc = "link" => ~t.linked
        /\ t.linked => t.identity \notin DOMAIN social /\ (t.created \/ t.user \in DOMAIN users)
        /\ t.user \in DOMAIN users => Linked(t) \/ users[t.user].email = t.email
        /\ t.pc = "touch" /\ ~t.linked /\ AddressesOf[t.identity] = {t.email} =>
              /\ ~t.created
              /\ t.user \in DOMAIN users => Linked(t)

Apart(w, v) ==
    LET s == workers[w] t == workers[v] IN
    s.pc \in {"link", "touch"} /\ t.pc \in {"link", "touch"} =>
        /\ s.created /\ t.created => s.email # t.email
        /\ s.created => s.user # t.user
        /\ s.linked /\ t.linked => s.identity # t.identity

TasksOK ==
    \A w \in Workers :
        /\ SignInOK(w)
        /\ \A v \in Workers \ {w} : Apart(w, v)
        /\ workers[w].pc = "publish" => workers[w].row \in DOMAIN kycs
        /\ workers[w].pc = "record" =>
              [key |-> workers[w].account, user |-> workers[w].user] \in accounts

AccountsOK == \A a \in accounts : a.key = a.user

IInv == TypeOK /\ UsersOK /\ TasksOK /\ AccountsOK /\ VerdictsAgree /\ OneAccountPerUser

=============================================================================
