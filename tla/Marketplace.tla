---------------------------- MODULE Marketplace ----------------------------
(***************************************************************************)
(* How a delivery comes about: travelers pass KYC and list trips, clients  *)
(* post requests and have their package verified, admins review both and   *)
(* the parties are notified, and a match joins a listing and a request.    *)
(*                                                                         *)
(* Most of these requests are one call of MemoryStore, hence one step.     *)
(* Three handlers make two: a delivery request lists the client's requests *)
(* and then inserts a new one, and the two reviews update the row and then *)
(* insert a notification.  Workers are the goroutines serving those; any   *)
(* other request may come between.  Calls the store refuses change nothing *)
(* and have no action.  Users are known by the id their token carries,     *)
(* which no handler compares with the users that still exist.              *)
(***************************************************************************)
EXTENDS Naturals, Sequences, FiniteSets

CONSTANTS
    Users, Listings, Requests, KYCs, Packages, Matches,  \* ids to be issued
    Workers,
    Details,        \* what a client may ask for
    Capacities,     \* weights a traveler may offer
    RiskScores,     \* scores a package may be given
    MaxNotifications,
    NoUser, NoSubject

\* Weight in kilograms, value in dollars.
ASSUME DetailsAssumption ==
    Details \subseteq [name : STRING, weight : Nat \ {0}, value : Nat,
                       suspicious : BOOLEAN, usPhone : BOOLEAN]

ASSUME NumbersAssumption ==
    /\ Capacities \subseteq Nat \ {0}
    /\ RiskScores \subseteq Nat
    /\ MaxNotifications \in Nat

ASSUME NamesAssumption ==
    /\ NoUser \notin Users
    /\ KYCs \cap Packages = {}

VARIABLES
    users,          \* ids in usersByID
    kycStatus,      \* KYCStatus of each user record
    kycs, packages, \* verification rows by id, as in the maps of the store
    listings, requests, matches,
    notifications,  \* in the order of their creation
    workers

vars == <<users, kycStatus, kycs, packages, listings, requests, matches, notifications, workers>>
trips == <<listings, requests, matches>>

-----------------------------------------------------------------------------
(* Data *)

KYCRows == [user : Users, status : {"pending_review", "verified", "rejected"}]
PackageRows == [request : Requests,
                status : {"pending_review", "approved", "rejected", "rejected_high_risk"}]
ListingRows == [traveler : Users, capacity : Capacities]
RequestRows == [client : Users, details : Details, status : {"open", "pending_review"}]
MatchRows == [listing : Listings, request : Requests]

Unused(table, ids) == ids \ DOMAIN table
Insert(table, id, row) ==
    [i \in DOMAIN table \cup {id} |-> IF i = id THEN row ELSE table[i]]

Verdicts == {"verified", "approved", "rejected", "rejected_high_risk"}
Subjects == KYCs \cup Packages
Notifications == [user : Users, subject : Subjects, status : Verdicts, read : BOOLEAN]

WorkerStates ==
    [pc : {"idle"}, user : {NoUser}, subject : {NoSubject}, status : {""}]
    \cup [pc : {"insert"}, user : Users, subject : Details, status : {"open", "pending_review"}]
    \cup [pc : {"notify"}, user : Users, subject : Subjects, status : Verdicts]
Idle == [pc |-> "idle", user |-> NoUser, subject |-> NoSubject, status |-> ""]

Task(pc, user, subject, status) ==
    [pc |-> pc, user |-> user, subject |-> subject, status |-> status]

Init ==
    /\ users = Users
    /\ kycStatus = [u \in Users \cup {NoUser} |-> "unverified"]
    /\ kycs = <<>> /\ packages = <<>>
    /\ listings = <<>> /\ requests = <<>> /\ matches = <<>>
    /\ notifications = <<>>
    /\ workers = [w \in Workers |-> Idle]

-----------------------------------------------------------------------------
(* EvaluateDeliveryRequestRisk *)

Points(condition, points) == IF condition THEN points ELSE 0

\* previous: how many requests the client had; recent: two of the last day.
RiskScore(d, previous, recent) ==
    Points(d.value > 3000, 35) + Points(d.weight > 20, 10) + Points(d.suspicious, 25)
    + Points(d.usPhone /\ d.value > 2000, 15)
    + Points(previous >= 3, 15) + Points(recent, 10)

Screened(score) ==
    CASE score >= 70 -> "rejected_high_risk"
      [] score >= 40 /\ score < 70 -> "pending_review"
      [] OTHER -> "open"

-----------------------------------------------------------------------------
(* KYC *)

\* Mutant: a submission that waits for its review does not count.
KYCAllowedWhilePending(u) ==
    \A k \in DOMAIN kycs : kycs[k].user = u => kycs[k].status # "verified"

KYCAllowed(u) ==
    \A k \in DOMAIN kycs :
        kycs[k].user = u => kycs[k].status \notin {"pending_review", "verified"}

CreateKYCVerification(k, u) ==
    /\ k \in Unused(kycs, KYCs)
    /\ KYCAllowed(u)
    /\ kycs' = Insert(kycs, k, [user |-> u, status |-> "pending_review"])
    /\ UNCHANGED <<users, kycStatus, packages, trips, notifications, workers>>

\* A review may be under way for every notification there is room for.
Room == Len(notifications) + Cardinality({w \in Workers : workers[w].pc = "notify"})
            < MaxNotifications
Begin(w, task) == workers[w].pc = "idle" /\ workers' = [workers EXCEPT ![w] = task]
Finish(w) == workers' = [workers EXCEPT ![w] = Idle]

\* Mutant: only a positive verdict reaches the user's record.
ReviewKYCVerificationOneWay(w, k, verdict) ==
    LET owner == kycs[k].user IN
    /\ k \in DOMAIN kycs /\ Room
    /\ kycs' = [kycs EXCEPT ![k].status = verdict]
    /\ kycStatus' = IF verdict = "verified" THEN [kycStatus EXCEPT ![owner] = verdict]
                    ELSE kycStatus
    /\ Begin(w, Task("notify", owner, k, verdict))
    /\ UNCHANGED <<users, packages, trips, notifications>>

\* A row may be reviewed again.  A user who is gone is read as an empty record,
\* and the record is stored again, under its empty id.
ReviewKYCVerification(w, k, verdict) ==
    LET owner == kycs[k].user
        record == IF owner \in users THEN owner ELSE NoUser
    IN
    /\ k \in DOMAIN kycs /\ Room
    /\ kycs' = [kycs EXCEPT ![k].status = verdict]
    /\ kycStatus' = [kycStatus EXCEPT ![record] = verdict]
    /\ users' = users \cup {record}
    /\ Begin(w, Task("notify", owner, k, verdict))
    /\ UNCHANGED <<packages, trips, notifications>>

-----------------------------------------------------------------------------
(* Package verification *)

PackageAllowed(r) ==
    \A p \in DOMAIN packages :
        packages[p].request = r => packages[p].status \notin {"pending_review", "approved"}

\* proven: the request's challenge token came with a photo.
Assessed(risk, proven) ==
    CASE risk >= 70 -> "rejected_high_risk"
      [] risk < 70 /\ proven -> "approved"
      [] OTHER -> "pending_review"

CreatePackageVerification(p, r, risk, proven) ==
    /\ p \in Unused(packages, Packages)
    /\ r \in DOMAIN requests
    /\ PackageAllowed(r)
    /\ packages' = Insert(packages, p, [request |-> r, status |-> Assessed(risk, proven)])
    /\ UNCHANGED <<users, kycStatus, kycs, trips, notifications, workers>>

ReviewPackageVerification(w, p, verdict) ==
    /\ p \in DOMAIN packages /\ Room
    /\ packages' = [packages EXCEPT ![p].status = verdict]
    /\ Begin(w, Task("notify", requests[packages[p].request].client, p, verdict))
    /\ UNCHANGED <<users, kycStatus, kycs, trips, notifications>>

-----------------------------------------------------------------------------
(* Notifications *)

\* Mutant: only good news are told.
CreateNotificationGood(w) ==
    LET t == workers[w] IN
    /\ t.pc = "notify"
    /\ notifications' =
           IF t.user \in users /\ t.status \in {"verified", "approved"}
           THEN Append(notifications, [user |-> t.user, subject |-> t.subject,
                                       status |-> t.status, read |-> FALSE])
           ELSE notifications
    /\ Finish(w)
    /\ UNCHANGED <<users, kycStatus, kycs, packages, trips>>

\* The last step of a review.  It fails when the user is gone, and the handler
\* drops the error.
CreateNotification(w) ==
    LET t == workers[w] IN
    /\ t.pc = "notify"
    /\ notifications' =
           IF t.user \in users
           THEN Append(notifications, [user |-> t.user, subject |-> t.subject,
                                       status |-> t.status, read |-> FALSE])
           ELSE notifications
    /\ Finish(w)
    /\ UNCHANGED <<users, kycStatus, kycs, packages, trips>>

MarkNotificationRead(i) ==
    /\ notifications' = [notifications EXCEPT ![i].read = TRUE]
    /\ UNCHANGED <<users, kycStatus, kycs, packages, trips, workers>>

DeleteNotification(i) ==
    /\ notifications' = SubSeq(notifications, 1, i - 1)
                            \o SubSeq(notifications, i + 1, Len(notifications))
    /\ UNCHANGED <<users, kycStatus, kycs, packages, trips, workers>>

-----------------------------------------------------------------------------
(* Listings, requests and matches *)

CreateTravelerListing(l, u, capacity) ==
    /\ l \in Unused(listings, Listings)
    /\ listings' = Insert(listings, l, [traveler |-> u, capacity |-> capacity])
    /\ UNCHANGED <<users, kycStatus, kycs, packages, requests, matches, notifications, workers>>

RequestsOf(c) == {r \in DOMAIN requests : requests[r].client = c}

Duplicate(c, d) == \E r \in RequestsOf(c) : requests[r].status = "open" /\ requests[r].details = d

\* Mutant: the verdict is stored and not looked at.
StartDeliveryRequestUnrejected(w, c, d, recent) ==
    LET previous == Cardinality(RequestsOf(c))
        status == Screened(RiskScore(d, previous, recent))
    IN
    /\ recent => previous >= 2
    /\ ~Duplicate(c, d)
    /\ Begin(w, Task("insert", c, d, status))
    /\ UNCHANGED <<users, kycStatus, kycs, packages, trips, notifications>>

\* createDeliveryRequest up to its insert: both the check for a duplicate and
\* the screening go by the list read here.
StartDeliveryRequest(w, c, d, recent) ==
    LET previous == Cardinality(RequestsOf(c))
        status == Screened(RiskScore(d, previous, recent))
    IN
    /\ recent => previous >= 2
    /\ ~Duplicate(c, d)
    /\ status # "rejected_high_risk"
    /\ Begin(w, Task("insert", c, d, status))
    /\ UNCHANGED <<users, kycStatus, kycs, packages, trips, notifications>>

CreateDeliveryRequest(w, r) ==
    LET t == workers[w] IN
    /\ t.pc = "insert"
    /\ r \in Unused(requests, Requests)
    /\ requests' = Insert(requests, r,
           [client |-> t.user, details |-> t.subject, status |-> t.status])
    /\ Finish(w)
    /\ UNCHANGED <<users, kycStatus, kycs, packages, listings, matches, notifications>>

requestHasApprovedPackageVerification(r) ==
    \E p \in DOMAIN packages : packages[p].request = r /\ packages[p].status = "approved"

Eligible(l) ==
    /\ listings[l].traveler \in users
    /\ kycStatus[listings[l].traveler] = "verified"

Unmatched(l, r) == \A m \in DOMAIN matches : matches[m] # [listing |-> l, request |-> r]

CreateMatch(m, l, r) ==
    /\ m \in Unused(matches, Matches)
    /\ l \in DOMAIN listings
    /\ r \in DOMAIN requests
    /\ requests[r].details.weight <= listings[l].capacity
    /\ Eligible(l)
    /\ requestHasApprovedPackageVerification(r)
    /\ Unmatched(l, r)
    /\ matches' = Insert(matches, m, [listing |-> l, request |-> r])
    /\ UNCHANGED <<users, kycStatus, kycs, packages, listings, requests, notifications, workers>>

\* The listings, requests and verifications of the user stay.
DeleteUserByID(u) ==
    /\ users' = users \ {u}
    /\ UNCHANGED <<kycStatus, kycs, packages, trips, notifications, workers>>

-----------------------------------------------------------------------------
(* Specification *)

Submit ==
    \/ \E k \in KYCs, u \in Users : CreateKYCVerification(k, u)
    \/ \E p \in Packages, r \in Requests, risk \in RiskScores, proven \in BOOLEAN :
          CreatePackageVerification(p, r, risk, proven)
    \/ \E l \in Listings, u \in Users, c \in Capacities : CreateTravelerListing(l, u, c)
    \/ \E m \in Matches, l \in Listings, r \in Requests : CreateMatch(m, l, r)
    \/ \E i \in 1 .. Len(notifications) : MarkNotificationRead(i) \/ DeleteNotification(i)
    \/ \E u \in Users : DeleteUserByID(u)

Start(w) ==
    \/ \E c \in Users, d \in Details, recent \in BOOLEAN : StartDeliveryRequest(w, c, d, recent)
    \/ \E k \in KYCs, v \in {"verified", "rejected"} : ReviewKYCVerification(w, k, v)
    \/ \E p \in Packages, v \in {"approved", "rejected", "rejected_high_risk"} :
          ReviewPackageVerification(w, p, v)

Continue(w) == CreateNotification(w) \/ \E r \in Requests : CreateDeliveryRequest(w, r)

Next == Submit \/ \E w \in Workers : Start(w) \/ Continue(w)

Spec == Init /\ [][Next]_vars

\* A goroutine that has started runs on.
FairSpec == Spec /\ \A w \in Workers : WF_vars(Continue(w))

-----------------------------------------------------------------------------
(* Properties *)

Table(table, ids, rows) == DOMAIN table \subseteq ids /\ table \in [DOMAIN table -> rows]

\* In particular a request that was rejected as too risky is never stored.
TypeOK ==
    /\ users \subseteq Users \cup {NoUser}
    /\ kycStatus \in [Users \cup {NoUser} -> {"unverified", "verified", "rejected"}]
    /\ Table(kycs, KYCs, KYCRows)
    /\ Table(packages, Packages, PackageRows)
    /\ Table(listings, Listings, ListingRows)
    /\ Table(requests, Requests, RequestRows)
    /\ Table(matches, Matches, MatchRows)
    /\ notifications \in Seq(Notifications)
    /\ workers \in [Workers -> WorkerStates]

\* However rows are reviewed again, an admin never has two submissions of one
\* user, nor two of one request, to review.
OneUnderReview ==
    /\ \A j, k \in DOMAIN kycs :
          kycs[j].user = kycs[k].user
          /\ kycs[j].status = "pending_review" /\ kycs[k].status = "pending_review" => j = k
    /\ \A p, q \in DOMAIN packages :
          packages[p].request = packages[q].request
          /\ packages[p].status = "pending_review" /\ packages[q].status = "pending_review"
              => p = q

\* The submissions and the records of users, as KYCContract has them.
Vetting == INSTANCE KYCContract WITH
    Cases <- KYCs,
    cases <- {[id |-> k, user |-> kycs[k].user, status |-> kycs[k].status] : k \in DOMAIN kycs},
    standing <- {[user |-> u, verdict |-> kycStatus[u]] : u \in users \ {NoUser}}

\* A verdict is on the case and on its owner's record at the same time, only a
\* review puts it there, and nothing it does reaches the record of anyone else,
\* though an owner who is gone is read as an empty record and stored again.
KeepsVerdicts == Vetting!Spec

\* A match is made only while an admin's verdict stands behind it: some KYC row
\* of a traveler who still exists says verified, and some row of the request
\* says approved.  The store looks at the user's record and not at the KYC rows.
NewMatchIsVetted ==
    [][\A m \in DOMAIN matches' \ DOMAIN matches :
          LET traveler == listings[matches'[m].listing].traveler IN
          /\ traveler \in users
          /\ \E k \in DOMAIN kycs : kycs[k].user = traveler /\ kycs[k].status = "verified"
          /\ \E p \in DOMAIN packages :
                packages[p].request = matches'[m].request
                /\ packages[p].status = "approved"]_vars

Reviewing ==
    [pc : {"notify"}, user : Users, subject : KYCs, status : {"verified", "rejected"}]
    \cup [pc : {"notify"}, user : Users, subject : Packages,
          status : {"approved", "rejected", "rejected_high_risk"}]

\* The owner of a reviewed row hears of it, unless the account is deleted first.
EveryReviewIsTold ==
    \A t \in Reviewing :
        (\E w \in Workers : workers[w] = t) ~>
            \/ t.user \notin users
            \/ \E i \in 1 .. Len(notifications) :
                   notifications[i] = [user |-> t.user, subject |-> t.subject,
                                       status |-> t.status, read |-> FALSE]

\* A client has one open request with the same details: what the handler's check
\* is for.  Two submissions that run together both find no duplicate.
UniqueOpenRequests ==
    \A r, q \in DOMAIN requests :
        requests[r] = requests[q] /\ requests[r].status = "open" => r = q

-----------------------------------------------------------------------------
(* The inductive invariant behind the safety properties *)

\* A row whose foreign ids name rows, so that nothing is read that is not there.
ReferencesOK ==
    /\ \A p \in DOMAIN packages : packages[p].request \in DOMAIN requests
    /\ \A m \in DOMAIN matches :
          matches[m].listing \in DOMAIN listings /\ matches[m].request \in DOMAIN requests

\* The record of a user who exists follows the last review of one of the
\* user's KYC rows.
VerdictsAgree ==
    \A u \in users \ {NoUser} : kycStatus[u] # "unverified" =>
        \E k \in DOMAIN kycs : kycs[k].user = u /\ kycs[k].status = kycStatus[u]

IInv ==
    /\ TypeOK
    /\ ReferencesOK
    /\ VerdictsAgree
    /\ OneUnderReview

=============================================================================
