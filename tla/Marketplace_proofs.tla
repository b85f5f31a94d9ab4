------------------------- MODULE Marketplace_proofs -------------------------
(***************************************************************************)
(* Proofs about Marketplace, for any users, rows, details and workers.     *)
(***************************************************************************)
EXTENDS Marketplace, SequenceTheorems, TLAPS

(* A row more, or a row with another status, leaves a table a table.          *)
LEMMA InsertTable ==
    ASSUME NEW ids, NEW rows, NEW table, Table(table, ids, rows), NEW id \in ids, NEW row \in rows
    PROVE /\ Table(Insert(table, id, row), ids, rows)
          /\ DOMAIN Insert(table, id, row) = DOMAIN table \cup {id}
          /\ Insert(table, id, row)[id] = row
          /\ \A i \in DOMAIN table \ {id} : Insert(table, id, row)[i] = table[i]
BY DEF Table, Insert

LEMMA Statuses ==
    ASSUME NEW score PROVE Screened(score) \in {"open", "pending_review", "rejected_high_risk"}
BY DEF Screened

LEMMA IdleTyped == Idle \in WorkerStates
BY DEF Idle, WorkerStates

-----------------------------------------------------------------------------
(* Type correctness *)

LEMMA InitInv == Init => IInv
<1> SUFFICES ASSUME Init PROVE IInv
  OBVIOUS
<1>1. DOMAIN kycs = {} /\ DOMAIN packages = {} /\ DOMAIN listings = {}
      /\ DOMAIN requests = {} /\ DOMAIN matches = {}
  BY DEF Init
<1>2. TypeOK
  BY <1>1, IdleTyped DEF Init, TypeOK, Table
<1> QED
  BY <1>1, <1>2 DEF Init, IInv, ReferencesOK, VerdictsAgree, OneUnderReview

LEMMA TypeStep == TypeOK /\ ReferencesOK /\ [Next]_vars => TypeOK'
<1> SUFFICES ASSUME TypeOK, ReferencesOK, [Next]_vars PROVE TypeOK'
  OBVIOUS
<1> USE DEF trips
<1>1. ASSUME NEW k \in KYCs, NEW u \in Users, CreateKYCVerification(k, u) PROVE TypeOK'
  <2>1. [user |-> u, status |-> "pending_review"] \in KYCRows
    BY DEF KYCRows
  <2>2. Table(kycs', KYCs, KYCRows)
    BY <1>1, <2>1, InsertTable DEF CreateKYCVerification, TypeOK
  <2> QED
    BY <1>1, <2>2 DEF CreateKYCVerification, TypeOK, Table
<1>2. ASSUME NEW w \in Workers, NEW k \in KYCs, NEW v \in {"verified", "rejected"},
             ReviewKYCVerification(w, k, v)
      PROVE TypeOK'
  <2>1. k \in DOMAIN kycs /\ kycs[k] \in KYCRows
    BY <1>2 DEF ReviewKYCVerification, TypeOK, Table
  <2>2. Table(kycs', KYCs, KYCRows)
    BY <1>2, <2>1 DEF ReviewKYCVerification, TypeOK, Table, KYCRows
  <2>3. Task("notify", kycs[k].user, k, v) \in WorkerStates
    BY <2>1 DEF Task, WorkerStates, KYCRows, Subjects, Verdicts
  <2>4. workers' \in [Workers -> WorkerStates]
    BY <1>2, <2>3 DEF ReviewKYCVerification, Begin, TypeOK
  <2>5. kycs[k].user \in Users
    BY <2>1 DEF KYCRows
  <2>6. /\ users' \subseteq Users \cup {NoUser}
        /\ kycStatus' \in [Users \cup {NoUser} -> {"unverified", "verified", "rejected"}]
    BY <1>2, <2>5 DEF ReviewKYCVerification, TypeOK
  <2> QED
    BY <1>2, <2>2, <2>4, <2>6 DEF ReviewKYCVerification, TypeOK, Table
<1>3. ASSUME NEW p \in Packages, NEW r \in Requests, NEW risk \in RiskScores,
             NEW proven \in BOOLEAN, CreatePackageVerification(p, r, risk, proven)
      PROVE TypeOK'
  <2>1. Assessed(risk, proven) \in {"rejected_high_risk", "approved", "pending_review"}
    BY DEF Assessed
  <2>2. [request |-> r, status |-> Assessed(risk, proven)] \in PackageRows
    BY <2>1 DEF PackageRows
  <2>3. Table(packages', Packages, PackageRows)
    BY <1>3, <2>2, InsertTable DEF CreatePackageVerification, TypeOK
  <2> QED
    BY <1>3, <2>3 DEF CreatePackageVerification, TypeOK, Table
<1>4. ASSUME NEW w \in Workers, NEW p \in Packages,
             NEW v \in {"approved", "rejected", "rejected_high_risk"},
             ReviewPackageVerification(w, p, v)
      PROVE TypeOK'
  <2>1. p \in DOMAIN packages /\ packages[p] \in PackageRows
    BY <1>4 DEF ReviewPackageVerification, TypeOK, Table
  <2>2. Table(packages', Packages, PackageRows)
    BY <1>4, <2>1 DEF ReviewPackageVerification, TypeOK, Table, PackageRows
  <2>3. requests[packages[p].request].client \in Users
    BY <2>1 DEF ReferencesOK, TypeOK, Table, RequestRows
  <2>4. Task("notify", requests[packages[p].request].client, p, v) \in WorkerStates
    BY <2>3 DEF Task, WorkerStates, Subjects, Verdicts
  <2>5. workers' \in [Workers -> WorkerStates]
    BY <1>4, <2>4 DEF ReviewPackageVerification, Begin, TypeOK
  <2> QED
    BY <1>4, <2>2, <2>5 DEF ReviewPackageVerification, TypeOK, Table
<1>5. ASSUME NEW w \in Workers, CreateNotification(w) PROVE TypeOK'
  <2> DEFINE t == workers[w]
             n == [user |-> t.user, subject |-> t.subject, status |-> t.status, read |-> FALSE]
  <2>1. t \in [pc : {"notify"}, user : Users, subject : Subjects, status : Verdicts]
    BY <1>5 DEF CreateNotification, TypeOK, WorkerStates
  <2>2. n \in Notifications
    BY <2>1 DEF Notifications
  <2>3. Append(notifications, n) \in Seq(Notifications)
    BY <2>2 DEF TypeOK
  <2>4. notifications' \in Seq(Notifications)
    BY <1>5, <2>3 DEF CreateNotification, TypeOK
  <2>5. workers' \in [Workers -> WorkerStates]
    BY <1>5, IdleTyped DEF CreateNotification, Finish, TypeOK
  <2> QED
    BY <1>5, <2>4, <2>5 DEF CreateNotification, TypeOK, Table
<1>6. ASSUME NEW i \in 1 .. Len(notifications), MarkNotificationRead(i) PROVE TypeOK'
  <2>1. notifications[i] \in Notifications
    BY DEF TypeOK
  <2>2. [notifications[i] EXCEPT !.read = TRUE] \in Notifications
    BY <2>1 DEF Notifications
  <2>3. notifications' \in Seq(Notifications)
    BY <1>6, <2>2 DEF MarkNotificationRead, TypeOK
  <2> QED
    BY <1>6, <2>3 DEF MarkNotificationRead, TypeOK, Table
<1>7. ASSUME NEW i \in 1 .. Len(notifications), DeleteNotification(i) PROVE TypeOK'
  <2>1. /\ SubSeq(notifications, 1, i - 1) \in Seq(Notifications)
        /\ SubSeq(notifications, i + 1, Len(notifications)) \in Seq(Notifications)
    BY DEF TypeOK
  <2>2. notifications' \in Seq(Notifications)
    BY <1>7, <2>1 DEF DeleteNotification
  <2> QED
    BY <1>7, <2>2 DEF DeleteNotification, TypeOK, Table
<1>8. ASSUME NEW l \in Listings, NEW u \in Users, NEW c \in Capacities,
             CreateTravelerListing(l, u, c)
      PROVE TypeOK'
  <2>1. [traveler |-> u, capacity |-> c] \in ListingRows
    BY DEF ListingRows
  <2>2. Table(listings', Listings, ListingRows)
    BY <1>8, <2>1, InsertTable DEF CreateTravelerListing, TypeOK
  <2> QED
    BY <1>8, <2>2 DEF CreateTravelerListing, TypeOK, Table
<1>9. ASSUME NEW w \in Workers, NEW c \in Users, NEW d \in Details, NEW recent \in BOOLEAN,
             StartDeliveryRequest(w, c, d, recent)
      PROVE TypeOK'
  <2> DEFINE status == Screened(RiskScore(d, Cardinality(RequestsOf(c)), recent))
  <2>1. status \in {"open", "pending_review"}
    BY <1>9, Statuses DEF StartDeliveryRequest
  <2>2. Task("insert", c, d, status) \in WorkerStates
    BY <2>1 DEF Task, WorkerStates
  <2>3. workers' \in [Workers -> WorkerStates]
    BY <1>9, <2>2 DEF StartDeliveryRequest, Begin, TypeOK
  <2> QED
    BY <1>9, <2>3 DEF StartDeliveryRequest, TypeOK, Table
<1>10. ASSUME NEW w \in Workers, NEW r \in Requests, CreateDeliveryRequest(w, r) PROVE TypeOK'
  <2> DEFINE t == workers[w]
             row == [client |-> t.user, details |-> t.subject, status |-> t.status]
  <2>1. t \in [pc : {"insert"}, user : Users, subject : Details,
               status : {"open", "pending_review"}]
    BY <1>10 DEF CreateDeliveryRequest, TypeOK, WorkerStates
  <2>2. row \in RequestRows
    BY <2>1 DEF RequestRows
  <2>3. Table(requests', Requests, RequestRows)
    <3>1. requests' = Insert(requests, r, row)
      BY <1>10 DEF CreateDeliveryRequest
    <3>2. Table(requests, Requests, RequestRows)
      BY DEF TypeOK
    <3> HIDE DEF row
    <3> QED
      BY <2>2, <3>1, <3>2, InsertTable
  <2>4. workers' \in [Workers -> WorkerStates]
    BY <1>10, IdleTyped DEF CreateDeliveryRequest, Finish, TypeOK
  <2> QED
    BY <1>10, <2>3, <2>4 DEF CreateDeliveryRequest, TypeOK, Table
<1>11. ASSUME NEW m \in Matches, NEW l \in Listings, NEW r \in Requests, CreateMatch(m, l, r)
       PROVE TypeOK'
  <2>1. [listing |-> l, request |-> r] \in MatchRows
    BY DEF MatchRows
  <2>2. Table(matches', Matches, MatchRows)
    BY <1>11, <2>1, InsertTable DEF CreateMatch, TypeOK
  <2> QED
    BY <1>11, <2>2 DEF CreateMatch, TypeOK, Table
<1>12. ASSUME NEW u \in Users, DeleteUserByID(u) PROVE TypeOK'
  BY <1>12 DEF DeleteUserByID, TypeOK, Table
<1>13. CASE UNCHANGED vars
  BY <1>13 DEF vars, TypeOK, Table
<1> QED
  BY <1>1, <1>2, <1>3, <1>4, <1>5, <1>6, <1>7, <1>8, <1>9, <1>10, <1>11, <1>12, <1>13
     DEF Next, Submit, Start, Continue

-----------------------------------------------------------------------------
(* The other conjuncts, each with the actions that can disturb it             *)

(* Reviewing a row changes its status and nothing else.                       *)
LEMMA Reviewed ==
    ASSUME NEW ids, NEW rows, NEW table, Table(table, ids, rows), NEW id \in DOMAIN table, NEW v,
           NEW new, new = [table EXCEPT ![id].status = v]
    PROVE /\ DOMAIN new = DOMAIN table
          /\ new[id] = [table[id] EXCEPT !.status = v]
          /\ \A i \in DOMAIN table \ {id} : new[i] = table[i]
BY DEF Table

LEMMA ReferencesStep == TypeOK /\ ReferencesOK /\ [Next]_vars => ReferencesOK'
<1> SUFFICES ASSUME TypeOK, ReferencesOK, [Next]_vars PROVE ReferencesOK'
  OBVIOUS
<1> USE DEF trips
<1>1. ASSUME NEW p \in Packages, NEW r \in Requests, NEW risk \in RiskScores,
             NEW proven \in BOOLEAN, CreatePackageVerification(p, r, risk, proven)
      PROVE ReferencesOK'
  <2> DEFINE row == [request |-> r, status |-> Assessed(risk, proven)]
  <2>1. row.request = r /\ packages' = Insert(packages, p, row) /\ r \in DOMAIN requests
    BY <1>1 DEF CreatePackageVerification
  <2> HIDE DEF row
  <2>2. /\ DOMAIN packages' = DOMAIN packages \cup {p}
        /\ packages'[p] = row
        /\ \A i \in DOMAIN packages \ {p} : packages'[i] = packages[i]
    BY <2>1 DEF Insert
  <2> QED
    BY <1>1, <2>1, <2>2 DEF CreatePackageVerification, ReferencesOK
<1>2. ASSUME NEW w \in Workers, NEW p \in Packages,
             NEW v \in {"approved", "rejected", "rejected_high_risk"},
             ReviewPackageVerification(w, p, v)
      PROVE ReferencesOK'
  <2>1. p \in DOMAIN packages /\ packages[p] \in PackageRows
    BY <1>2 DEF ReviewPackageVerification, TypeOK, Table
  <2>2. packages'[p].request = packages[p].request
    BY <1>2, <2>1 DEF ReviewPackageVerification, TypeOK, Table, PackageRows
  <2>3. /\ DOMAIN packages' = DOMAIN packages
        /\ \A i \in DOMAIN packages \ {p} : packages'[i] = packages[i]
    BY <1>2 DEF ReviewPackageVerification, TypeOK, Table
  <2> QED
    BY <1>2, <2>2, <2>3 DEF ReviewPackageVerification, ReferencesOK
<1>3. ASSUME NEW l \in Listings, NEW u \in Users, NEW c \in Capacities,
             CreateTravelerListing(l, u, c)
      PROVE ReferencesOK'
  <2>1. DOMAIN listings \subseteq DOMAIN listings'
    BY <1>3 DEF CreateTravelerListing, Insert
  <2> QED
    BY <1>3, <2>1 DEF CreateTravelerListing, ReferencesOK
<1>4. ASSUME NEW w \in Workers, NEW r \in Requests, CreateDeliveryRequest(w, r)
      PROVE ReferencesOK'
  <2>1. DOMAIN requests \subseteq DOMAIN requests'
    BY <1>4 DEF CreateDeliveryRequest, Insert
  <2> QED
    BY <1>4, <2>1 DEF CreateDeliveryRequest, ReferencesOK
<1>5. ASSUME NEW m \in Matches, NEW l \in Listings, NEW r \in Requests, CreateMatch(m, l, r)
      PROVE ReferencesOK'
  <2> DEFINE row == [listing |-> l, request |-> r]
  <2>1. /\ DOMAIN matches' = DOMAIN matches \cup {m}
        /\ matches'[m] = row
        /\ \A i \in DOMAIN matches \ {m} : matches'[i] = matches[i]
    BY <1>5 DEF CreateMatch, Insert
  <2> QED
    BY <1>5, <2>1 DEF CreateMatch, ReferencesOK
<1>6. ASSUME UNCHANGED <<packages, trips>> PROVE ReferencesOK'
  BY <1>6 DEF ReferencesOK
<1> QED
  BY <1>1, <1>2, <1>3, <1>4, <1>5, <1>6
     DEF Next, Submit, Start, Continue, vars, CreateKYCVerification, ReviewKYCVerification,
         CreateNotification, MarkNotificationRead, DeleteNotification, StartDeliveryRequest,
         DeleteUserByID

LEMMA VerdictsStep == TypeOK /\ VerdictsAgree /\ [Next]_vars => VerdictsAgree'
<1> SUFFICES ASSUME TypeOK, VerdictsAgree, [Next]_vars PROVE VerdictsAgree'
  OBVIOUS
<1> USE DEF trips
<1>1. ASSUME NEW k \in KYCs, NEW u \in Users, CreateKYCVerification(k, u) PROVE VerdictsAgree'
  <2>1. /\ DOMAIN kycs \subseteq DOMAIN kycs'
        /\ \A i \in DOMAIN kycs : kycs'[i] = kycs[i]
    BY <1>1 DEF CreateKYCVerification, Insert, Unused
  <2> QED
    BY <1>1, <2>1 DEF CreateKYCVerification, VerdictsAgree
<1>2. ASSUME NEW w \in Workers, NEW k \in KYCs, NEW v \in {"verified", "rejected"},
             ReviewKYCVerification(w, k, v)
      PROVE VerdictsAgree'
  <2> DEFINE owner == kycs[k].user
  <2>1. k \in DOMAIN kycs /\ kycs[k] \in KYCRows
    BY <1>2 DEF ReviewKYCVerification, TypeOK, Table
  <2>2. kycs'[k].user = owner /\ kycs'[k].status = v
    BY <1>2, <2>1 DEF ReviewKYCVerification, TypeOK, Table, KYCRows
  <2>3. /\ DOMAIN kycs' = DOMAIN kycs
        /\ \A i \in DOMAIN kycs \ {k} : kycs'[i] = kycs[i]
    BY <1>2 DEF ReviewKYCVerification, TypeOK, Table
  <2>4. owner \in Users
    BY <2>1 DEF KYCRows
  <2>5. ASSUME NEW u \in users' \ {NoUser}, kycStatus'[u] # "unverified"
        PROVE \E i \in DOMAIN kycs' : kycs'[i].user = u /\ kycs'[i].status = kycStatus'[u]
    <3>0. u \in users /\ u \in Users
      BY <1>2, <2>4, <2>5, NamesAssumption DEF ReviewKYCVerification, TypeOK
    <3>1. CASE u = owner
      <4>1. kycStatus'[u] = v
        BY <1>2, <3>0, <3>1 DEF ReviewKYCVerification, TypeOK
      <4> QED
        BY <2>1, <2>2, <2>3, <3>1, <4>1
    <3>2. CASE u # owner
      <4>1. kycStatus'[u] = kycStatus[u]
        BY <1>2, <3>0, <3>2, NamesAssumption DEF ReviewKYCVerification, TypeOK
      <4>2. PICK i \in DOMAIN kycs : kycs[i].user = u /\ kycs[i].status = kycStatus[u]
        BY <2>5, <3>0, <4>1 DEF VerdictsAgree
      <4>3. i # k
        BY <3>2, <4>2
      <4> QED
        BY <2>3, <4>1, <4>2, <4>3
    <3> QED
      BY <3>1, <3>2
  <2> QED
    BY <2>5 DEF VerdictsAgree
<1>3. ASSUME UNCHANGED <<kycs, kycStatus>>, users' \subseteq users PROVE VerdictsAgree'
  BY <1>3 DEF VerdictsAgree
<1> QED
  BY <1>1, <1>2, <1>3
     DEF Next, Submit, Start, Continue, vars, CreatePackageVerification,
         ReviewPackageVerification, CreateNotification, MarkNotificationRead,
         DeleteNotification, CreateTravelerListing, StartDeliveryRequest,
         CreateDeliveryRequest, CreateMatch, DeleteUserByID

(* A new row is the only one of its owner under review, because the store      *)
(* refuses it otherwise; a review never puts a row back under review.          *)
LEMMA OneUnderReviewStep == TypeOK /\ OneUnderReview /\ [Next]_vars => OneUnderReview'
<1> SUFFICES ASSUME TypeOK, OneUnderReview, [Next]_vars PROVE OneUnderReview'
  OBVIOUS
<1> USE DEF trips
<1>1. ASSUME NEW k \in KYCs, NEW u \in Users, CreateKYCVerification(k, u)
      PROVE OneUnderReview'
  <2> DEFINE row == [user |-> u, status |-> "pending_review"]
  <2>1. /\ DOMAIN kycs' = DOMAIN kycs \cup {k}
        /\ kycs'[k] = row
        /\ \A i \in DOMAIN kycs \ {k} : kycs'[i] = kycs[i]
    BY <1>1 DEF CreateKYCVerification, Insert
  <2>2. k \notin DOMAIN kycs /\ packages' = packages
        /\ \A i \in DOMAIN kycs : kycs[i].user = u => kycs[i].status # "pending_review"
    BY <1>1 DEF CreateKYCVerification, KYCAllowed, Unused
  <2> QED
    BY <2>1, <2>2 DEF OneUnderReview
<1>2. ASSUME NEW w \in Workers, NEW k \in KYCs, NEW v \in {"verified", "rejected"},
             ReviewKYCVerification(w, k, v)
      PROVE OneUnderReview'
  <2>1. k \in DOMAIN kycs /\ kycs[k] \in KYCRows /\ packages' = packages
    BY <1>2 DEF ReviewKYCVerification, TypeOK, Table
  <2>2. kycs'[k].status = v /\ v # "pending_review"
    BY <1>2, <2>1 DEF ReviewKYCVerification, TypeOK, Table, KYCRows
  <2>3. /\ DOMAIN kycs' = DOMAIN kycs
        /\ \A i \in DOMAIN kycs \ {k} : kycs'[i] = kycs[i]
    BY <1>2 DEF ReviewKYCVerification, TypeOK, Table
  <2> QED
    BY <2>1, <2>2, <2>3 DEF OneUnderReview
<1>3. ASSUME NEW p \in Packages, NEW r \in Requests, NEW risk \in RiskScores,
             NEW proven \in BOOLEAN, CreatePackageVerification(p, r, risk, proven)
      PROVE OneUnderReview'
  <2> DEFINE row == [request |-> r, status |-> Assessed(risk, proven)]
  <2>1. row.request = r
    OBVIOUS
  <2>2. packages' = Insert(packages, p, row)
    BY <1>3 DEF CreatePackageVerification
  <2> HIDE DEF row
  <2>3. /\ DOMAIN packages' = DOMAIN packages \cup {p}
        /\ packages'[p] = row
        /\ \A i \in DOMAIN packages \ {p} : packages'[i] = packages[i]
    BY <2>2 DEF Insert
  <2>4. p \notin DOMAIN packages /\ kycs' = kycs
        /\ \A i \in DOMAIN packages :
              packages[i].request = r => packages[i].status # "pending_review"
    BY <1>3 DEF CreatePackageVerification, PackageAllowed, Unused
  <2> QED
    BY <2>1, <2>3, <2>4 DEF OneUnderReview
<1>4. ASSUME NEW w \in Workers, NEW p \in Packages,
             NEW v \in {"approved", "rejected", "rejected_high_risk"},
             ReviewPackageVerification(w, p, v)
      PROVE OneUnderReview'
  <2>1. p \in DOMAIN packages /\ packages[p] \in PackageRows /\ kycs' = kycs
    BY <1>4 DEF ReviewPackageVerification, TypeOK, Table
  <2>2. packages'[p].status = v /\ v # "pending_review"
    BY <1>4, <2>1 DEF ReviewPackageVerification, TypeOK, Table, PackageRows
  <2>3. /\ DOMAIN packages' = DOMAIN packages
        /\ \A i \in DOMAIN packages \ {p} : packages'[i] = packages[i]
    BY <1>4 DEF ReviewPackageVerification, TypeOK, Table
  <2> QED
    BY <2>1, <2>2, <2>3 DEF OneUnderReview
<1>5. ASSUME UNCHANGED <<kycs, packages>> PROVE OneUnderReview'
  BY <1>5 DEF OneUnderReview
<1> QED
  BY <1>1, <1>2, <1>3, <1>4, <1>5
     DEF Next, Submit, Start, Continue, vars, CreateNotification, MarkNotificationRead,
         DeleteNotification, CreateTravelerListing, StartDeliveryRequest,
         CreateDeliveryRequest, CreateMatch, DeleteUserByID

-----------------------------------------------------------------------------
(* Theorems *)

(* IInv holds initially and every step of every handler keeps it.             *)
THEOREM MarketInductive == Spec => []IInv
<1>1. IInv /\ [Next]_vars => IInv'
  BY TypeStep, ReferencesStep, VerdictsStep, OneUnderReviewStep DEF IInv
<1> QED
  BY InitInv, <1>1, PTL DEF Spec

(* No row, worker or notification ever leaves its type: in particular a        *)
(* request that createDeliveryRequest scored as high risk is never stored.     *)
THEOREM MarketTypes == Spec => []TypeOK
<1>1. IInv => TypeOK
  BY DEF IInv
<1> QED
  BY MarketInductive, <1>1, PTL

(* The check in CreateKYCVerification and CreatePackageVerification and the    *)
(* verdicts the two reviews accept leave one submission to review at a time.   *)
THEOREM OneReview == Spec => []OneUnderReview
<1>1. IInv => OneUnderReview
  BY DEF IInv
<1> QED
  BY MarketInductive, <1>1, PTL

(* CreateMatch reads the user's record; VerdictsAgree says that a KYC row       *)
(* stands behind what it reads there.                                          *)
THEOREM MatchesAreVetted == Spec => NewMatchIsVetted
<1> DEFINE Vetted ==
        \A m \in DOMAIN matches' \ DOMAIN matches :
          LET traveler == listings[matches'[m].listing].traveler IN
          /\ traveler \in users
          /\ \E k \in DOMAIN kycs : kycs[k].user = traveler /\ kycs[k].status = "verified"
          /\ \E p \in DOMAIN packages :
                packages[p].request = matches'[m].request
                /\ packages[p].status = "approved"
<1>1. IInv /\ [Next]_vars => [Vetted]_vars
  <2> SUFFICES ASSUME IInv, [Next]_vars PROVE Vetted
    OBVIOUS
  <2>1. ASSUME NEW m \in Matches, NEW l \in Listings, NEW r \in Requests, CreateMatch(m, l, r)
        PROVE Vetted
    <3> DEFINE row == [listing |-> l, request |-> r]
               traveler == listings[l].traveler
    <3>1. DOMAIN matches' = DOMAIN matches \cup {m} /\ matches'[m] = row
      BY <2>1 DEF CreateMatch, Insert
    <3>2. traveler \in users /\ kycStatus[traveler] = "verified"
      BY <2>1 DEF CreateMatch, Eligible
    <3>3. traveler \in Users
      BY <2>1 DEF CreateMatch, IInv, TypeOK, Table, ListingRows
    <3>4. \E k \in DOMAIN kycs : kycs[k].user = traveler /\ kycs[k].status = "verified"
      BY <3>2, <3>3, NamesAssumption DEF IInv, VerdictsAgree
    <3>5. \E p \in DOMAIN packages : packages[p].request = r /\ packages[p].status = "approved"
      BY <2>1 DEF CreateMatch, requestHasApprovedPackageVerification
    <3> QED
      BY <3>1, <3>2, <3>4, <3>5
  <2>2. ASSUME UNCHANGED matches PROVE Vetted
    BY <2>2
  <2> HIDE DEF Vetted
  <2> QED
    BY <2>1, <2>2
       DEF Next, Submit, Start, Continue, vars, trips, CreateKYCVerification,
           ReviewKYCVerification, CreatePackageVerification, ReviewPackageVerification,
           CreateNotification, MarkNotificationRead, DeleteNotification,
           CreateTravelerListing, StartDeliveryRequest, CreateDeliveryRequest, DeleteUserByID
<1> QED
  BY MarketInductive, <1>1, PTL DEF Spec, NewMatchIsVetted

-----------------------------------------------------------------------------
(* Screening *)

Severity(verdict) ==
    CASE verdict = "open" -> 0
      [] verdict = "pending_review" -> 1
      [] OTHER -> 2

LEMMA SeverityFollowsScore ==
    ASSUME NEW m \in Nat, NEW n \in Nat, m <= n
    PROVE Severity(Screened(m)) <= Severity(Screened(n))
BY DEF Severity, Screened

(* EvaluateDeliveryRequestRisk never becomes milder: a request that asks for   *)
(* more, or the same request by a client with more requests before it, is      *)
(* treated no better.  Asking again does not get a held request through.       *)
THEOREM ScreeningEscalates ==
    ASSUME NEW d \in Details, NEW e \in Details, NEW before \in Nat, NEW after \in Nat,
           NEW calm \in BOOLEAN, NEW busy \in BOOLEAN,
           d.weight <= e.weight, d.value <= e.value,
           d.suspicious => e.suspicious, d.usPhone => e.usPhone,
           before <= after, calm => busy
    PROVE Severity(Screened(RiskScore(d, before, calm)))
              <= Severity(Screened(RiskScore(e, after, busy)))
<1>1. /\ d.weight \in Nat /\ d.value \in Nat /\ d.suspicious \in BOOLEAN /\ d.usPhone \in BOOLEAN
      /\ e.weight \in Nat /\ e.value \in Nat /\ e.suspicious \in BOOLEAN /\ e.usPhone \in BOOLEAN
  BY DetailsAssumption
<1>2. /\ RiskScore(d, before, calm) \in Nat /\ RiskScore(e, after, busy) \in Nat
      /\ RiskScore(d, before, calm) <= RiskScore(e, after, busy)
  BY <1>1 DEF RiskScore, Points
<1> QED
  BY <1>2, SeverityFollowsScore

(* A request for a parcel of at most 2000 dollars whose text raises no         *)
(* suspicion is never held, whatever its weight and however many its client    *)
(* has made.                                                                   *)
THEOREM OrdinaryRequestsPass ==
    ASSUME NEW d \in Details, NEW previous \in Nat, NEW recent \in BOOLEAN,
           d.value <= 2000, ~d.suspicious
    PROVE Screened(RiskScore(d, previous, recent)) = "open"
<1>1. d.weight \in Nat /\ d.value \in Nat
  BY DetailsAssumption
<1>2. /\ Points(d.value > 3000, 35) = 0 /\ Points(d.suspicious, 25) = 0
      /\ Points(d.usPhone /\ d.value > 2000, 15) = 0
  BY <1>1 DEF Points
<1>3. /\ Points(d.weight > 20, 10) \in 0 .. 10
      /\ Points(previous >= 3, 15) \in 0 .. 15 /\ Points(recent, 10) \in 0 .. 10
  BY DEF Points
<1>4. RiskScore(d, previous, recent) \in 0 .. 35
  BY <1>2, <1>3 DEF RiskScore
<1> QED
  BY <1>4 DEF Screened

-----------------------------------------------------------------------------
(* The contract of identity checks *)

CasesHeld == {[id |-> k, user |-> kycs[k].user, status |-> kycs[k].status] : k \in DOMAIN kycs}
Records == {[user |-> u, verdict |-> kycStatus[u]] : u \in users \ {NoUser}}

LEMMA SubmitKeepsVerdicts ==
    ASSUME TypeOK, NEW k \in KYCs, NEW u \in Users, CreateKYCVerification(k, u)
    PROVE Vetting!Submit(k, u)
<1>1. /\ k \notin DOMAIN kycs /\ UNCHANGED <<users, kycStatus>>
      /\ DOMAIN kycs' = DOMAIN kycs \cup {k}
      /\ kycs'[k].user = u /\ kycs'[k].status = "pending_review"
      /\ \A i \in DOMAIN kycs : kycs'[i] = kycs[i]
  BY DEF CreateKYCVerification, Insert, Unused
<1>2. CasesHeld' = CasesHeld \cup {[id |-> k, user |-> u, status |-> "pending_review"]}
  BY <1>1 DEF CasesHeld
<1>3. \A c \in CasesHeld : c.id # k
  BY <1>1 DEF CasesHeld
<1> QED
  BY <1>1, <1>2, <1>3 DEF Vetting!Submit, Vetting!Case, CasesHeld

(* The owner's record and the case change together; an owner who is gone has   *)
(* no record in the contract.                                                  *)
LEMMA ReviewKeepsVerdicts ==
    ASSUME TypeOK, NEW w \in Workers, NEW k \in KYCs, NEW v \in {"verified", "rejected"},
           ReviewKYCVerification(w, k, v)
    PROVE \E c \in CasesHeld : Vetting!Review(c, v)
<1>1. k \in DOMAIN kycs /\ kycs[k] \in KYCRows
  BY DEF ReviewKYCVerification, TypeOK, Table
<1>2. PICK owner \in Users : owner = kycs[k].user
  BY <1>1 DEF KYCRows
<1>3. PICK c \in CasesHeld : c = [id |-> k, user |-> owner, status |-> kycs[k].status]
  BY <1>1, <1>2 DEF CasesHeld
<1>4. /\ DOMAIN kycs' = DOMAIN kycs /\ kycs'[k].user = owner /\ kycs'[k].status = v
      /\ \A i \in DOMAIN kycs \ {k} : kycs'[i] = kycs[i]
  BY <1>1, <1>2 DEF ReviewKYCVerification, TypeOK, Table, KYCRows
<1>5. CasesHeld' = (CasesHeld \ {c}) \cup {[id |-> k, user |-> owner, status |-> v]}
  <2>1. ASSUME NEW i \in DOMAIN kycs, i # k
        PROVE [id |-> i, user |-> kycs'[i].user, status |-> kycs'[i].status]
                  = [id |-> i, user |-> kycs[i].user, status |-> kycs[i].status]
    BY <1>4, <2>1
  <2>2. \A d \in CasesHeld : d # c <=> d.id # k
    BY <1>2, <1>3 DEF CasesHeld
  <2> QED
    BY <1>1, <1>3, <1>4, <2>1, <2>2 DEF CasesHeld
<1>6. /\ users' \ {NoUser} = users \ {NoUser}
      /\ \A u \in users \ {NoUser} : kycStatus'[u] = IF u = owner THEN v ELSE kycStatus[u]
  BY <1>2, NamesAssumption DEF ReviewKYCVerification, TypeOK
<1>7. Records' = {IF s.user = owner THEN [user |-> s.user, verdict |-> v] ELSE s : s \in Records}
  <2> DEFINE Changed(s) == IF s.user = owner THEN [user |-> s.user, verdict |-> v] ELSE s
  <2>1. \A u \in users \ {NoUser} :
            [user |-> u, verdict |-> kycStatus'[u]] = Changed([user |-> u, verdict |-> kycStatus[u]])
    BY <1>6
  <2>2. Records' = {Changed([user |-> u, verdict |-> kycStatus[u]]) : u \in users \ {NoUser}}
    BY <1>6, <2>1 DEF Records
  <2> HIDE DEF Changed
  <2>3. Records' = {Changed(s) : s \in Records}
    BY <2>2 DEF Records
  <2> QED
    BY <2>3 DEF Changed
<1>8. Vetting!Review(c, v)
  <2>1. c.id = k /\ c.user = owner
    BY <1>3
  <2> QED
    BY <1>5, <1>7, <2>1
       DEF Vetting!Review, Vetting!Case, Vetting!Standing, CasesHeld, Records
<1> QED
  BY <1>8

LEMMA VettingStep == IInv /\ [Next]_vars => [Vetting!Next]_(Vetting!vars)
<1> SUFFICES ASSUME TypeOK, [Next]_vars PROVE [Vetting!Next]_(Vetting!vars)
  BY DEF IInv
<1> USE DEF trips
<1>1. ASSUME NEW k \in KYCs, NEW u \in Users, CreateKYCVerification(k, u)
      PROVE [Vetting!Next]_(Vetting!vars)
  BY <1>1, SubmitKeepsVerdicts DEF Vetting!Next
<1>2. ASSUME NEW w \in Workers, NEW k \in KYCs, NEW v \in {"verified", "rejected"},
             ReviewKYCVerification(w, k, v)
      PROVE [Vetting!Next]_(Vetting!vars)
  <2>1. PICK c \in CasesHeld : Vetting!Review(c, v)
    BY <1>2, ReviewKeepsVerdicts
  <2> QED
    BY <2>1 DEF Vetting!Next, Vetting!Verdicts, CasesHeld
<1>3. ASSUME NEW u \in Users, DeleteUserByID(u) PROVE [Vetting!Next]_(Vetting!vars)
  <2>1. Records' = {s \in Records : s.user # u} /\ UNCHANGED kycs
    BY <1>3 DEF DeleteUserByID, Records
  <2>2. Vetting!Leave(u)
    BY <2>1 DEF Vetting!Leave, Records
  <2> QED
    BY <2>2 DEF Vetting!Next
<1>4. CASE UNCHANGED <<kycs, kycStatus, users>>
  BY <1>4 DEF Vetting!vars
<1> QED
  BY <1>1, <1>2, <1>3, <1>4
     DEF Next, Submit, Start, Continue, vars, CreatePackageVerification,
         ReviewPackageVerification, CreateNotification, MarkNotificationRead,
         DeleteNotification, CreateTravelerListing, StartDeliveryRequest,
         CreateDeliveryRequest, CreateMatch

(* The memory store keeps the contract of identity checks: a verdict is on the *)
(* case and on its owner's record at the same time, and only a review puts it  *)
(* there.                                                                      *)
THEOREM MarketKeepsVerdicts == Spec => KeepsVerdicts
<1>1. Init => Vetting!Init
  BY DEF Init, Vetting!Init
<1> QED
  BY <1>1, VettingStep, MarketInductive, PTL DEF Spec, KeepsVerdicts, Vetting!Spec

=============================================================================
