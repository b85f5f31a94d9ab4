---------------------------- MODULE Deals_proofs ----------------------------
(***************************************************************************)
(* Proofs about Deals, for any matches, escrows, coverages and workers.    *)
(***************************************************************************)
EXTENDS Deals, SequenceTheorems, TLAPS

-----------------------------------------------------------------------------
(* Steps of the escrows *)

LEMMA IdleTyped == Idle \in WorkerStates
BY DEF Idle, WorkerStates

\* Of the contract only this matters here: one open escrow moves, and nothing
\* that was released or refunded moves again.
LEMMA ProceedStep ==
    ASSUME TypeOK, NEW e \in Escrows, Proceed(e)
    PROVE  /\ e \in open /\ open' \subseteq open
           /\ \/ status' = status
              \/ \E s \in {"funded", "disputed", "released", "refunded"} :
                    /\ status' = [status EXCEPT ![e] = s]
                    /\ status[e] \in {"pending_funding", "funded", "disputed"}
                    /\ s = "released" => terms[e].match \in delivered
           /\ UNCHANGED <<terms, delivered, claims, reviews, workers>>
<1>1. open \subseteq DOMAIN terms /\ open \subseteq Escrows
  BY DEF TypeOK
<1> QED
  BY <1>1 DEF Proceed, Release, Contract!Fund, Contract!Dispute, Contract!Release,
              Contract!Refund, Contract!Delete, Contract!Advance

\* Terms once given stay, a released escrow stays released and a delivered match
\* delivered.
Steady ==
    /\ DOMAIN terms \subseteq DOMAIN terms'
    /\ \A f \in DOMAIN terms : terms'[f] = terms[f]
    /\ \A f \in DOMAIN terms : status[f] = "released" => status'[f] = "released"
    /\ delivered \subseteq delivered'

LEMMA SteadyKeepsInv ==
    ASSUME IInv, Steady, UNCHANGED <<claims, reviews, workers>>
    PROVE  WorkersOK' /\ RatedAfterDelivery' /\ OneRatingPerParty' /\ OnePendingClaim'
           /\ ClaimsAreCovered'
<1>1. WorkersOK'
  <2> SUFFICES ASSUME NEW w \in Workers
               PROVE  /\ workers[w].pc = "claim" =>
                            /\ workers[w].subject \in DOMAIN terms'
                            /\ Party(workers[w].user, terms'[workers[w].subject].match)
                      /\ workers[w].pc = "rate" =>
                            /\ Party(workers[w].user, workers[w].subject)
                            /\ \E e \in DOMAIN terms' :
                                  terms'[e].match = workers[w].subject /\ status'[e] = "released"
    BY DEF WorkersOK, Party
  <2> QED
    BY DEF IInv, WorkersOK, Steady
<1>2. RatedAfterDelivery'
  BY DEF IInv, RatedAfterDelivery, Steady
<1>3. OneRatingPerParty' /\ OnePendingClaim'
  BY DEF IInv, OneRatingPerParty, OnePendingClaim
<1>4. ClaimsAreCovered'
  <2> SUFFICES ASSUME NEW i \in DOMAIN claims
               PROVE  /\ claims[i].escrow \in DOMAIN terms'
                      /\ claims[i].amount \in 1 .. terms'[claims[i].escrow].coverage
                      /\ Party(claims[i].claimant, terms'[claims[i].escrow].match)
    BY DEF ClaimsAreCovered, Party
  <2> QED
    BY DEF IInv, ClaimsAreCovered, Steady
<1> QED
  BY <1>1, <1>2, <1>3, <1>4

LEMMA CreateEscrowStep ==
    ASSUME IInv, NEW e \in Escrows, NEW m \in Matches, NEW c \in Coverages, CreateEscrow(e, m, c)
    PROVE  IInv'
<1>1. /\ status[e] = "absent" /\ e \notin DOMAIN terms
      /\ status' = [status EXCEPT ![e] = "pending_funding"]
      /\ open' = open \cup {e}
  BY DEF CreateEscrow, Contract!Create, IInv, EscrowsOK
<1>2. /\ DOMAIN terms' = DOMAIN terms \cup {e}
      /\ terms'[e] = [match |-> m, coverage |-> c]
      /\ \A f \in DOMAIN terms : terms'[f] = terms[f]
      /\ UNCHANGED <<delivered, claims, reviews, workers>>
  BY <1>1 DEF CreateEscrow, Contract!Create
<1>3. TypeOK'
  <2>1. terms' \in [DOMAIN terms' -> Terms]
    <3>1. terms' = [f \in DOMAIN terms' |-> terms'[f]]
      BY <1>2 DEF CreateEscrow
    <3>2. \A f \in DOMAIN terms' : terms'[f] \in Terms
      BY <1>2 DEF IInv, TypeOK, Terms
    <3> QED
      BY <3>1, <3>2
  <2> QED
    BY <1>1, <1>2, <2>1 DEF IInv, TypeOK, Statuses
<1>4. EscrowsOK'
  BY <1>1, <1>2 DEF IInv, EscrowsOK, TypeOK
<1>5. Steady
  BY <1>1, <1>2 DEF Steady, IInv, TypeOK
<1> QED
  BY <1>2, <1>3, <1>4, <1>5, SteadyKeepsInv DEF IInv

LEMMA AddTrackingEventStep ==
    ASSUME IInv, NEW m \in Matches, AddTrackingEvent(m)
    PROVE  IInv'
<1>1. /\ delivered \subseteq delivered' /\ delivered' \subseteq Matches
      /\ UNCHANGED <<status, open, terms, claims, reviews, workers>>
  BY DEF AddTrackingEvent, Contract!Deliver, IInv, TypeOK
<1>2. TypeOK' /\ EscrowsOK' /\ Steady
  BY <1>1 DEF IInv, TypeOK, EscrowsOK, Steady
<1> QED
  BY <1>1, <1>2, SteadyKeepsInv DEF IInv

LEMMA ProceedKeepsInv ==
    ASSUME IInv, NEW e \in Escrows, Proceed(e)
    PROVE  IInv'
<1>1. /\ e \in open /\ open' \subseteq open /\ e \in DOMAIN terms
      /\ UNCHANGED <<terms, delivered, claims, reviews, workers>>
  BY ProceedStep DEF IInv, TypeOK
<1>2. CASE status' = status
  <2>1. TypeOK' /\ EscrowsOK' /\ Steady
    BY <1>1, <1>2 DEF IInv, TypeOK, EscrowsOK, Steady
  <2> QED
    BY <1>1, <2>1, SteadyKeepsInv DEF IInv
<1>3. ASSUME NEW s \in {"funded", "disputed", "released", "refunded"},
             status' = [status EXCEPT ![e] = s],
             status[e] \in {"pending_funding", "funded", "disputed"},
             s = "released" => terms[e].match \in delivered
      PROVE  IInv'
  <2>1. TypeOK'
    BY <1>1, <1>3 DEF IInv, TypeOK, Statuses
  <2>2. EscrowsOK'
    BY <1>1, <1>3 DEF IInv, TypeOK, EscrowsOK
  <2>3. Steady
    BY <1>1, <1>3 DEF IInv, TypeOK, Steady
  <2> QED
    BY <1>1, <2>1, <2>2, <2>3, SteadyKeepsInv DEF IInv
<1> QED
  BY <1>2, <1>3, ProceedStep DEF IInv

-----------------------------------------------------------------------------
(* Claims and ratings *)

\* Starting a request disturbs nothing but the worker.
LEMMA BeginStep ==
    ASSUME IInv, NEW w \in Workers, NEW task \in WorkerStates,
           workers' = [workers EXCEPT ![w] = task],
           task.pc = "claim" =>
              /\ task.subject \in DOMAIN terms
              /\ Party(task.user, terms[task.subject].match),
           task.pc = "rate" =>
              /\ Party(task.user, task.subject)
              /\ \E e \in DOMAIN terms : terms[e].match = task.subject /\ status[e] = "released",
           UNCHANGED <<status, open, terms, delivered>>
    PROVE  WorkersOK' /\ EscrowsOK' /\ workers' \in [Workers -> WorkerStates]
<1>1. workers' \in [Workers -> WorkerStates]
  BY DEF IInv, TypeOK
<1>2. ASSUME NEW v \in Workers
      PROVE  /\ workers'[v].pc = "claim" =>
                   /\ workers'[v].subject \in DOMAIN terms
                   /\ Party(workers'[v].user, terms[workers'[v].subject].match)
             /\ workers'[v].pc = "rate" =>
                   /\ Party(workers'[v].user, workers'[v].subject)
                   /\ \E e \in DOMAIN terms :
                         terms[e].match = workers'[v].subject /\ status[e] = "released"
  <2>1. CASE v = w
    <3>1. workers'[v] = task
      BY <2>1 DEF IInv, TypeOK
    <3> QED
      BY <3>1
  <2>2. CASE v # w
    <3>1. workers'[v] = workers[v]
      BY <2>2 DEF IInv, TypeOK
    <3> QED
      BY <3>1 DEF IInv, WorkersOK
  <2> QED
    BY <2>1, <2>2
<1>3. WorkersOK'
  BY <1>2 DEF WorkersOK, Party
<1>4. EscrowsOK'
  BY DEF IInv, EscrowsOK
<1> QED
  BY <1>1, <1>3, <1>4

LEMMA FinishStep ==
    ASSUME IInv, NEW w \in Workers, Finish(w), UNCHANGED <<status, open, terms, delivered>>
    PROVE  WorkersOK' /\ EscrowsOK' /\ workers' \in [Workers -> WorkerStates]
<1>1. Idle \in WorkerStates /\ Idle.pc = "idle"
  BY IdleTyped DEF Idle
<1> QED
  BY <1>1, BeginStep DEF Finish

LEMMA StartClaimStep ==
    ASSUME IInv, NEW w \in Workers, NEW u \in Users, NEW e \in Escrows, NEW a \in Amounts,
           StartClaim(w, u, e, a)
    PROVE  IInv'
<1> DEFINE task == [pc |-> "claim", user |-> u, subject |-> e, amount |-> a]
<1>1. /\ task \in WorkerStates /\ task.pc = "claim" /\ task.subject = e /\ task.user = u
      /\ workers' = [workers EXCEPT ![w] = task]
  BY DEF StartClaim, Begin, WorkerStates
<1>2. e \in DOMAIN terms /\ Party(u, terms[e].match)
  BY DEF StartClaim, EscrowsOf, IInv, TypeOK
<1>3. UNCHANGED <<status, open, terms, delivered, claims, reviews>>
  BY DEF StartClaim, escrows
<1> HIDE DEF task
<1>4. WorkersOK' /\ EscrowsOK' /\ workers' \in [Workers -> WorkerStates]
  BY <1>1, <1>2, <1>3, BeginStep
<1> QED
  BY <1>3, <1>4 DEF IInv, TypeOK, RatedAfterDelivery, OneRatingPerParty, OnePendingClaim,
                    ClaimsAreCovered, Party

LEMMA StartReviewStep ==
    ASSUME IInv, NEW w \in Workers, NEW u \in Users, NEW m \in Matches, StartReview(w, u, m)
    PROVE  IInv'
<1> DEFINE task == [pc |-> "rate", user |-> u, subject |-> m, amount |-> 0]
<1>1. /\ task \in WorkerStates /\ task.pc = "rate" /\ task.subject = m /\ task.user = u
      /\ workers' = [workers EXCEPT ![w] = task]
  BY DEF StartReview, Begin, WorkerStates
<1>2. /\ Party(u, m)
      /\ \E e \in DOMAIN terms : terms[e].match = m /\ status[e] = "released"
  BY DEF StartReview, Completed, EscrowsOf, IInv, TypeOK
<1>3. UNCHANGED <<status, open, terms, delivered, claims, reviews>>
  BY DEF StartReview, escrows
<1> HIDE DEF task
<1>4. WorkersOK' /\ EscrowsOK' /\ workers' \in [Workers -> WorkerStates]
  BY <1>1, <1>2, <1>3, BeginStep
<1> QED
  BY <1>3, <1>4 DEF IInv, TypeOK, RatedAfterDelivery, OneRatingPerParty, OnePendingClaim,
                    ClaimsAreCovered, Party

LEMMA CreateInsuranceClaimStep ==
    ASSUME IInv, NEW w \in Workers, CreateInsuranceClaim(w)
    PROVE  IInv'
<1> DEFINE t == workers[w]
           claim == [escrow |-> t.subject, claimant |-> t.user,
                     amount |-> t.amount, status |-> "pending_review"]
<1>1. t \in [pc : {"claim"}, user : Users, subject : Escrows, amount : Amounts]
  BY DEF CreateInsuranceClaim, IInv, TypeOK, WorkerStates
<1>2. Finish(w) /\ UNCHANGED <<status, open, terms, delivered, reviews>>
  BY DEF CreateInsuranceClaim, escrows
<1>3. WorkersOK' /\ EscrowsOK' /\ workers' \in [Workers -> WorkerStates]
  BY <1>2, FinishStep
<1>4. RatedAfterDelivery' /\ OneRatingPerParty'
  BY <1>2 DEF IInv, RatedAfterDelivery, OneRatingPerParty
<1>5. CASE claims' = claims
  BY <1>2, <1>3, <1>4, <1>5 DEF IInv, TypeOK, OnePendingClaim, ClaimsAreCovered, Party
<1>6. CASE claims' # claims
  <2>1. /\ Covered(t.subject, t.amount) /\ Unclaimed(t.subject)
        /\ claims' = Append(claims, claim)
    BY <1>6 DEF CreateInsuranceClaim
  <2>2. claim \in Claims
    BY <1>1 DEF Claims
  <2>3. /\ claim.escrow = t.subject /\ claim.claimant = t.user /\ claim.amount = t.amount
        /\ claim.status = "pending_review"
    OBVIOUS
  <2>4. /\ t.subject \in DOMAIN terms
        /\ t.amount \in 1 .. terms[t.subject].coverage
        /\ Party(t.user, terms[t.subject].match)
    BY <1>1, <2>1 DEF Covered, IInv, WorkersOK
  <2> HIDE DEF claim
  <2>5. /\ claims' \in Seq(Claims)
        /\ DOMAIN claims' = DOMAIN claims \cup {Len(claims) + 1}
        /\ claims'[Len(claims) + 1] = claim
        /\ \A i \in DOMAIN claims : i # Len(claims) + 1 /\ claims'[i] = claims[i]
    BY <2>1, <2>2 DEF IInv, TypeOK
  <2>6. OnePendingClaim'
    <3>1. \A i \in DOMAIN claims :
              claims[i].escrow = claim.escrow => claims[i].status # "pending_review"
      BY <2>1, <2>3 DEF Unclaimed
    <3> QED
      BY <2>5, <3>1 DEF IInv, OnePendingClaim
  <2>7. ClaimsAreCovered'
    <3> SUFFICES ASSUME NEW i \in DOMAIN claims'
                 PROVE  /\ claims'[i].escrow \in DOMAIN terms
                        /\ claims'[i].amount \in 1 .. terms[claims'[i].escrow].coverage
                        /\ Party(claims'[i].claimant, terms[claims'[i].escrow].match)
      BY <1>2 DEF ClaimsAreCovered, Party
    <3>1. CASE i \in DOMAIN claims
      BY <2>5, <3>1 DEF IInv, ClaimsAreCovered
    <3>2. CASE i = Len(claims) + 1
      BY <2>3, <2>4, <2>5, <3>2
    <3> QED
      BY <2>5, <3>1, <3>2
  <2> QED
    BY <1>2, <1>3, <1>4, <2>5, <2>6, <2>7 DEF IInv, TypeOK
<1> QED
  BY <1>5, <1>6

LEMMA ReviewInsuranceClaimStep ==
    ASSUME IInv, NEW i \in DOMAIN claims, NEW v \in {"approved", "rejected"},
           ReviewInsuranceClaim(i, v)
    PROVE  IInv'
<1>1. UNCHANGED <<status, open, terms, delivered, reviews, workers>>
  BY DEF ReviewInsuranceClaim, escrows
<1>2. claims[i] \in Claims
  BY DEF IInv, TypeOK
<1>3. [claims[i] EXCEPT !.status = v] \in Claims
  BY <1>2 DEF Claims
<1>4. /\ claims' = [claims EXCEPT ![i] = [claims[i] EXCEPT !.status = v]]
      /\ claims' \in Seq(Claims) /\ DOMAIN claims' = DOMAIN claims
  BY <1>3 DEF ReviewInsuranceClaim, IInv, TypeOK
<1>5. \A j \in DOMAIN claims :
          /\ claims'[j].escrow = claims[j].escrow
          /\ claims'[j].claimant = claims[j].claimant
          /\ claims'[j].amount = claims[j].amount
          /\ claims'[j].status = "pending_review" => claims[j].status = "pending_review"
  BY <1>2, <1>4 DEF Claims
<1>6. OnePendingClaim'
  BY <1>4, <1>5 DEF IInv, OnePendingClaim
<1>7. ClaimsAreCovered'
  BY <1>1, <1>4, <1>5 DEF IInv, ClaimsAreCovered, Party
<1> QED
  BY <1>1, <1>4, <1>6, <1>7 DEF IInv, TypeOK, EscrowsOK, WorkersOK, RatedAfterDelivery,
                               OneRatingPerParty, Party

LEMMA CreateUserReviewStep ==
    ASSUME IInv, NEW w \in Workers, CreateUserReview(w)
    PROVE  IInv'
<1> DEFINE t == workers[w]
           review == [match |-> t.subject, author |-> t.user,
                      target |-> counterpartyForMatch(t.subject, t.user)]
<1>1. t \in [pc : {"rate"}, user : Users, subject : Matches, amount : {0}]
  BY DEF CreateUserReview, IInv, TypeOK, WorkerStates
<1>2. Finish(w) /\ UNCHANGED <<status, open, terms, delivered, claims>>
  BY DEF CreateUserReview, escrows
<1>3. WorkersOK' /\ EscrowsOK' /\ workers' \in [Workers -> WorkerStates]
  BY <1>2, FinishStep
<1>4. OnePendingClaim' /\ ClaimsAreCovered'
  BY <1>2 DEF IInv, OnePendingClaim, ClaimsAreCovered, Party
<1>5. CASE reviews' = reviews
  BY <1>2, <1>3, <1>4, <1>5 DEF IInv, TypeOK, RatedAfterDelivery, OneRatingPerParty
<1>6. CASE reviews' # reviews
  <2>1. Unrated(t.subject, t.user) /\ reviews' = Append(reviews, review)
    BY <1>6 DEF CreateUserReview
  <2>2. /\ review \in Reviews
        /\ {review.author, review.target} = {client[t.subject], traveler[t.subject]}
        /\ review.match = t.subject /\ review.author = t.user
    <3>1. t.user \in {client[t.subject], traveler[t.subject]}
      BY <1>1 DEF IInv, WorkersOK, Party
    <3> QED
      BY <1>1, <3>1, PartiesAssumption DEF Reviews, counterpartyForMatch
  <2>3. \E e \in DOMAIN terms : terms[e].match = t.subject /\ status[e] = "released"
    BY <1>1 DEF IInv, WorkersOK
  <2>4. t.subject \in delivered
    BY <2>3 DEF IInv, EscrowsOK, TypeOK
  <2> HIDE DEF review
  <2>5. /\ reviews' \in Seq(Reviews)
        /\ DOMAIN reviews' = DOMAIN reviews \cup {Len(reviews) + 1}
        /\ reviews'[Len(reviews) + 1] = review
        /\ \A i \in DOMAIN reviews : i # Len(reviews) + 1 /\ reviews'[i] = reviews[i]
    BY <2>1, <2>2 DEF IInv, TypeOK
  <2>6. RatedAfterDelivery'
    BY <1>2, <2>2, <2>3, <2>4, <2>5 DEF IInv, RatedAfterDelivery
  <2>7. OneRatingPerParty'
    <3>1. \A i \in DOMAIN reviews :
              ~(reviews[i].match = review.match /\ reviews[i].author = review.author)
      BY <2>1, <2>2 DEF Unrated
    <3>2. \A i, j \in DOMAIN reviews' :
              reviews'[i].match = reviews'[j].match /\ reviews'[i].author = reviews'[j].author
                  => i = j
      BY <2>5, <3>1 DEF IInv, OneRatingPerParty
    <3>3. \A i \in DOMAIN reviews' :
              {reviews'[i].author, reviews'[i].target}
                  = {client[reviews'[i].match], traveler[reviews'[i].match]}
      BY <2>2, <2>5 DEF IInv, OneRatingPerParty
    <3> QED
      BY <3>2, <3>3 DEF OneRatingPerParty
  <2> QED
    BY <1>2, <1>3, <1>4, <2>5, <2>6, <2>7 DEF IInv, TypeOK
<1> QED
  BY <1>5, <1>6

-----------------------------------------------------------------------------
(* The invariant *)

LEMMA InitInv == Init => IInv
<1> SUFFICES ASSUME Init PROVE IInv
  OBVIOUS
<1>1. /\ DOMAIN terms = {} /\ open = {} /\ delivered = {}
      /\ status = [e \in Escrows |-> "absent"]
      /\ claims = <<>> /\ reviews = <<>> /\ workers = [w \in Workers |-> Idle]
  BY DEF Init, Contract!Init
<1>2. terms \in [DOMAIN terms -> Terms]
  BY DEF Init
<1>3. TypeOK
  BY <1>1, <1>2, IdleTyped DEF TypeOK, Statuses
<1>4. EscrowsOK /\ WorkersOK
  BY <1>1 DEF EscrowsOK, WorkersOK, Idle
<1>5. RatedAfterDelivery /\ OneRatingPerParty /\ OnePendingClaim /\ ClaimsAreCovered
  BY <1>1 DEF RatedAfterDelivery, OneRatingPerParty, OnePendingClaim, ClaimsAreCovered
<1> QED
  BY <1>3, <1>4, <1>5 DEF IInv

LEMMA NextInv == IInv /\ [Next]_vars => IInv'
<1> SUFFICES ASSUME IInv, [Next]_vars PROVE IInv'
  OBVIOUS
<1>1. CASE UNCHANGED vars
  BY <1>1 DEF vars, IInv, TypeOK, EscrowsOK, WorkersOK, RatedAfterDelivery, OneRatingPerParty,
              OnePendingClaim, ClaimsAreCovered, Party
<1>2. CASE Next
  BY <1>2, CreateEscrowStep, AddTrackingEventStep, ProceedKeepsInv, ReviewInsuranceClaimStep,
     StartClaimStep, StartReviewStep, CreateInsuranceClaimStep, CreateUserReviewStep
     DEF Next, Start, Continue
<1> QED
  BY <1>1, <1>2

\* The inductive invariant: what a handler found about the escrow and the user
\* stays true while its request waits for the store, whoever deletes the row.
THEOREM InvariantCorrect == Spec => []IInv
BY InitInv, NextInv, PTL DEF Spec

\* Nobody is rated for a delivery that was not made and paid for.
THEOREM RatedAfterDeliveryCorrect == Spec => []RatedAfterDelivery
<1>1. IInv => RatedAfterDelivery
  BY DEF IInv
<1> QED
  BY <1>1, InvariantCorrect, PTL

\* Each party rates the other once, with any number of requests under way.
THEOREM OneRatingPerPartyCorrect == Spec => []OneRatingPerParty
<1>1. IInv => OneRatingPerParty
  BY DEF IInv
<1> QED
  BY <1>1, InvariantCorrect, PTL

\* One claim at most waits for its review on each escrow.
THEOREM OnePendingClaimCorrect == Spec => []OnePendingClaim
<1>1. IInv => OnePendingClaim
  BY DEF IInv
<1> QED
  BY <1>1, InvariantCorrect, PTL

\* Each claim is a party's and within the coverage of its escrow.
THEOREM ClaimsAreCoveredCorrect == Spec => []ClaimsAreCovered
<1>1. IInv => ClaimsAreCovered
  BY DEF IInv
<1> QED
  BY <1>1, InvariantCorrect, PTL

-----------------------------------------------------------------------------
(* The escrows of Deals and those of EscrowContract *)

\* A service that keeps EscrowContract moves money as well, and here it gives an
\* escrow its coverage when it is made.
VARIABLE moved

Promise == INSTANCE EscrowContract WITH
    match <- [e \in Escrows |-> IF e \in DOMAIN terms THEN terms[e].match ELSE NoMatch]

TermsGiven ==
    /\ DOMAIN terms' = {e \in Escrows : status'[e] # "absent"}
    /\ terms' \in [DOMAIN terms' -> Terms]
    /\ \A e \in DOMAIN terms : terms'[e] = terms[e]

EscrowService == Promise!Next /\ TermsGiven /\ UNCHANGED <<claims, reviews, workers>>
Parties ==
    /\ \/ \E i \in DOMAIN claims, v \in {"approved", "rejected"} : ReviewInsuranceClaim(i, v)
       \/ \E w \in Workers : Start(w) \/ Continue(w)
    /\ UNCHANGED moved

Together == Init /\ Promise!Init /\ [][EscrowService \/ Parties]_<<vars, moved>>

LEMMA EscrowServiceStep ==
    ASSUME IInv, EscrowService
    PROVE  [Next]_vars
<1> DEFINE Match == [e \in Escrows |-> IF e \in DOMAIN terms THEN terms[e].match ELSE NoMatch]
<1>1. DOMAIN terms = {e \in Escrows : status[e] # "absent"} /\ status \in [Escrows -> Statuses]
  BY DEF IInv, TypeOK, EscrowsOK
<1>2. /\ DOMAIN terms' = {e \in Escrows : status'[e] # "absent"}
      /\ terms' = [f \in DOMAIN terms' |-> terms'[f]]
      /\ \A f \in DOMAIN terms' : terms'[f] \in Terms
      /\ \A f \in DOMAIN terms : terms'[f] = terms[f]
      /\ UNCHANGED <<claims, reviews, workers>>
  BY DEF EscrowService, TermsGiven
<1>3. terms = [f \in DOMAIN terms |-> terms[f]]
  BY DEF IInv, TypeOK
<1>4. ASSUME NEW e \in Escrows, NEW m \in Matches, Promise!Create(e, m)
      PROVE  \E c \in Coverages : CreateEscrow(e, m, c)
  <2>1. /\ status[e] = "absent" /\ status' = [status EXCEPT ![e] = "pending_funding"]
        /\ \A f \in open : Match[f] # m
        /\ Match' = [Match EXCEPT ![e] = m]
        /\ open' = open \cup {e} /\ UNCHANGED delivered
    BY <1>4 DEF Promise!Create
  <2>2. e \notin DOMAIN terms /\ DOMAIN terms' = DOMAIN terms \cup {e}
    BY <1>1, <1>2, <2>1 DEF Statuses
  <2>3. Match'[e] = m /\ Match'[e] = terms'[e].match
    BY <1>2, <2>1, <2>2
  <2>4. PICK c \in Coverages : terms'[e] = [match |-> m, coverage |-> c]
    BY <1>2, <2>2, <2>3 DEF Terms
  <2>5. terms' = [f \in DOMAIN terms \cup {e} |->
                     IF f = e THEN [match |-> m, coverage |-> c] ELSE terms[f]]
    BY <1>2, <2>2, <2>4
  <2>6. Contract!Create(e, m)
    BY <2>1 DEF Contract!Create
  <2> QED
    BY <1>2, <2>5, <2>6 DEF CreateEscrow
<1>5. ASSUME DOMAIN terms' = DOMAIN terms
      PROVE  UNCHANGED terms
  BY <1>2, <1>3, <1>5
<1>6. ASSUME NEW m \in Matches, Promise!Deliver(m)
      PROVE  AddTrackingEvent(m)
  <2>1. UNCHANGED <<status, open, Match>> /\ delivered' = delivered \cup {m}
    BY <1>6 DEF Promise!Deliver
  <2>2. UNCHANGED terms
    BY <1>1, <1>2, <1>5, <2>1
  <2> QED
    BY <1>2, <2>1, <2>2 DEF AddTrackingEvent, Contract!Deliver
<1>7. ASSUME NEW e \in Escrows, NEW from, NEW to \in Statuses \ {"absent"},
             Promise!Advance(e, from, to), "absent" \notin from
      PROVE  Contract!Advance(e, from, to) /\ UNCHANGED terms
  <2>1. /\ e \in open /\ status[e] \in from
        /\ status' = [status EXCEPT ![e] = to] /\ UNCHANGED <<Match, open, delivered>>
    BY <1>7 DEF Promise!Advance
  <2>2. UNCHANGED terms
    BY <1>1, <1>2, <1>5, <1>7, <2>1
  <2> QED
    BY <2>1, <2>2 DEF Contract!Advance
<1>8. ASSUME NEW e \in Escrows, Promise!Delete(e)
      PROVE  Contract!Delete(e) /\ UNCHANGED terms
  <2>1. e \in open /\ open' = open \ {e} /\ UNCHANGED <<status, Match, delivered>>
    BY <1>8 DEF Promise!Delete
  <2>2. UNCHANGED terms
    BY <1>1, <1>2, <1>5, <2>1
  <2> QED
    BY <2>1, <2>2 DEF Contract!Delete
<1>9. ASSUME NEW e \in Escrows, Promise!Pay(e) \/ Promise!Return(e)
      PROVE  UNCHANGED vars
  <2>1. UNCHANGED <<status, open, delivered>>
    BY <1>9 DEF Promise!Pay, Promise!Return, Promise!Move
  <2> QED
    BY <1>1, <1>2, <1>5, <2>1 DEF vars
<1>10. ASSUME NEW e \in Escrows,
              Promise!Fund(e) \/ Promise!Dispute(e) \/ Promise!Release(e) \/ Promise!Refund(e)
              \/ Promise!Delete(e)
       PROVE  Proceed(e)
  <2>1. {"funded", "disputed", "released", "refunded"} \subseteq Statuses \ {"absent"}
    BY DEF Statuses
  <2>2. CASE Promise!Release(e)
    <3>1. Match[e] \in delivered /\ Promise!Advance(e, {"funded"}, "released")
      BY <2>2 DEF Promise!Release
    <3>2. Contract!Advance(e, {"funded"}, "released") /\ UNCHANGED terms
      BY <1>7, <2>1, <3>1
    <3> QED
      BY <1>2, <3>1, <3>2 DEF Proceed, Release, Contract!Release
  <2> QED
    BY <1>2, <1>7, <1>8, <1>10, <2>1, <2>2 DEF Proceed, Promise!Fund, Promise!Dispute,
       Promise!Refund, Contract!Fund, Contract!Dispute, Contract!Refund
<1> QED
  BY <1>4, <1>6, <1>9, <1>10 DEF EscrowService, Promise!Next, Next

\* Whatever runs the escrows, as long as it keeps EscrowContract, lets happen what
\* Deals lets happen: with EscrowPayments, which keeps it, the properties above
\* hold of its escrows, though its handlers and the parties know nothing of each
\* other.
THEOREM Composition == Together => Spec
<1>1. IInv /\ [EscrowService \/ Parties]_<<vars, moved>> => [Next]_vars
  BY EscrowServiceStep DEF Parties, Next, vars
<1> QED
  BY <1>1, InitInv, NextInv, PTL DEF Together, Spec

\* Where the money is says what was decided, whoever claims or rates.
MoneyFollows ==
    /\ DOMAIN moved = Escrows
    /\ \A e \in Escrows : moved[e] # "nowhere" =>
           <<status[e], moved[e]>> \in {<<"released", "traveler">>, <<"refunded", "client">>}

RatedIsNotPaidBack ==
    \A i \in DOMAIN reviews :
        \E e \in Escrows : /\ terms[e].match = reviews[i].match
                            /\ status[e] = "released"
                            /\ moved[e] \in {"nowhere", "traveler"}

LEMMA MoneyStep ==
    ASSUME IInv, MoneyFollows, [EscrowService \/ Parties]_<<vars, moved>>
    PROVE  MoneyFollows'
<1>1. DOMAIN status = Escrows
  BY DEF IInv, TypeOK
<1>2. CASE UNCHANGED <<status, moved>>
  BY <1>2 DEF MoneyFollows
<1>3. CASE Parties
  <2>1. UNCHANGED <<status, moved>>
    BY <1>3 DEF Parties, Start, Continue, StartClaim, StartReview, CreateInsuranceClaim,
       CreateUserReview, ReviewInsuranceClaim, escrows
  <2> QED
    BY <1>2, <2>1
<1>4. ASSUME NEW e \in Escrows, NEW from, NEW to, Promise!Advance(e, from, to),
             from \cap {"released", "refunded"} = {}
      PROVE  MoneyFollows'
  <2>1. /\ status[e] \in from /\ UNCHANGED moved
        /\ \A f \in Escrows \ {e} : status'[f] = status[f]
    BY <1>1, <1>4 DEF Promise!Advance
  <2>2. moved[e] = "nowhere"
    BY <1>4, <2>1 DEF MoneyFollows
  <2> QED
    BY <2>1, <2>2 DEF MoneyFollows
<1>5. ASSUME NEW e \in Escrows, NEW m, Promise!Create(e, m)
      PROVE  MoneyFollows'
  <2>1. /\ status[e] = "absent" /\ UNCHANGED moved
        /\ \A f \in Escrows \ {e} : status'[f] = status[f]
    BY <1>1, <1>5 DEF Promise!Create
  <2>2. moved[e] = "nowhere"
    BY <2>1 DEF MoneyFollows
  <2> QED
    BY <2>1, <2>2 DEF MoneyFollows
<1>6. ASSUME NEW e \in Escrows, Promise!Pay(e) \/ Promise!Return(e)
      PROVE  MoneyFollows'
  <2>1. PICK decision, to : /\ Promise!Move(e, decision, to)
                            /\ <<decision, to>> \in {<<"released", "traveler">>,
                                                    <<"refunded", "client">>}
    BY <1>6 DEF Promise!Pay, Promise!Return
  <2>2. status[e] = decision /\ moved' = [moved EXCEPT ![e] = to] /\ UNCHANGED status
    BY <2>1 DEF Promise!Move
  <2> QED
    BY <2>1, <2>2 DEF MoneyFollows
<1>7. CASE EscrowService
  <2>1. ASSUME NEW e \in Escrows,
               Promise!Fund(e) \/ Promise!Dispute(e) \/ Promise!Release(e) \/ Promise!Refund(e)
        PROVE  MoneyFollows'
    BY <1>4, <2>1 DEF Promise!Fund, Promise!Dispute, Promise!Release, Promise!Refund
  <2>2. ASSUME NEW e \in Escrows, Promise!Delete(e)
        PROVE  MoneyFollows'
    BY <1>2, <2>2 DEF Promise!Delete
  <2>3. ASSUME NEW m \in Matches, Promise!Deliver(m)
        PROVE  MoneyFollows'
    BY <1>2, <2>3 DEF Promise!Deliver
  <2> QED
    BY <1>5, <1>6, <1>7, <2>1, <2>2, <2>3 DEF EscrowService, Promise!Next
<1> QED
  BY <1>2, <1>3, <1>7 DEF vars

\* What neither part can say alone: behind every rating stands an escrow whose
\* money is with the traveler or not paid out yet, and never with the client,
\* whatever was disputed, refunded, deleted or claimed meanwhile.
THEOREM RatedIsNotPaidBackCorrect == Together => []RatedIsNotPaidBack
<1>1. Init /\ Promise!Init => MoneyFollows
  BY DEF Promise!Init, MoneyFollows
<1>2. IInv /\ MoneyFollows => RatedIsNotPaidBack
  <2> SUFFICES ASSUME IInv, MoneyFollows, NEW i \in DOMAIN reviews
               PROVE  \E e \in Escrows : /\ terms[e].match = reviews[i].match
                                          /\ status[e] = "released"
                                          /\ moved[e] \in {"nowhere", "traveler"}
    BY DEF RatedIsNotPaidBack
  <2>1. PICK e \in DOMAIN terms : terms[e].match = reviews[i].match /\ status[e] = "released"
    BY DEF IInv, RatedAfterDelivery
  <2>2. e \in Escrows
    BY <2>1 DEF IInv, TypeOK
  <2> QED
    BY <2>1, <2>2 DEF MoneyFollows
<1>3. IInv /\ MoneyFollows /\ [EscrowService \/ Parties]_<<vars, moved>> => MoneyFollows'
  BY MoneyStep
<1>4. Together => []IInv
  BY Composition, InvariantCorrect, PTL
<1> QED
  BY <1>1, <1>2, <1>3, <1>4, PTL DEF Together
=============================================================================
