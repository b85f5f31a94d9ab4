------------------------------- MODULE Deals -------------------------------
(***************************************************************************)
(* What the two parties of a match may do around its escrows: insure them, *)
(* claim on the insurance, and rate each other when all is done.           *)
(*                                                                         *)
(* The escrows themselves follow EscrowContract, which EscrowPayments      *)
(* implements: whatever the handlers there do is a step here.  This module *)
(* adds the coverage.  A claim and a rating are two steps each: the handler*)
(* looks up the user's escrows, then calls the store, and the parties and  *)
(* the admins act in between.                                              *)
(***************************************************************************)
EXTENDS Naturals, Sequences, FiniteSets

CONSTANTS
    Users,
    Matches,
    client, traveler,   \* the parties of each match
    Escrows,            \* ids to be issued
    Workers,
    Coverages,          \* coverage limits; 0 for an escrow without insurance
    Amounts,            \* amounts claimed
    MaxClaims,
    NoMatch, NoUser, NoSubject

ASSUME PartiesAssumption ==
    /\ client \in [Matches -> Users]
    /\ traveler \in [Matches -> Users]
    /\ NoUser \notin Users

ASSUME NumbersAssumption ==
    /\ Coverages \subseteq Nat
    /\ Amounts \subseteq Nat
    /\ MaxClaims \in Nat

VARIABLES
    status, open,   \* as in EscrowContract: how far each escrow got, which rows are left
    terms,          \* match and coverage of every escrow ever created
    delivered,      \* as in EscrowContract: matches with a tracking event "delivered"
    claims,         \* insuranceClaims, in the order of their creation
    reviews,        \* userReviews, likewise
    workers

vars == <<status, open, terms, delivered, claims, reviews, workers>>
escrows == <<status, open, terms, delivered>>

\* Where the money goes is EscrowPayments' part.
Contract == INSTANCE EscrowContract WITH
    match <- [e \in Escrows |-> IF e \in DOMAIN terms THEN terms[e].match ELSE NoMatch],
    moved <- [e \in Escrows |-> "nowhere"]

-----------------------------------------------------------------------------
(* Data *)

Statuses == {"absent", "pending_funding", "funded", "disputed", "released", "refunded"}
Terms == [match : Matches, coverage : Coverages]
Claims == [escrow : Escrows, claimant : Users, amount : Amounts,
           status : {"pending_review", "approved", "rejected"}]
Reviews == [match : Matches, author : Users, target : Users]

WorkerStates ==
    [pc : {"idle"}, user : {NoUser}, subject : {NoSubject}, amount : {0}]
    \cup [pc : {"claim"}, user : Users, subject : Escrows, amount : Amounts]
    \cup [pc : {"rate"}, user : Users, subject : Matches, amount : {0}]
Idle == [pc |-> "idle", user |-> NoUser, subject |-> NoSubject, amount |-> 0]

Begin(w, pc, u, subject, amount) ==
    /\ workers[w].pc = "idle"
    /\ workers' = [workers EXCEPT ![w] =
           [pc |-> pc, user |-> u, subject |-> subject, amount |-> amount]]
Finish(w) == workers' = [workers EXCEPT ![w] = Idle]

Init ==
    /\ terms = <<>>
    /\ Contract!Init
    /\ claims = <<>>
    /\ reviews = <<>>
    /\ workers = [w \in Workers |-> Idle]

-----------------------------------------------------------------------------
(* Escrows *)

Party(u, m) == u \in {client[m], traveler[m]}

\* A match whose escrow was deleted may have another, on other terms.
CreateEscrow(e, m, coverage) ==
    /\ terms' = [f \in DOMAIN terms \cup {e} |->
                     IF f = e THEN [match |-> m, coverage |-> coverage] ELSE terms[f]]
    /\ Contract!Create(e, m)
    /\ UNCHANGED <<claims, reviews, workers>>

AddTrackingEvent(m) ==
    /\ UNCHANGED terms
    /\ Contract!Deliver(m)
    /\ UNCHANGED <<claims, reviews, workers>>

\* Mutant: the lock on delivery is forgotten.
ReleaseUndelivered(e) == Contract!Advance(e, {"funded"}, "released")

Release(e) == Contract!Release(e)

Proceed(e) ==
    /\ UNCHANGED terms
    /\ \/ Contract!Fund(e) \/ Contract!Dispute(e) \/ Release(e) \/ Contract!Refund(e)
       \/ Contract!Delete(e)
    /\ UNCHANGED <<claims, reviews, workers>>

\* ListEscrowsByUser.
EscrowsOf(u) == {e \in open : Party(u, terms[e].match)}

-----------------------------------------------------------------------------
(* Insurance claims *)

StartClaim(w, u, e, amount) ==
    /\ e \in EscrowsOf(u)
    /\ Begin(w, "claim", u, e, amount)
    /\ UNCHANGED <<escrows, claims, reviews>>

\* Mutant: a claim that was granted bars another, one that waits does not.
UnclaimedSoFar(e) ==
    \A i \in DOMAIN claims : claims[i].escrow = e => claims[i].status # "approved"

Unclaimed(e) ==
    \A i \in DOMAIN claims : claims[i].escrow = e => claims[i].status # "pending_review"

\* Mutant: the limit is not looked at.
CoveredAnyhow(e, amount) == e \in open /\ terms[e].coverage > 0 /\ amount > 0

\* The row is read again under the store's lock.
Covered(e, amount) == e \in open /\ amount \in 1 .. terms[e].coverage

CreateInsuranceClaim(w) ==
    LET t == workers[w] IN
    /\ t.pc = "claim"
    /\ claims' =
           IF Covered(t.subject, t.amount) /\ Unclaimed(t.subject)
           THEN Append(claims, [escrow |-> t.subject, claimant |-> t.user,
                                amount |-> t.amount, status |-> "pending_review"])
           ELSE claims
    /\ Finish(w)
    /\ UNCHANGED <<escrows, reviews>>

\* Any claim may be reviewed, and reviewed again, also when its escrow is gone.
ReviewInsuranceClaim(i, verdict) ==
    /\ claims' = [claims EXCEPT ![i].status = verdict]
    /\ UNCHANGED <<escrows, reviews, workers>>

-----------------------------------------------------------------------------
(* Ratings *)

\* Who is both parties of a match rates as its client.
counterpartyForMatch(m, u) == IF u = client[m] THEN traveler[m] ELSE client[m]

\* Mutant: an escrow that was paid out either way will do.
CompletedEither(m, u) ==
    \E e \in EscrowsOf(u) : terms[e].match = m /\ status[e] \in {"released", "refunded"}

Completed(m, u) == \E e \in EscrowsOf(u) : terms[e].match = m /\ status[e] = "released"

StartReview(w, u, m) ==
    /\ Party(u, m)
    /\ Completed(m, u)
    /\ Begin(w, "rate", u, m, 0)
    /\ UNCHANGED <<escrows, claims, reviews>>

\* Mutant: one rating of a match is enough.
UnratedMatch(m, u) == \A i \in DOMAIN reviews : reviews[i].match # m

\* Mutant: the other party's id is compared.
UnratedTarget(m, u) ==
    \A i \in DOMAIN reviews : ~(reviews[i].match = m /\ reviews[i].target = u)

Unrated(m, u) == \A i \in DOMAIN reviews : ~(reviews[i].match = m /\ reviews[i].author = u)

CreateUserReview(w) ==
    LET t == workers[w] IN
    /\ t.pc = "rate"
    /\ reviews' =
           IF Unrated(t.subject, t.user)
           THEN Append(reviews, [match |-> t.subject, author |-> t.user,
                                 target |-> counterpartyForMatch(t.subject, t.user)])
           ELSE reviews
    /\ Finish(w)
    /\ UNCHANGED <<escrows, claims>>

-----------------------------------------------------------------------------
(* Specification *)

\* Every worker that files a claim has room for it.
Room == Len(claims) + Cardinality({w \in Workers : workers[w].pc = "claim"}) < MaxClaims

Start(w) ==
    \/ \E u \in Users, e \in Escrows, a \in Amounts : Room /\ StartClaim(w, u, e, a)
    \/ \E u \in Users, m \in Matches : StartReview(w, u, m)

Continue(w) == CreateInsuranceClaim(w) \/ CreateUserReview(w)

Next ==
    \/ \E e \in Escrows, m \in Matches, c \in Coverages : CreateEscrow(e, m, c)
    \/ \E m \in Matches : AddTrackingEvent(m)
    \/ \E e \in Escrows : Proceed(e)
    \/ \E i \in DOMAIN claims, v \in {"approved", "rejected"} : ReviewInsuranceClaim(i, v)
    \/ \E w \in Workers : Start(w) \/ Continue(w)

Spec == Init /\ [][Next]_vars

\* A goroutine that has started runs on.
FairSpec == Spec /\ \A w \in Workers : WF_vars(Continue(w))

-----------------------------------------------------------------------------
(* Properties *)

TypeOK ==
    /\ status \in [Escrows -> Statuses]
    /\ open \subseteq DOMAIN terms
    /\ DOMAIN terms \subseteq Escrows
    /\ terms \in [DOMAIN terms -> Terms]
    /\ delivered \subseteq Matches
    /\ claims \in Seq(Claims)
    /\ reviews \in Seq(Reviews)
    /\ workers \in [Workers -> WorkerStates]

\* A rating stands behind a completed delivery: its match was delivered and an
\* escrow of it released, whatever was disputed, deleted or created anew between
\* the look at the escrows and the insert.
RatedAfterDelivery ==
    \A i \in DOMAIN reviews :
        /\ reviews[i].match \in delivered
        /\ \E e \in DOMAIN terms : terms[e].match = reviews[i].match /\ status[e] = "released"

\* Each party rates the other, and once, however many requests run together.
OneRatingPerParty ==
    /\ \A i, j \in DOMAIN reviews :
          reviews[i].match = reviews[j].match /\ reviews[i].author = reviews[j].author => i = j
    /\ \A i \in DOMAIN reviews :
          {reviews[i].author, reviews[i].target}
              = {client[reviews[i].match], traveler[reviews[i].match]}

\* An admin never has two claims on one escrow to review, though both parties
\* may claim at once and a decided claim may be decided again.
OnePendingClaim ==
    \A i, j \in DOMAIN claims :
        /\ claims[i].escrow = claims[j].escrow
        /\ claims[i].status = "pending_review" /\ claims[j].status = "pending_review"
        => i = j

\* A claim is one of a party, within what its escrow was insured for.
ClaimsAreCovered ==
    \A i \in DOMAIN claims :
        /\ claims[i].escrow \in DOMAIN terms
        /\ claims[i].amount \in 1 .. terms[claims[i].escrow].coverage
        /\ Party(claims[i].claimant, terms[claims[i].escrow].match)

\* A party that found the escrow released has rated the other in the end, also
\* when the row is deleted first.
RatingIsStored ==
    \A u \in Users, m \in Matches :
        (\E w \in Workers : workers[w].pc = "rate" /\ workers[w].user = u
                                /\ workers[w].subject = m) ~>
            \E i \in DOMAIN reviews : reviews[i].match = m /\ reviews[i].author = u

-----------------------------------------------------------------------------
(* The inductive invariant behind the safety properties *)

\* An escrow that got anywhere has terms, and was delivered before it was released.
EscrowsOK ==
    \A e \in Escrows :
        /\ status[e] # "absent" <=> e \in DOMAIN terms
        /\ status[e] = "released" => terms[e].match \in delivered

\* What the handler found is still true of the worker, but for the row itself.
WorkersOK ==
    \A w \in Workers :
        /\ workers[w].pc = "claim" =>
              /\ workers[w].subject \in DOMAIN terms
              /\ Party(workers[w].user, terms[workers[w].subject].match)
        /\ workers[w].pc = "rate" =>
              /\ Party(workers[w].user, workers[w].subject)
              /\ \E e \in DOMAIN terms :
                    terms[e].match = workers[w].subject /\ status[e] = "released"

IInv ==
    /\ TypeOK
    /\ EscrowsOK
    /\ WorkersOK
    /\ RatedAfterDelivery
    /\ OneRatingPerParty
    /\ OnePendingClaim
    /\ ClaimsAreCovered

=============================================================================
