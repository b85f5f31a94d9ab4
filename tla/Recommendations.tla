-------------------------- MODULE Recommendations --------------------------
(***************************************************************************)
(* How the API scores a listing for a request, what price it suggests for  *)
(* the pair and in which order it shows several; and, around these         *)
(* functions, the lists people were shown and the matches made since.      *)
(* What else CreateMatch asks for is in Marketplace: here the travelers    *)
(* are verified and the packages approved.                                 *)
(*                                                                         *)
(* A place is a normalised name, so that equalPlace is equality, and two   *)
(* spellings of a name that the store's filter tells apart are left out.   *)
(* Time is in hours, weight in whole kilograms, money in whole cents; the factors  *)
(* of the code become hundredths.  The zero arrival date and the weights   *)
(* and prices that are not positive, which validateTravelerListing and     *)
(* validateDeliveryRequest refuse, are left out, and so is the text of the *)
(* reasons.                                                                *)
(***************************************************************************)
EXTENDS Integers, Sequences, FiniteSets

CONSTANTS
    Places,
    Within,     \* pairs of places, the name of the second containing the first's
    Listings, Requests,     \* ids
    listings, requests,     \* the rows of the store
    OfferedPrices,          \* prices a match may be asked for with
    Times

ListingRows == [origin : Places, destination : Places, type : {"city", "country"},
                capacity : Nat \ {0}, price : Nat \ {0}, arrival : Int]
RequestRows == [origin : Places, destination : Places, type : {"city", "country"},
                weight : Nat \ {0}, value : Nat]

ASSUME RowsAssumption ==
    /\ Within \subseteq Places \X Places
    /\ listings \in [Listings -> ListingRows]
    /\ requests \in [Requests -> RequestRows]
    /\ IsFiniteSet(Listings) /\ IsFiniteSet(Requests)
    /\ Listings \cap Requests = {}

ASSUME NumbersAssumption ==
    /\ OfferedPrices \subseteq Int
    /\ Times \subseteq Int

VARIABLES
    now,
    shown,      \* the last list shown for each request and for each listing
    matches

vars == <<now, shown, matches>>

-----------------------------------------------------------------------------
(* Score *)

compatibleCountryMatch(l, r) ==
    /\ l.type = "country" \/ r.type = "country"
    /\ \/ <<l.destination, r.destination>> \in Within
       \/ <<r.destination, l.destination>> \in Within

DestinationPoints(l, r) ==
    CASE l.destination = r.destination -> 35
      [] l.destination # r.destination /\ compatibleCountryMatch(l, r) -> 24
      [] OTHER -> 0

OriginPoints(l, r) == IF l.origin = r.origin THEN 16 ELSE 0

Fits(l, r) == r.weight <= l.capacity

\* Between a quarter and 85% of the capacity is the best fit.
CapacityPoints(l, r) ==
    CASE ~Fits(l, r) -> 0
      [] Fits(l, r) /\ 4 * r.weight < l.capacity -> 13
      [] Fits(l, r) /\ 4 * r.weight >= l.capacity /\ 20 * r.weight <= 17 * l.capacity -> 18
      [] OTHER -> 10

ArrivalPoints(l, time) ==
    LET hours == l.arrival - time IN
    CASE hours < 0 -> 0
      [] hours \in 0 .. 72 -> 18
      [] hours \in 73 .. 168 -> 13
      [] hours \in 169 .. 504 -> 8
      [] OTHER -> 4

ValuePoints(r) ==
    CASE r.value <= 250 -> 8
      [] r.value \in 251 .. 1000 -> 5
      [] OTHER -> 0

Feasible(l, r, time) ==
    /\ DestinationPoints(l, r) > 0
    /\ Fits(l, r)
    /\ l.arrival >= time

clampInt(v, low, high) == IF v < low THEN low ELSE IF v > high THEN high ELSE v

Score(l, r, time) ==
    LET points == DestinationPoints(l, r) + OriginPoints(l, r) + CapacityPoints(l, r)
                      + ArrivalPoints(l, time) + ValuePoints(r) + 5
        capped == IF ~Feasible(l, r, time) /\ points > 55 THEN 55 ELSE points
    IN clampInt(capped, 0, 100)

\* Mutant: what is not feasible is estimated like the rest.
acceptanceProbabilityAlike(score, feasible) == clampInt(20 + (3 * score) \div 4, 0, 95)

acceptanceProbability(score, feasible) ==
    IF feasible THEN clampInt(20 + (3 * score) \div 4, 0, 95)
    ELSE clampInt(score \div 2, 0, 45)

-----------------------------------------------------------------------------
(* SuggestedPrice *)

\* Mutant: only an arrival that lies ahead counts as urgent.
UrgencyAhead(l, time) ==
    LET hours == l.arrival - time IN
    CASE hours \in 0 .. 48 -> 18
      [] hours \in 49 .. 168 -> 8
      [] hours > 504 -> -6
      [] OTHER -> 0

\* An arrival in the past is as urgent as one within two days.
Urgency(l, time) ==
    LET hours == l.arrival - time IN
    CASE hours <= 48 -> 18
      [] hours \in 49 .. 168 -> 8
      [] hours > 504 -> -6
      [] OTHER -> 0

Load(l, r) ==
    CASE 4 * r.weight > 3 * l.capacity -> 12
      [] 5 * r.weight < l.capacity -> -5
      [] OTHER -> 0

Worth(r) ==
    CASE r.value <= 500 -> 0
      [] r.value \in 501 .. 1500 -> 6
      [] OTHER -> 14

SuggestedPrice(l, r, time) ==
    (l.price * r.weight * (100 + Urgency(l, time) + Load(l, r) + Worth(r)) + 50) \div 100

-----------------------------------------------------------------------------
(* ForRequest and ForListing *)

\* The entry for a pair, under the name of the listing or of the request.
Recommendation(name, l, r, time) ==
    LET score == Score(l, r, time)
        feasible == Feasible(l, r, time)
    IN [name |-> name, score |-> score, feasible |-> feasible,
        probability |-> acceptanceProbability(score, feasible),
        price |-> SuggestedPrice(l, r, time)]

Before(a, b) ==
    \/ a.feasible /\ ~b.feasible
    \/ a.feasible = b.feasible /\ a.score > b.score
    \/ a.feasible = b.feasible /\ a.score = b.score /\ a.price < b.price

\* sort.Slice is not stable: entries that tie come in any order.
IsRanking(list, entries) ==
    /\ {list[i] : i \in DOMAIN list} = entries
    /\ \A i, j \in DOMAIN list : i < j => list[i] # list[j] /\ ~Before(list[j], list[i])

Rankings(entries) ==
    {list \in [1 .. Cardinality(entries) -> entries] : IsRanking(list, entries)}

-----------------------------------------------------------------------------
(* Handlers *)

Init ==
    /\ now \in Times
    /\ shown = [x \in Listings \cup Requests |-> <<>>]
    /\ matches = {}

\* The store hands over only rows with the same destination.
recommendListingsForRequest(r) ==
    LET candidates == {l \in Listings : listings[l].destination = requests[r].destination}
        entries == {Recommendation(l, listings[l], requests[r], now) : l \in candidates}
    IN
    /\ \E list \in Rankings(entries) : shown' = [shown EXCEPT ![r] = list]
    /\ UNCHANGED <<now, matches>>

recommendRequestsForListing(l) ==
    LET candidates == {r \in Requests : requests[r].destination = listings[l].destination}
        entries == {Recommendation(r, listings[l], requests[r], now) : r \in candidates}
    IN
    /\ \E list \in Rankings(entries) : shown' = [shown EXCEPT ![l] = list]
    /\ UNCHANGED <<now, matches>>

\* Mutant: the price is taken as it was asked.
AgreedPriceAsAsked(l, r, asked) == asked

\* A price that is not positive stands for the one suggested now.
AgreedPrice(l, r, asked) ==
    IF asked > 0 THEN asked ELSE SuggestedPrice(listings[l], requests[r], now)

\* The pair need not have been shown to anyone, nor be feasible any more.
CreateMatch(l, r, asked) ==
    /\ Fits(listings[l], requests[r])
    /\ \A m \in matches : <<m.listing, m.request>> # <<l, r>>
    /\ matches' = matches \cup {[listing |-> l, request |-> r, asked |-> asked,
                                 price |-> AgreedPrice(l, r, asked)]}
    /\ UNCHANGED <<now, shown>>

\* Time goes by; it has an end here because Times may.
Tick(t) ==
    /\ t > now
    /\ now' = t
    /\ UNCHANGED <<shown, matches>>

Next ==
    \/ \E r \in Requests : recommendListingsForRequest(r)
    \/ \E l \in Listings : recommendRequestsForListing(l)
    \/ \E l \in Listings, r \in Requests, asked \in OfferedPrices : CreateMatch(l, r, asked)
    \/ \E t \in Times : Tick(t)

Spec == Init /\ [][Next]_vars

-----------------------------------------------------------------------------
(* Properties *)

Entries == [name : Listings \cup Requests, score : 5 .. 100, feasible : BOOLEAN,
            probability : 0 .. 95, price : Nat \ {0}]
\* asked is not in the row the store keeps: it tells the two kinds of price apart.
MatchRows == [listing : Listings, request : Requests, asked : OfferedPrices,
              price : Nat \ {0}]

TypeOK ==
    /\ now \in Times
    /\ shown \in [Listings \cup Requests -> Seq(Entries)]
    /\ matches \subseteq MatchRows

\* Lists are sorted by feasibility, score and price, and each entry carries an
\* estimate of how likely the other side accepts: nowhere in a list does the
\* estimate rise, though it comes of two formulas and feasibility goes first.
RankedByProbability ==
    \A x \in Listings \cup Requests : \A i, j \in DOMAIN shown[x] :
        i < j => shown[x][i].probability >= shown[x][j].probability

\* Who takes a shown pair at the suggested price pays what was shown or more,
\* however old the list is: urgency only grows.
DefaultPriceNeverBelowShown ==
    [][\A m \in matches' \ matches : m.asked <= 0 =>
          /\ \A i \in DOMAIN shown[m.request] :
                shown[m.request][i].name = m.listing => shown[m.request][i].price <= m.price
          /\ \A i \in DOMAIN shown[m.listing] :
                shown[m.listing][i].name = m.request => shown[m.listing][i].price <= m.price]_vars

-----------------------------------------------------------------------------
(* The inductive invariant behind the safety properties *)

\* What x is shown of y at time t.
EntryAt(x, y, t) ==
    IF x \in Requests THEN Recommendation(y, listings[y], requests[x], t)
    ELSE Recommendation(y, listings[x], requests[y], t)

\* A list is what the functions said at some time that has passed.
OnceRight(x) ==
    \E t \in Times : t <= now /\ \A i \in DOMAIN shown[x] :
        LET y == shown[x][i].name IN
        /\ y \in IF x \in Requests THEN Listings ELSE Requests
        /\ shown[x][i] = EntryAt(x, y, t)

IInv ==
    /\ TypeOK
    /\ RankedByProbability
    /\ \A x \in Listings \cup Requests : OnceRight(x)

=============================================================================
