----------------------- MODULE Recommendations_proofs -----------------------
(* What holds of scores, estimates and prices for every listing, request    *)
(* and time.                                                                *)
EXTENDS Recommendations, FiniteSetTheorems, SequenceTheorems, TLAPS

-----------------------------------------------------------------------------
(* Scores *)

\* The points of each part, and that a feasible pair has points for the
\* destination, for the fit and for the arrival.
LEMMA PartsOfScore ==
    ASSUME NEW l \in ListingRows, NEW r \in RequestRows, NEW time \in Int
    PROVE  /\ DestinationPoints(l, r) \in {0, 24, 35}
           /\ OriginPoints(l, r) \in {0, 16}
           /\ CapacityPoints(l, r) \in {0, 10, 13, 18}
           /\ ArrivalPoints(l, time) \in {0, 4, 8, 13, 18}
           /\ ValuePoints(r) \in {0, 5, 8}
           /\ Feasible(l, r, time) =>
                  /\ DestinationPoints(l, r) >= 24
                  /\ CapacityPoints(l, r) >= 10
                  /\ ArrivalPoints(l, time) >= 4
<1>1. /\ l.capacity \in Nat /\ l.arrival \in Int
      /\ r.weight \in Nat /\ r.value \in Nat
  BY DEF ListingRows, RequestRows
<1>2. DestinationPoints(l, r) \in {0, 24, 35}
  BY DEF DestinationPoints
<1>3. OriginPoints(l, r) \in {0, 16}
  BY DEF OriginPoints
<1>4. /\ CapacityPoints(l, r) \in {0, 10, 13, 18}
      /\ Fits(l, r) => CapacityPoints(l, r) >= 10
  <2>1. CASE ~Fits(l, r)
    BY <2>1 DEF CapacityPoints
  <2>2. CASE Fits(l, r)
    BY <1>1, <2>2 DEF CapacityPoints
  <2> QED
    BY <2>1, <2>2
<1>5. /\ ArrivalPoints(l, time) \in {0, 4, 8, 13, 18}
      /\ l.arrival >= time => ArrivalPoints(l, time) >= 4
  BY <1>1 DEF ArrivalPoints
<1>6. ValuePoints(r) \in {0, 5, 8}
  BY <1>1 DEF ValuePoints
<1> QED
  BY <1>2, <1>3, <1>4, <1>5, <1>6 DEF Feasible

\* The maximum of the parts is 100 and their minimum is above 0, so clampInt
\* never changes a score; only the cap of 55 does.
THEOREM ScoreInRange ==
    ASSUME NEW l \in ListingRows, NEW r \in RequestRows, NEW time \in Int
    PROVE  /\ Score(l, r, time) \in 5 .. 100
           /\ Feasible(l, r, time) => Score(l, r, time) >= 43
           /\ ~Feasible(l, r, time) => Score(l, r, time) <= 55
<1> DEFINE points == DestinationPoints(l, r) + OriginPoints(l, r) + CapacityPoints(l, r)
                         + ArrivalPoints(l, time) + ValuePoints(r) + 5
<1>1. points \in 5 .. 100
  BY PartsOfScore
<1>2. Feasible(l, r, time) => points >= 43
  BY PartsOfScore
<1>3. Score(l, r, time) = IF ~Feasible(l, r, time) /\ points > 55 THEN 55 ELSE points
  <2> HIDE DEF points
  <2>1. Score(l, r, time) =
            clampInt(IF ~Feasible(l, r, time) /\ points > 55 THEN 55 ELSE points, 0, 100)
    BY DEF Score, points
  <2> QED
    BY <1>1, <2>1 DEF clampInt
<1> HIDE DEF points
<1> QED
  BY <1>1, <1>2, <1>3

LEMMA FarApart ==
    ASSUME NEW a \in Int, NEW b \in Int, a >= 52, b <= 27
    PROVE  a > b
OBVIOUS

\* What is feasible is always estimated likelier than what is not, whatever
\* the two scores are: 52 percent and more against 27 and less.
THEOREM FeasibleIsLikelier ==
    ASSUME NEW l \in ListingRows, NEW r \in RequestRows,
           NEW k \in ListingRows, NEW q \in RequestRows, NEW time \in Int,
           Feasible(l, r, time), ~Feasible(k, q, time)
    PROVE  acceptanceProbability(Score(l, r, time), Feasible(l, r, time))
               > acceptanceProbability(Score(k, q, time), Feasible(k, q, time))
<1>1. Score(l, r, time) \in 43 .. 100 /\ Score(k, q, time) \in 5 .. 55
  BY ScoreInRange
<1>2. /\ acceptanceProbability(Score(l, r, time), TRUE) \in Int
      /\ acceptanceProbability(Score(l, r, time), TRUE) >= 52
  BY <1>1 DEF acceptanceProbability, clampInt
<1>3. /\ acceptanceProbability(Score(k, q, time), FALSE) \in Int
      /\ acceptanceProbability(Score(k, q, time), FALSE) <= 27
  BY <1>1 DEF acceptanceProbability, clampInt
<1>4. /\ acceptanceProbability(Score(l, r, time), Feasible(l, r, time))
              = acceptanceProbability(Score(l, r, time), TRUE)
      /\ acceptanceProbability(Score(k, q, time), Feasible(k, q, time))
              = acceptanceProbability(Score(k, q, time), FALSE)
  BY DEF acceptanceProbability
<1>5. acceptanceProbability(Score(l, r, time), TRUE) > acceptanceProbability(Score(k, q, time), FALSE)
  BY <1>2, <1>3, FarApart, Zenon
<1> QED
  BY <1>4, <1>5, Zenon

\* Among pairs that are alike in feasibility a higher score never has the
\* lower estimate.
LEMMA EstimateFollowsScore ==
    ASSUME NEW s \in Nat, NEW t \in Nat, s <= t, NEW feasible \in BOOLEAN
    PROVE  /\ acceptanceProbability(s, feasible) <= acceptanceProbability(t, feasible)
           /\ acceptanceProbability(s, feasible) \in Int
BY DEF acceptanceProbability, clampInt

-----------------------------------------------------------------------------
(* Prices *)

LEMMA FactorBounds ==
    ASSUME NEW l \in ListingRows, NEW r \in RequestRows, NEW time \in Int
    PROVE  /\ Urgency(l, time) \in {18, 8, 0, -6}
           /\ Load(l, r) \in {12, 0, -5}
           /\ Worth(r) \in {0, 6, 14}
<1>1. /\ l.capacity \in Nat /\ l.arrival \in Int
      /\ r.weight \in Nat /\ r.value \in Nat
  BY DEF ListingRows, RequestRows
<1> QED
  BY <1>1 DEF Urgency, Load, Worth

LEMMA ProductsGrow ==
    ASSUME NEW a \in Nat, NEW b \in Nat, NEW c \in Nat, NEW d \in Nat, a <= b, c <= d
    PROVE  a * c <= b * d /\ a * c \in Nat /\ b * d \in Nat
<1>1. a * c <= b * c
  OBVIOUS
<1>2. b * c <= b * d
  OBVIOUS
<1> QED
  BY <1>1, <1>2

LEMMA RoundingGrows ==
    ASSUME NEW x \in Nat, NEW y \in Nat, x <= y
    PROVE  (x + 50) \div 100 <= (y + 50) \div 100
OBVIOUS

\* The price of a pair only rises as time goes by: a match made at the
\* default price after a list was shown never costs less than the list said.
THEOREM PriceRisesWithTime ==
    ASSUME NEW l \in ListingRows, NEW r \in RequestRows,
           NEW time \in Int, NEW later \in Int, time <= later
    PROVE  SuggestedPrice(l, r, time) <= SuggestedPrice(l, r, later)
<1> DEFINE base == l.price * r.weight
           Factor(t) == 100 + Urgency(l, t) + Load(l, r) + Worth(r)
<1>1. l.price \in Nat /\ r.weight \in Nat /\ l.arrival \in Int
  BY DEF ListingRows, RequestRows
<1>2. base \in Nat
  BY <1>1, ProductsGrow
<1>3. Urgency(l, time) <= Urgency(l, later)
  BY <1>1 DEF Urgency
<1>4. Factor(time) \in Nat /\ Factor(later) \in Nat /\ Factor(time) <= Factor(later)
  BY <1>3, FactorBounds
<1>5. /\ SuggestedPrice(l, r, time) = (base * Factor(time) + 50) \div 100
      /\ SuggestedPrice(l, r, later) = (base * Factor(later) + 50) \div 100
  BY DEF SuggestedPrice
<1> HIDE DEF base, Factor
<1>6. base * Factor(time) <= base * Factor(later)
      /\ base * Factor(time) \in Nat /\ base * Factor(later) \in Nat
  BY <1>2, <1>4, ProductsGrow
<1> QED
  BY <1>5, <1>6, RoundingGrows

LEMMA WorthGrows ==
    ASSUME NEW r, NEW q, r.value \in Nat, q.value \in Nat, r.value <= q.value
    PROVE  Worth(r) <= Worth(q)
<1>1. PICK v \in Nat, u \in Nat : r.value = v /\ q.value = u /\ v <= u
  OBVIOUS
<1>2. Worth(r) = IF v <= 500 THEN 0 ELSE IF v <= 1500 THEN 6 ELSE 14
  BY <1>1 DEF Worth
<1>3. Worth(q) = IF u <= 500 THEN 0 ELSE IF u <= 1500 THEN 6 ELSE 14
  BY <1>1 DEF Worth
<1> QED
  BY <1>1, <1>2, <1>3

LEMMA LoadGrows ==
    ASSUME NEW l, NEW r, NEW q, l.capacity \in Nat, r.weight \in Nat, q.weight \in Nat,
           r.weight <= q.weight
    PROVE  Load(l, r) <= Load(l, q)
<1>1. PICK c \in Nat, v \in Nat, u \in Nat :
          l.capacity = c /\ r.weight = v /\ q.weight = u /\ v <= u
  OBVIOUS
<1>2. Load(l, r) = IF 4 * v > 3 * c THEN 12 ELSE IF 5 * v < c THEN -5 ELSE 0
  BY <1>1 DEF Load
<1>3. Load(l, q) = IF 4 * u > 3 * c THEN 12 ELSE IF 5 * u < c THEN -5 ELSE 0
  BY <1>1 DEF Load
<1> QED
  BY <1>1, <1>2, <1>3

\* Of two requests that differ in weight or value the heavier and dearer one
\* is never cheaper to send with the same traveler.
THEOREM PriceGrowsWithWeight ==
    ASSUME NEW l \in ListingRows, NEW r \in RequestRows, NEW q \in RequestRows,
           NEW time \in Int, r.weight <= q.weight, r.value <= q.value
    PROVE  SuggestedPrice(l, r, time) <= SuggestedPrice(l, q, time)
<1> DEFINE base(x) == l.price * x.weight
           Factor(x) == 100 + Urgency(l, time) + Load(l, x) + Worth(x)
<1>1. /\ l.price \in Nat /\ l.capacity \in Nat
      /\ r.weight \in Nat /\ q.weight \in Nat /\ r.value \in Nat /\ q.value \in Nat
  BY DEF ListingRows, RequestRows
<1>2. base(r) \in Nat /\ base(q) \in Nat /\ base(r) <= base(q)
  BY <1>1, ProductsGrow
<1>3. Load(l, r) <= Load(l, q) /\ Worth(r) <= Worth(q)
  <2> HIDE DEF base, Factor
  <2>1. Worth(r) <= Worth(q)
    BY <1>1, WorthGrows
  <2>2. Load(l, r) <= Load(l, q)
    BY <1>1, LoadGrows
  <2> QED
    BY <2>1, <2>2
<1>4. Factor(r) \in Nat /\ Factor(q) \in Nat /\ Factor(r) <= Factor(q)
  BY <1>3, FactorBounds
<1>5. /\ SuggestedPrice(l, r, time) = (base(r) * Factor(r) + 50) \div 100
      /\ SuggestedPrice(l, q, time) = (base(q) * Factor(q) + 50) \div 100
  BY DEF SuggestedPrice
<1> HIDE DEF base, Factor
<1>6. /\ base(r) * Factor(r) <= base(q) * Factor(q)
      /\ base(r) * Factor(r) \in Nat /\ base(q) * Factor(q) \in Nat
  BY <1>2, <1>4, ProductsGrow
<1> QED
  BY <1>5, <1>6, RoundingGrows

LEMMA PriceIsPositive ==
    ASSUME NEW l \in ListingRows, NEW r \in RequestRows, NEW time \in Int
    PROVE  SuggestedPrice(l, r, time) \in Nat \ {0}
<1> DEFINE base == l.price * r.weight
           factor == 100 + Urgency(l, time) + Load(l, r) + Worth(r)
<1>1. l.price \in Nat /\ l.price >= 1 /\ r.weight \in Nat /\ r.weight >= 1
  BY DEF ListingRows, RequestRows
<1>2. 1 * 1 <= base /\ base \in Nat
  BY <1>1, ProductsGrow
<1>3. factor \in Nat /\ 50 <= factor
  BY FactorBounds
<1>4. SuggestedPrice(l, r, time) = (base * factor + 50) \div 100
  BY DEF SuggestedPrice
<1> HIDE DEF base, factor
<1>5. 1 * 50 <= base * factor /\ base * factor \in Nat
  BY <1>2, <1>3, ProductsGrow
<1>6. (50 + 50) \div 100 <= (base * factor + 50) \div 100
  BY <1>5, RoundingGrows
<1> QED
  BY <1>4, <1>5, <1>6

LEMMA RoundedBetween ==
    ASSUME NEW base \in Nat, NEW factor \in 89 .. 144
    PROVE  /\ 89 * base <= 100 * ((base * factor + 50) \div 100) + 50
           /\ 100 * ((base * factor + 50) \div 100) <= 144 * base + 50
<1>1. base * 89 <= base * factor /\ base * factor <= base * 144
  BY ProductsGrow
<1>2. PICK cents \in Nat : cents = base * factor
  BY ProductsGrow
<1>3. /\ 100 * ((cents + 50) \div 100) <= cents + 50
      /\ cents + 50 <= 100 * ((cents + 50) \div 100) + 99
  OBVIOUS
<1>4. base * 89 = 89 * base /\ base * 144 = 144 * base
  OBVIOUS
<1> QED
  BY <1>1, <1>2, <1>3, <1>4

\* The factors of SuggestedPrice together take off 11 percent at most and add
\* 44 at most, to the cent, whatever the trip, the parcel and the time.
THEOREM PriceWithinFactors ==
    ASSUME NEW l \in ListingRows, NEW r \in RequestRows, NEW time \in Int
    PROVE  /\ 89 * (l.price * r.weight) <= 100 * SuggestedPrice(l, r, time) + 50
           /\ 100 * SuggestedPrice(l, r, time) <= 144 * (l.price * r.weight) + 50
<1> DEFINE base == l.price * r.weight
           factor == 100 + Urgency(l, time) + Load(l, r) + Worth(r)
<1>1. l.price \in Nat /\ l.price >= 1 /\ r.weight \in Nat /\ r.weight >= 1
  BY DEF ListingRows, RequestRows
<1>2. base \in Nat
  BY <1>1, ProductsGrow
<1>3. factor \in 89 .. 144
  BY FactorBounds
<1>4. SuggestedPrice(l, r, time) = (base * factor + 50) \div 100
  BY DEF SuggestedPrice
<1> HIDE DEF factor, base
<1>5. /\ 89 * base <= 100 * ((base * factor + 50) \div 100) + 50
      /\ 100 * ((base * factor + 50) \div 100) <= 144 * base + 50
  BY <1>2, <1>3, RoundedBetween
<1> QED
  BY <1>4, <1>5 DEF base

-----------------------------------------------------------------------------
(* Lists *)

\* What sort.Slice asks of the function it is given: Before is irreflexive and
\* transitive, and so is the relation of entries neither of which is Before the
\* other.
THEOREM BeforeIsAnOrder ==
    ASSUME NEW a \in Entries, NEW b \in Entries, NEW c \in Entries
    PROVE  /\ ~Before(a, a)
           /\ Before(a, b) => ~Before(b, a)
           /\ Before(a, b) /\ Before(b, c) => Before(a, c)
           /\ ~Before(a, b) /\ ~Before(b, c) => ~Before(a, c)
<1>1. \A e \in {a, b, c} : e.feasible \in BOOLEAN /\ e.score \in Int /\ e.price \in Int
  BY DEF Entries
<1> QED
  BY <1>1 DEF Before

\* What makes an entry sound: its estimate is that of its score, and its score
\* is on its side of the cap.
Sound(e) ==
    /\ e \in Entries
    /\ e.probability = acceptanceProbability(e.score, e.feasible)
    /\ e.feasible => e.score >= 43
    /\ ~e.feasible => e.score <= 55

LEMMA EstimateInRange ==
    ASSUME NEW s \in 5 .. 100, NEW feasible \in BOOLEAN
    PROVE  /\ acceptanceProbability(s, feasible) \in 0 .. 95
           /\ feasible /\ s >= 43 => acceptanceProbability(s, feasible) >= 52
           /\ ~feasible /\ s <= 55 => acceptanceProbability(s, feasible) <= 27
BY DEF acceptanceProbability, clampInt

LEMMA RecommendationSound ==
    ASSUME NEW y \in Listings \cup Requests, NEW l \in ListingRows, NEW r \in RequestRows,
           NEW time \in Int
    PROVE  /\ Sound(Recommendation(y, l, r, time))
           /\ Recommendation(y, l, r, time).name = y
<1>1. PICK feasible \in BOOLEAN : feasible = Feasible(l, r, time)
  BY Zenon DEF Feasible
<1>2. PICK score \in 5 .. 100 : score = Score(l, r, time)
  BY ScoreInRange
<1>3. /\ feasible => score >= 43
      /\ ~feasible => score <= 55
  <2>1. /\ Feasible(l, r, time) => score >= 43
        /\ ~Feasible(l, r, time) => score <= 55
    BY <1>2, ScoreInRange
  <2> QED
    BY <1>1, <2>1, Zenon
<1>4. PICK probability \in 0 .. 95 : probability = acceptanceProbability(score, feasible)
  BY EstimateInRange
<1>5. PICK price \in Nat \ {0} : price = SuggestedPrice(l, r, time)
  BY PriceIsPositive
<1> DEFINE entry == [name |-> y, score |-> score, feasible |-> feasible,
                     probability |-> probability, price |-> price]
<1>6. Recommendation(y, l, r, time) = entry
  BY <1>1, <1>2, <1>4, <1>5, Zenon DEF Recommendation
<1>7. /\ entry \in Entries /\ entry.name = y
      /\ entry.score = score /\ entry.feasible = feasible /\ entry.probability = probability
  BY DEF Entries
<1> HIDE DEF entry
<1>8. Sound(entry)
  BY <1>3, <1>4, <1>7, Zenon DEF Sound
<1> QED
  BY <1>6, <1>7, <1>8

\* A ranking never puts the likelier of two entries second.
LEMMA BeforeIsLikelier ==
    ASSUME NEW d, NEW e, Sound(d), Sound(e), ~Before(e, d)
    PROVE  d.probability >= e.probability
<1>1. /\ d.score \in 5 .. 100 /\ e.score \in 5 .. 100
      /\ d.feasible \in BOOLEAN /\ e.feasible \in BOOLEAN
      /\ d.probability \in Int /\ e.probability \in Int
  BY DEF Sound, Entries
<1>2. CASE d.feasible = e.feasible
  <2>1. e.score <= d.score
    BY <1>1, <1>2 DEF Before
  <2>2. acceptanceProbability(e.score, d.feasible) <= acceptanceProbability(d.score, d.feasible)
    <3>1. d.score \in Nat /\ e.score \in Nat
      BY <1>1
    <3> QED
      BY <1>1, <2>1, <3>1, EstimateFollowsScore, Zenon
  <2>3. e.probability <= d.probability
    BY <1>2, <2>2, Zenon DEF Sound
  <2> QED
    BY <1>1, <2>3
<1>3. CASE d.feasible /\ ~e.feasible
  <2>1. d.probability >= 52 /\ e.probability <= 27
    BY <1>1, <1>3, EstimateInRange, Zenon DEF Sound
  <2> QED
    BY <1>1, <2>1
<1>4. ~(~d.feasible /\ e.feasible)
  BY DEF Before
<1> QED
  BY <1>1, <1>2, <1>3, <1>4

LEMMA RankingSound ==
    ASSUME NEW entries, IsFiniteSet(entries), \A e \in entries : Sound(e),
           NEW list \in Rankings(entries)
    PROVE  /\ list \in Seq(Entries)
           /\ \A i \in DOMAIN list : list[i] \in entries
           /\ \A i, j \in DOMAIN list : i < j => list[i].probability >= list[j].probability
<1>1. Cardinality(entries) \in Nat
  BY FS_CardinalityType
<1>2. /\ list \in [1 .. Cardinality(entries) -> entries]
      /\ IsRanking(list, entries)
  BY DEF Rankings
<1>3. entries \subseteq Entries
  BY DEF Sound
<1>4. list \in Seq(Entries)
  BY <1>1, <1>2, <1>3, SeqDef
<1>5. \A i, j \in DOMAIN list : i < j => list[i].probability >= list[j].probability
  BY <1>2, BeforeIsLikelier DEF IsRanking
<1> QED
  BY <1>2, <1>4, <1>5

LEMMA RowsOK ==
    /\ \A l \in Listings : listings[l] \in ListingRows
    /\ \A r \in Requests : requests[r] \in RequestRows
BY RowsAssumption

\* Showing x a ranking of what EntryAt says of some rows of the other kind keeps
\* the invariant.
LEMMA ShowKeepsIInv ==
    ASSUME IInv, NEW x \in Listings \cup Requests,
           NEW candidates,
           candidates \subseteq IF x \in Requests THEN Listings ELSE Requests,
           NEW list \in Rankings({EntryAt(x, y, now) : y \in candidates}),
           shown' = [shown EXCEPT ![x] = list], UNCHANGED <<now, matches>>
    PROVE  IInv'
<1> DEFINE entries == {EntryAt(x, y, now) : y \in candidates}
<1>1. now \in Int /\ now \in Times
  BY NumbersAssumption DEF IInv, TypeOK
<1>2. \A y \in candidates : Sound(EntryAt(x, y, now)) /\ EntryAt(x, y, now).name = y
  BY <1>1, RowsOK, RecommendationSound, Zenon DEF EntryAt
<1>3. IsFiniteSet(entries)
  <2>1. IsFiniteSet(candidates)
    BY RowsAssumption, FS_Subset
  <2> DEFINE f == [y \in candidates |-> EntryAt(x, y, now)]
  <2>2. f \in Surjection(candidates, entries)
    BY DEF Surjection
  <2> QED
    BY <2>1, <2>2, FS_Surjection
<1>4. \A e \in entries : Sound(e)
  BY <1>2
<1>5. /\ list \in Seq(Entries)
      /\ \A i \in DOMAIN list : list[i] \in entries
      /\ \A i, j \in DOMAIN list : i < j => list[i].probability >= list[j].probability
  <2> HIDE DEF entries
  <2>1. list \in Rankings(entries)
    BY DEF entries
  <2> QED
    BY <1>3, <1>4, <2>1, RankingSound, Zenon
<1>6. /\ shown'[x] = list
      /\ \A z \in Listings \cup Requests : z # x => shown'[z] = shown[z]
  BY DEF IInv, TypeOK
<1>7. TypeOK'
  BY <1>5 DEF IInv, TypeOK
<1>8. RankedByProbability'
  BY <1>5, <1>6 DEF IInv, RankedByProbability
<1>9. ASSUME NEW z \in Listings \cup Requests
      PROVE  OnceRight(z)'
  <2>1. CASE z = x
    <3>1. \A i \in DOMAIN list : /\ list[i].name \in candidates
                                  /\ list[i] = EntryAt(x, list[i].name, now)
      BY <1>2, <1>5
    <3>2. now <= now
      BY <1>1
    <3> QED
      BY <1>1, <1>6, <2>1, <3>1, <3>2 DEF OnceRight, EntryAt
  <2>2. CASE z # x
    <3>1. OnceRight(z)
      BY DEF IInv
    <3> QED
      BY <1>6, <2>2, <3>1 DEF OnceRight, EntryAt
  <2> QED
    BY <2>1, <2>2
<1> QED
  BY <1>7, <1>8, <1>9 DEF IInv

LEMMA InitIInv == Init => IInv
<1> SUFFICES ASSUME Init PROVE IInv
  OBVIOUS
<1>1. TypeOK
  BY DEF Init, TypeOK
<1>2. RankedByProbability
  BY DEF Init, RankedByProbability
<1>3. \A x \in Listings \cup Requests : OnceRight(x)
  <2>1. now \in Times /\ now <= now
    BY NumbersAssumption DEF Init
  <2>2. \A x \in Listings \cup Requests : DOMAIN shown[x] = {}
    BY DEF Init
  <2> QED
    BY <2>1, <2>2 DEF OnceRight
<1> QED
  BY <1>1, <1>2, <1>3 DEF IInv

\* What a match is made at is a price.
LEMMA AgreedPriceOK ==
    ASSUME IInv, NEW l \in Listings, NEW r \in Requests, NEW asked \in OfferedPrices
    PROVE  AgreedPrice(l, r, asked) \in Nat \ {0}
<1>1. now \in Int /\ asked \in Int
  BY NumbersAssumption DEF IInv, TypeOK
<1>2. SuggestedPrice(listings[l], requests[r], now) \in Nat \ {0}
  BY <1>1, RowsOK, PriceIsPositive
<1> QED
  BY <1>1, <1>2 DEF AgreedPrice

LEMMA NextIInv == IInv /\ [Next]_vars => IInv'
<1> SUFFICES ASSUME IInv, [Next]_vars PROVE IInv'
  OBVIOUS
<1>1. CASE UNCHANGED vars
  BY <1>1 DEF vars, IInv, TypeOK, RankedByProbability, OnceRight, EntryAt
<1>2. ASSUME NEW r \in Requests, recommendListingsForRequest(r)
      PROVE  IInv'
  <2> DEFINE candidates == {l \in Listings : listings[l].destination = requests[r].destination}
  <2>1. {Recommendation(l, listings[l], requests[r], now) : l \in candidates}
            = {EntryAt(r, y, now) : y \in candidates}
    BY DEF EntryAt
  <2>2. PICK list \in Rankings({EntryAt(r, y, now) : y \in candidates}) :
            shown' = [shown EXCEPT ![r] = list]
    BY <1>2, <2>1 DEF recommendListingsForRequest
  <2>3. candidates \subseteq IF r \in Requests THEN Listings ELSE Requests
    OBVIOUS
  <2>4. UNCHANGED <<now, matches>> /\ r \in Listings \cup Requests
    BY <1>2 DEF recommendListingsForRequest
  <2> HIDE DEF candidates
  <2> QED
    BY <2>2, <2>3, <2>4, ShowKeepsIInv
<1>3. ASSUME NEW l \in Listings, recommendRequestsForListing(l)
      PROVE  IInv'
  <2> DEFINE candidates == {r \in Requests : requests[r].destination = listings[l].destination}
  <2>1. l \notin Requests
    BY RowsAssumption
  <2>2. {Recommendation(r, listings[l], requests[r], now) : r \in candidates}
            = {EntryAt(l, y, now) : y \in candidates}
    BY <2>1 DEF EntryAt
  <2>3. PICK list \in Rankings({EntryAt(l, y, now) : y \in candidates}) :
            shown' = [shown EXCEPT ![l] = list]
    BY <1>3, <2>2 DEF recommendRequestsForListing
  <2>4. candidates \subseteq IF l \in Requests THEN Listings ELSE Requests
    BY <2>1
  <2>5. UNCHANGED <<now, matches>> /\ l \in Listings \cup Requests
    BY <1>3 DEF recommendRequestsForListing
  <2> HIDE DEF candidates
  <2> QED
    BY <2>3, <2>4, <2>5, ShowKeepsIInv
<1>4. ASSUME NEW l \in Listings, NEW r \in Requests, NEW asked \in OfferedPrices,
             CreateMatch(l, r, asked)
      PROVE  IInv'
  <2>1. PICK price \in Nat \ {0} : price = AgreedPrice(l, r, asked)
    BY AgreedPriceOK
  <2>2. matches' \subseteq MatchRows
    <3>1. matches \subseteq MatchRows
      BY DEF IInv, TypeOK
    <3>2. matches' = matches \cup {[listing |-> l, request |-> r, asked |-> asked,
                                    price |-> price]}
      BY <1>4, <2>1 DEF CreateMatch
    <3>3. [listing |-> l, request |-> r, asked |-> asked, price |-> price] \in MatchRows
      BY DEF MatchRows
    <3> QED
      BY <3>1, <3>2, <3>3
  <2>3. UNCHANGED <<now, shown>>
    BY <1>4 DEF CreateMatch
  <2> QED
    BY <2>2, <2>3 DEF IInv, TypeOK, RankedByProbability, OnceRight, EntryAt
<1>5. ASSUME NEW t \in Times, Tick(t)
      PROVE  IInv'
  <2>1. now \in Int /\ now < t /\ now' = t /\ UNCHANGED <<shown, matches>>
    BY <1>5, NumbersAssumption DEF Tick, IInv, TypeOK
  <2>2. TypeOK' /\ RankedByProbability'
    BY <2>1 DEF IInv, TypeOK, RankedByProbability
  <2>3. ASSUME NEW x \in Listings \cup Requests
        PROVE  OnceRight(x)'
    <3>1. PICK u \in Times : u <= now /\ \A i \in DOMAIN shown[x] :
              /\ shown[x][i].name \in IF x \in Requests THEN Listings ELSE Requests
              /\ shown[x][i] = EntryAt(x, shown[x][i].name, u)
      BY DEF IInv, OnceRight
    <3>2. u <= now'
      BY <2>1, <3>1, NumbersAssumption
    <3> QED
      BY <2>1, <3>1, <3>2, Zenon DEF OnceRight, EntryAt
  <2> QED
    BY <2>2, <2>3 DEF IInv
<1> QED
  BY <1>1, <1>2, <1>3, <1>4, <1>5 DEF Next

-----------------------------------------------------------------------------
(* Theorems of the specification *)

\* Every list ever shown is made of entries that were right at some time.
THEOREM TypeAndListsCorrect == Spec => []IInv
BY InitIInv, NextIInv, PTL DEF Spec

\* The estimate never rises in a list, whatever the rows and the times.
THEOREM RankedByProbabilityCorrect == Spec => []RankedByProbability
<1>1. IInv => RankedByProbability
  BY DEF IInv
<1> QED
  BY <1>1, TypeAndListsCorrect, PTL

\* A match at the default price costs what any list still on show says of the
\* pair, or more.
THEOREM DefaultPriceNeverBelowShownCorrect == Spec => DefaultPriceNeverBelowShown
<1> DEFINE Step ==
        \A m \in matches' \ matches : m.asked <= 0 =>
          /\ \A i \in DOMAIN shown[m.request] :
                shown[m.request][i].name = m.listing => shown[m.request][i].price <= m.price
          /\ \A i \in DOMAIN shown[m.listing] :
                shown[m.listing][i].name = m.request => shown[m.listing][i].price <= m.price
<1>1. IInv /\ [Next]_vars => [Step]_vars
  <2> SUFFICES ASSUME IInv, Next, NEW m \in matches' \ matches, m.asked <= 0
               PROVE  /\ \A i \in DOMAIN shown[m.request] :
                            shown[m.request][i].name = m.listing
                                => shown[m.request][i].price <= m.price
                      /\ \A i \in DOMAIN shown[m.listing] :
                            shown[m.listing][i].name = m.request
                                => shown[m.listing][i].price <= m.price
    OBVIOUS
  <2>1. PICK l \in Listings, r \in Requests, asked \in OfferedPrices : CreateMatch(l, r, asked)
    BY DEF Next, recommendListingsForRequest, recommendRequestsForListing, Tick
  <2>2. /\ m.listing = l /\ m.request = r
        /\ m.price = AgreedPrice(l, r, asked) /\ m.asked = asked
    BY <2>1 DEF CreateMatch
  <2>3. m.price = SuggestedPrice(listings[l], requests[r], now)
    <3>1. asked \in Int /\ asked <= 0
      BY <2>2, NumbersAssumption
    <3> QED
      BY <2>2, <3>1 DEF AgreedPrice
  <2>4. now \in Int
    BY NumbersAssumption DEF IInv, TypeOK
  <2>5. ASSUME NEW t \in Times, t <= now
        PROVE  SuggestedPrice(listings[l], requests[r], t) <= m.price
    BY <2>3, <2>4, <2>5, RowsOK, NumbersAssumption, PriceRisesWithTime
  <2>6. ASSUME NEW i \in DOMAIN shown[r], shown[r][i].name = l
        PROVE  shown[r][i].price <= m.price
    <3>1. PICK t \in Times : t <= now /\ shown[r][i] = EntryAt(r, l, t)
      BY <2>6 DEF IInv, OnceRight
    <3>2. shown[r][i].price = SuggestedPrice(listings[l], requests[r], t)
      BY <3>1 DEF EntryAt, Recommendation
    <3> QED
      BY <2>5, <3>1, <3>2
  <2>7. ASSUME NEW i \in DOMAIN shown[l], shown[l][i].name = r
        PROVE  shown[l][i].price <= m.price
    <3>1. PICK t \in Times : t <= now /\ shown[l][i] = EntryAt(l, r, t)
      BY <2>7 DEF IInv, OnceRight
    <3>2. l \notin Requests
      BY RowsAssumption
    <3>3. shown[l][i].price = SuggestedPrice(listings[l], requests[r], t)
      BY <3>1, <3>2 DEF EntryAt, Recommendation
    <3> QED
      BY <2>5, <3>1, <3>3
  <2> QED
    BY <2>2, <2>6, <2>7
<1> QED
  BY <1>1, TypeAndListsCorrect, PTL DEF Spec, DefaultPriceNeverBelowShown
=============================================================================
