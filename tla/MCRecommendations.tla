------------------------- MODULE MCRecommendations -------------------------
(* Recommendations with three trips and a request, at times before and after *)
(* an arrival and in every class of urgency.  By its other points the third  *)
(* trip, too small for the parcel, comes before the second.                  *)
EXTENDS Recommendations

CONSTANTS l1, l2, l3, r1

MCListings == {l1, l2, l3}
MCRequests == {r1}

Trip(origin, type, capacity, price, arrival) ==
    [origin |-> origin, destination |-> "lome", type |-> type,
     capacity |-> capacity, price |-> price, arrival |-> arrival]
Parcel(destination, weight, value) ==
    [origin |-> "paris", destination |-> destination, type |-> "city",
     weight |-> weight, value |-> value]

MCPlaces == {"paris", "bonn", "lome", "lome togo"}
MCWithin == {<<"lome", "lome togo">>}
MClistings ==
    [l \in MCListings |->
        CASE l = l1 -> Trip("paris", "country", 10, 900, 60)
          [] l = l2 -> Trip("bonn", "city", 4, 700, 900)
          [] OTHER -> Trip("paris", "city", 3, 800, 600)]
MCrequests ==
    [r \in MCRequests |-> Parcel("lome", 4, 1200)]
MCTimes == {0, 40, 200, 320}
MCOfferedPrices == {0, 2500}

=============================================================================
