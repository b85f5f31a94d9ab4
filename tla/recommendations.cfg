SPECIFICATION Spec
CONSTANTS
    l1 = l1
    l2 = l2
    l3 = l3
    r1 = r1
    Listings <- MCListings
    Requests <- MCRequests
    Places <- MCPlaces
    Within <- MCWithin
    listings <- MClistings
    requests <- MCrequests
    Times <- MCTimes
    OfferedPrices <- MCOfferedPrices
INVARIANTS
    RankedByProbability
    IInv
PROPERTIES
    DefaultPriceNeverBelowShown
CHECK_DEADLOCK FALSE
