SPECIFICATION FairSpec
CONSTANTS
    ann = ann
    tom = tom
    Users <- MCUsers
    Matches = {x1}
    client <- MCclient
    traveler <- MCtraveler
    Escrows = {e1, e2}
    Workers = {w1, w2}
    Coverages = {0, 2}
    Amounts = {2, 3}
    MaxClaims = 2
    NoMatch = NoMatch
    NoUser = NoUser
    NoSubject = NoSubject
INVARIANTS
    IInv
    RatedAfterDelivery
    OneRatingPerParty
    OnePendingClaim
    ClaimsAreCovered
PROPERTIES
    RatingIsStored
