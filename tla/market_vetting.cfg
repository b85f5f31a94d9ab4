SPECIFICATION FairSpec
CONSTANTS
    Users = {u1}
    Listings = {l1}
    Requests = {r1}
    KYCs = {k1, k2}
    Packages = {p1}
    Matches = {x1, x2}
    Workers = {w1, w2}
    Details <- MCRisky
    Capacities = {2}
    RiskScores = {10}
    MaxNotifications = 2
    NoUser = NoUser
    NoSubject = NoSubject
INVARIANTS
    IInv
    OneUnderReview
PROPERTIES
    KeepsVerdicts
    NewMatchIsVetted
    EveryReviewIsTold
