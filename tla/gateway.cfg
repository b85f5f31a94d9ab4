SPECIFICATION Spec
CONSTANTS
    Users = {u1}
    Names = {n1}
    Workers = {w1, w2}
    Uploads = {f1, f2}
    Limit = 2
    Window = 1
    TTL = 1
    UploadTTL = 1
    MaxTime = 2
    MaxRequests = 7
    MaxURLs = 1
    MaxRestarts = 1
    NoToken = NoToken
SYMMETRY Symmetric
CONSTRAINT LimiterOrTokens
INVARIANTS
    IInv
    LoggedOutIsShut
    BurstBounded
    UploadsKept
CHECK_DEADLOCK FALSE
