SPECIFICATION Spec
CONSTANTS
    Ids = {a, b}
    e1 = e1
    e2 = e2
    i1 = i1
    i2 = i2
    Emails = {e1, e2}
    Identities = {i1, i2}
    AddressesOf <- MCAddressesOf
    KYCs = {k1, k2}
    Listings = {l1}
    Requests = {r1}
    Packages = {p1}
    Workers = {w1, w2}
    MaxRestarts = 1
    NoAccount = NoAccount
SYMMETRY Symmetric
CONSTRAINT Focus
INVARIANTS
    IInv
    OneAccountPerUser
PROPERTIES
    SignedInAsNamed
    KeepsAccounts
    KeepsVerdicts
CHECK_DEADLOCK FALSE
