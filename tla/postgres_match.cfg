SPECIFICATION Spec
CONSTANTS
    Ids = {a, b}
    e1 = e1
    e2 = e2
    i1 = i1
    i2 = i2
    Emails = {e1, e2}
    Identities = {i1}
    AddressesOf <- MCAddressesOf
    KYCs = {k1}
    Listings = {l1}
    Requests = {r1}
    Packages = {p1}
    Workers = {w1}
    MaxRestarts = 0
    NoAccount = NoAccount
PROPERTIES
    CheckedMatchIsMade
CHECK_DEADLOCK FALSE
