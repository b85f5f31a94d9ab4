SPECIFICATION FairSpec
CONSTANTS
    Users = {u1, u2}
    Challenges = {c1}
    Emails = {e1}
    Socials = {s1}
    Workers = {w1, w2}
    MaxFails <- MCMaxFails
    LockWindow <- MCLockWindow
    Fails = 2
    Window = 1
    OTPTTL = 0
    NoUser = NoUser
    NoKey = NoKey
INVARIANTS
    IInv
    MapsAgree
    GuessesBounded
PROPERTIES
    KeepsAccounts
    CodesFollowPasswords
    LockOpens
