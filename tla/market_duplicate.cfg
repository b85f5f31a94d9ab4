SPECIFICATION Spec
CONSTANTS
    Users = {u1}
    Listings = {}
    Requests = {r1, r2}
    KYCs = {}
    Packages = {}
    Matches = {}
    Workers = {w1, w2}
    Details <- MCPapers
    Capacities = {2}
    RiskScores = {10}
    MaxNotifications = 1
    NoUser = NoUser
    NoSubject = NoSubject
INVARIANTS
    UniqueOpenRequests
