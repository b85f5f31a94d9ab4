SPECIFICATION Spec
CONSTANTS
    Escrows = {e1}
    Matches = {m1}
    Travelers = {traveler}
    TravelerOf <- MCTravelerOf
    Keys = {k1}
    Workers = {w1, w2}
    Amounts = {100}
    CommissionPercent = 10
    Answers = {"ok"}
    Standings = {"held"}
    EventKinds = {}
    EventTypes = {updated}
    NoEscrow = NoEscrow
    NoMatch = NoMatch
    NoKey = NoKey
    NoType = NoType
INVARIANTS
    ReleasedPaysTraveler
