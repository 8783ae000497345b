CONSTANTS
    d1 = d1
    d2 = d2
    r1 = r1
    r2 = r2
    Decisions = {d1, d2}
    Requests = {r1, r2}
    Credentialed = {d1, d2}
    NoPlan = NoPlan
    MaxChanges = 2
    Faulty = {r1}
SPECIFICATION FairSpec
INVARIANTS
    RouteInv
    OneUnresolvedPerProvider
PROPERTIES
    ImplementsOneShotEffect
    ClaimSettles
CHECK_DEADLOCK FALSE
