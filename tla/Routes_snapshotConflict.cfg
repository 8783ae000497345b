CONSTANTS
    d1 = d1
    r1 = r1
    r2 = r2
    Decisions = {d1}
    Requests = {r1, r2}
    Credentialed = {}
    NoPlan = NoPlan
    MaxChanges = 2
    Faulty = {}
SPECIFICATION Spec
INVARIANTS
    UndispatchedAdmissionIsClosed
CHECK_DEADLOCK FALSE
