CONSTANTS
    o1 = o1
    a1 = a1
    a2 = a2
    None = None
    Opportunities = {o1}
    Attempts = {a1, a2}
    MaxChanges = 1
    MaxFaults = 1
SPECIFICATION Spec
INVARIANTS
    ReportedDoneIsDone
    BarrierAgrees
    ConsentOrAuto
PROPERTIES
    OneEffectPerOpportunity
CHECK_DEADLOCK FALSE
