CONSTANTS
    x1 = x1
    x2 = x2
    c1 = c1
    c2 = c2
    c3 = c3
    None = None
    Actions = {x1, x2}
    Callers = {c1, c2, c3}
SPECIFICATION Spec
SYMMETRY CallerSymmetry
INVARIANTS
    LedgerTellsTheTruth
PROPERTIES
    UndoneOnce
    EndsOnce
CHECK_DEADLOCK FALSE
