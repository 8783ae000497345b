CONSTANTS
    o1 = o1
    a1 = a1
    None = None
    Opportunities = {o1}
    Attempts = {a1}
    MaxChanges = 0
    MaxFaults = 0
SPECIFICATION Spec
INVARIANTS
    AnsweredIsNotQueued
CHECK_DEADLOCK FALSE
