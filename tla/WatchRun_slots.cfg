CONSTANTS
    w1 = w1
    k1 = k1
    k2 = k2
    Watches = {w1}
    Workers = {k1, k2}
    MaxAttempts = 2
    MaxWindow = 1
    Lookback = 1
    MaxSlots = 2
    MaxTime = 3
    MaxEdits = 2
SPECIFICATION FairSpec
INVARIANTS
    OneSlotInFlight
    WindowsDisjoint
    OneHolder
PROPERTIES
    SettledIsFinal
    SlotsSettle
CHECK_DEADLOCK FALSE
