CONSTANTS
    d1 = d1
    r1 = r1
    r2 = r2
    r3 = r3
    Decisions = {d1}
    Requests = {r1, r2, r3}
    Credentialed = {}
    NoPlan = NoPlan
    MaxChanges = 3
    Faulty = {r1, r2, r3}
SPECIFICATION Spec
SYMMETRY RequestSymmetry
INVARIANTS
    TypeOK
    AtMostOneEffect
    EffectHasAuthority
    PurgeWaitsForEffects
    LedgersTellTheTruth
    DualNeedsTwoConfirmations
PROPERTIES
    GrantedUnderCurrentAuthority
    TerminalIsFinal
CHECK_DEADLOCK FALSE
