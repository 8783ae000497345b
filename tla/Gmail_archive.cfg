SPECIFICATION Spec
CONSTANTS
    Executors = {e1, e2}
    Recoverers = {r1, r2}
    None = None
    MaxEdits = 1
    MaxGen = 3
SYMMETRY Interchangeable
INVARIANTS
    TerminalTellsTheTruth
    PostUsesAdmittedCredential
    ObservedOnce
    LeaseDiesWithAttempt
PROPERTIES
    EvidenceIsFinal
    ArchiveIsOneShot
CHECK_DEADLOCK FALSE
