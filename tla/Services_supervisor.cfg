SPECIFICATION FairSpec
CONSTANTS
    MaxCrashes = 2
    MaxFaults = 1
    MaxUserOps = 1
    MaxRestarts = 2
INVARIANTS
    TypeOK
    NoStrayDataClient
    AuthorityCanBeRevoked
    PausedIsQuiet
PROPERTIES
    OrphanedWorkerIsContained
    ApiIsReplaced
CHECK_DEADLOCK FALSE
