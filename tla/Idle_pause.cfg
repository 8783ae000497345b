SPECIFICATION FairSpec
CONSTANTS
    MaxEdges = 4
    MaxUserOps = 4
    MaxFaults = 1
INVARIANT TypeOK
PROPERTIES
    NoticedPauseStands
    AutoPauseEnds
CHECK_DEADLOCK FALSE
