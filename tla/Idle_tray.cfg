SPECIFICATION FairSpec
CONSTANTS
    MaxEdges = 2
    MaxUserOps = 1
    MaxFaults = 0
PROPERTY UserPauseStands
CHECK_DEADLOCK FALSE
