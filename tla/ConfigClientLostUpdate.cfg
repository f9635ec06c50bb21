SPECIFICATION FairSpec
CONSTANTS
    k1 = k1
    k2 = k2
    Keys <- MCKeys
    ReleaseKeys <- MCReleaseKeys
    NumNs = 1
    Properties <- None
    InitialBudget = 2
    ResetBudget = 1
    StopBeforeInit = TRUE
    MaxRelease = 1
    MaxFaults = 1
    MaxInits = 1
PROPERTIES
    ChangesArrive
\* The client may be destroyed, or the process may die.
CHECK_DEADLOCK FALSE
