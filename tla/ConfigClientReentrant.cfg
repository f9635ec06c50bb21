SPECIFICATION Spec
CONSTANTS
    k1 = k1
    k2 = k2
    Keys <- MCKeys
    ReleaseKeys <- MCReleaseKeys
    NumNs = 2
    Properties <- FirstIsProperties
    InitialBudget = 2
    ResetBudget = 1
    StopBeforeInit = FALSE
    MaxRelease = 1
    MaxFaults = 1
    MaxInits = 2
INVARIANTS
    StoresExclude
\* The client may be destroyed, or the process may die.
CHECK_DEADLOCK FALSE
