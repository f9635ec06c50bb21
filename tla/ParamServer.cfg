SPECIFICATION PFairSpec
CONSTANTS
    k1 = k1
    r1 = r1
    r2 = r2
    Keys <- MCKeys
    Callers <- MCCallers
    ReleaseKeys <- MCReleaseKeys
    NumNs = 1
    Properties <- None
    InitialBudget = 2
    ResetBudget = 1
    StopBeforeInit = FALSE
    MaxRelease = 1
    MaxFaults = 1
    MaxInits = 2
INVARIANTS
    ClientOutlivesCalls
    AnswersAreLoaded
    AnswersGoForward
PROPERTIES
    DestroyReturns
\* The server may be destroyed, or the process may die.
CHECK_DEADLOCK FALSE
