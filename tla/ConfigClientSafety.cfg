SPECIFICATION FairSpec
CONSTANTS
    k1 = k1
    k2 = k2
    Keys <- MCKeys
    ReleaseKeys <- MCReleaseKeys
    NumNs = 2
    Properties <- None
    InitialBudget = 2
    ResetBudget = 1
    StopBeforeInit = TRUE
    MaxRelease = 1
    MaxFaults = 2
    MaxInits = 2
INVARIANTS
    TypeOK
    ValuesReleased
    StoredWhole
    PollFresh
PROPERTIES
    ValuesNeverGoBack
    GivesUpLate
    FeedSpec
    StopReturns
    AppliedOrMissed
\* The client may be destroyed, or the process may die.
CHECK_DEADLOCK FALSE
