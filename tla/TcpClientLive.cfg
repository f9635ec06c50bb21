SPECIFICATION FairSpec
CONSTANTS
    t1 = t1
    t2 = t2
    Threads <- MCThreads
    MaxRequests = 2
    MaxFaults = 1
PROPERTIES
    CleanCallsReturn
\* the calls are bounded by MaxRequests
CHECK_DEADLOCK FALSE
