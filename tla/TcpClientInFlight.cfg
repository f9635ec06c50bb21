SPECIFICATION Spec
CONSTANTS
    t1 = t1
    t2 = t2
    Threads <- MCThreads
    MaxRequests = 3
    MaxFaults = 0
SYMMETRY MCSymmetry
INVARIANTS
    OneAsyncAtATime
\* the calls are bounded by MaxRequests
CHECK_DEADLOCK FALSE
