SPECIFICATION Spec
CONSTANTS
    t1 = t1
    t2 = t2
    Threads <- MCThreads
    MaxRequests = 3
    MaxFaults = 1
SYMMETRY MCSymmetry
INVARIANTS
    TypeOK
    CleanAnswersMatch
    BusyIsBusy
PROPERTIES
    NoCallAfterResponse
\* the calls are bounded by MaxRequests
CHECK_DEADLOCK FALSE
