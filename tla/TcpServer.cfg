SPECIFICATION FairSpec
CONSTANTS
    c1 = c1
    c2 = c2
    a1 = a1
    Clients <- MCClients
    Appids <- MCAppids
    Asks <- MCAsks
    MaxRequests <- MCMaxRequests
    MaxStarts = 2
    MaxFaults = 1
INVARIANTS
    ThreadOwned
    StoppedIsSafe
    ConnectionsCounted
    AnswersInOrder
PROPERTIES
    DialogueSpec
    LastRequestAnswered
    StopReturns
\* The process may end, and the server may be destroyed.
CHECK_DEADLOCK FALSE
