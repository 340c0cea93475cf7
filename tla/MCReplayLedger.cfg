CONSTANTS
    p1 = p1
    p2 = p2
    r1 = r1
    e1 = e1
    GeneratedId = generated
    Requests <- MCRequests
    HistoryBound = 2
    Capacity = 4
    MaxFaults = 2
SPECIFICATION Spec
INVARIANTS TypeOK DecisionsRemembered ReplayedResumeIsTrue
PROPERTIES DecidesOnce
CHECK_DEADLOCK FALSE
