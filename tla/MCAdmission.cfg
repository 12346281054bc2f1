CONSTANTS
    t1 = t1
    Processes = {p1, p2}
    Tokens = {t1}
    Requests <- TwoUsers
    UserOf <- First
    ExpiresAt <- TwoSeconds
    Second = 2
    MaxSessions = 2
    MaxFaults = 1
    MaxTime = 3
    MaxCalls = 1
SYMMETRY ProcessesAreAlike
SPECIFICATION DoorSpec
INVARIANTS TypeOK PromisedIsReachable IndexFollowsSession RepeatIsExplained
PROPERTY ClosedIsNotAdmitted
\* The clock stops at its bound.
CHECK_DEADLOCK FALSE
