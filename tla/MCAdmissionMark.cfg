\* One process and no failure are enough.
CONSTANTS
    t1 = t1
    Processes = {p1}
    Tokens = {t1}
    Requests <- TwoUsers
    UserOf <- First
    ExpiresAt <- TwoSeconds
    Second = 2
    MaxSessions = 2
    MaxFaults = 0
    MaxTime = 3
    MaxCalls = 1
SPECIFICATION DoorSpec
INVARIANT MarkedForItsLifetime
\* The clock stops at its bound.
CHECK_DEADLOCK FALSE
