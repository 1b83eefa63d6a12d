SPECIFICATION FairSpec
CONSTANTS
    WSConns = {w1}
    Sessions = {s1}
    s1 = s1
    Transports = 4
    Gone = Gone
    None = None

PROPERTY FailedDialIsRepaired
CHECK_DEADLOCK FALSE
