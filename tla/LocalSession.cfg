SPECIFICATION FairSpec
CONSTANTS
    s1 = s1
    Sessions = {s1}
    None = None
    MsgCap = 1
    MaxEpoch = 2
    MaxDown = 2
    MaxUp = 1
CHECK_DEADLOCK FALSE
INVARIANTS
    TypeOK
    Accounting
    EntriesAreServed
    NoOrphan
PROPERTIES
    SessionsEnd
    StopEndsSessions
