SPECIFICATION Spec
CONSTANTS
    s1 = s1
    Sessions = {s1}
    None = None
    MsgCap = 1
    MaxEpoch = 1
    MaxDown = 0
    MaxUp = 0
CHECK_DEADLOCK FALSE
INVARIANTS NoHandlerMeansQuit
