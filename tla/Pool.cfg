SPECIFICATION FairSpec
CONSTANTS
    WSConns = {w1}
    Sessions = {s1}
    s1 = s1
    Transports = 3
    Gone = Gone
    None = None
INVARIANTS TypeOK ReadsWhatIsUsed NoTransportLost ActiveIsExact
PROPERTIES GetWSConnReturns AwakePullerRepairs StopEndsPullers
CHECK_DEADLOCK FALSE
