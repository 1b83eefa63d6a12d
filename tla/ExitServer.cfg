SPECIFICATION FairSpec
CONSTANTS
    NoCid = NoCid
    Cids = {c1}
    c1 = c1
    MaxWS = 2
    MaxConns = 2
    MaxMessages = 1
    MaxChunks = 1
INVARIANTS
    TypeOK
    NoEntryOutlivesWebsocket
    OpenHasOwner
    AckedIsRead
PROPERTIES
    EndedSocketsFreeTargets
CHECK_DEADLOCK FALSE
