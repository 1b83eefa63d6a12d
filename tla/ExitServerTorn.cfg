SPECIFICATION Spec
CONSTANTS
    NoCid = NoCid
    Cids = {c1}
    c1 = c1
    MaxWS = 2
    MaxConns = 1
    MaxMessages = 0
    MaxChunks = 2
INVARIANT NoTornStream
CHECK_DEADLOCK FALSE
