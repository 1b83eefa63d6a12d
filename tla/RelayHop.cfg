SPECIFICATION Spec
CONSTANTS
    Cids = {c1, c2}
    c1 = c1
    c2 = c2
    Puller = Puller
    Nobody = Nobody
    MaxLinks = 2
    MaxMessages = 1
SYMMETRY Symmetry
INVARIANTS
    TypeOK
    ActiveCountsConns
    UpstreamIsTold
CHECK_DEADLOCK FALSE
