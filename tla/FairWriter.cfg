SPECIFICATION FairSpec
CONSTANTS
    Callers = {c1, c2, c3}
    Cids = {k1, k2}
    NoCid = NoCid
    Control = Control
    None = None
    MaxQueuePerCID = 2
INVARIANTS
    TypeOK
    OrderMatchesQueues
    OnePlacePerCaller
    ClosedIsDrained
    AnswerTellsTheTruth
    NoLostWakeup
PROPERTIES
    RoundRobin
    ImplementsLanes
    WriteReturns
    CloseEndsRunner
    CloseReleasesQueued
