SPECIFICATION FairSpec
CONSTANTS
    Cids = {c1, c2}
    c1 = c1
    c2 = c2
    Puller = Puller
    Nobody = Nobody
    MaxLinks = 2
    MaxMessages = 0
PROPERTY AskedIsAnswered
CHECK_DEADLOCK FALSE
