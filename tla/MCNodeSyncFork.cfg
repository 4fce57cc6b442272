SPECIFICATION FairSpec
CONSTANTS
    p1 = p1
    p2 = p2
    None = None
    Peers = {p1, p2}
    Level = 1
    MaxSendNum = 2
    KnowCap = 1
    MaxHeight = 5
    Starts <- MCForkedBehind
PROPERTIES
    CatchesUp
CHECK_DEADLOCK FALSE
