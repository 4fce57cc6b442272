SPECIFICATION FairSpec
CONSTANTS
    c1 = c1
    c2 = c2
    k1 = k1
    k2 = k2
    Content <- MCContent
    Keys <- MCKeys
    Touch <- MCTouch
    Level = 2
    ChanSize = 2
    FastSync = TRUE
    MaxHeight = 4
INVARIANTS
    TypeOK
    TreeShape
    TreeViews
    StoreLinked
    IdleDurable
    NeverPanics
PROPERTIES
    FinalForever
    ImplementsFinality
    JobEnds
