SPECIFICATION CrashSpec
CONSTANTS
    c1 = c1
    c2 = c2
    k1 = k1
    k2 = k2
    Content <- MCContent
    Keys <- MCKeys
    Touch <- MCTouch
    Level = 1
    ChanSize = 2
    FastSync = FALSE
    MaxHeight = 3
INVARIANT
    CrashReconciles
