SPECIFICATION LoadSpec
CONSTANTS
    t1 = t1
    t2 = t2
    t3 = t3
    Table = {t1, t2, t3}
    Rewrite <- MCRewrite
    LoadOrder <- MCLoadOrder
    NumRows <- MCNumRows
    GenRows <- MCGenRows
    MaxCommands = 4
INVARIANT NoPathLosesOriginal
CHECK_DEADLOCK FALSE
