SPECIFICATION ScriptsSpec
CONSTANTS
    a1 = a1
    a2 = a2
    l1 = l1
    None = None
    Agent = {a1, a2}
    Legacy = {l1}
    Twin <- MCTwin
    Orders <- MCOrders
    Cap = 3
    MaxBuilds = 3
    MaxRuns = 3
    t1 = t1
    t2 = t2
    t3 = t3
    Table = {t1, t2, t3}
    Rewrite <- MCRewrite
    LoadOrder <- MCLoadOrder
    NumRows <- MCNumRows
    GenRows <- MCGenRows
    MaxCommands = 4
INVARIANTS
    OneEngineEach
    EstateNeverGrows
    OnlyMissedDangle
    CleanRunCompletes
    BackupIsOriginal
    OriginalSurvives
    CleanEndHolds
    StagingIsSwept
PROPERTIES
    TwinIsKept
    LiveIsGuarded
CHECK_DEADLOCK FALSE
