SPECIFICATION ServiceSpec
CONSTANTS
    Specialist = {"sp1", "sp2", "sp3"}
    Invocation = {q1, q2}
    Ceiling = 3
    MaxCalls = 2
    MaxRequests = 2
    a1 = a1
    a2 = a2
    fatigue = fatigue
    assets = assets
    scored = scored
    elsewhere = elsewhere
    Caller = {a1, a2}
    Table = {fatigue, assets}
    View = {scored}
    Foreign = {elsewhere}
    Query <- MCQuery
    Grant <- MCGrant
    Spelling <- MCSpelling
    Handler = {h1, h2}
    Main = main
    Lifetime = 5
    Margin = 4
    MaxPause = 1
    MaxNow = 8
    MaxChunks = 1
INVARIANTS
    AuditIsWhole
    BudgetIsItsOwn
    GrantHolds
    NoFalseRefusal
    TokenOutlivesRequest
PROPERTY StepsArrive
CHECK_DEADLOCK FALSE
