SPECIFICATION EstateSpec
CONSTANTS
    a1 = a1
    a2 = a2
    l1 = l1
    None = None
    Agent = {a1, a2}
    Legacy = {l1}
    Twin <- MCTwin
    Orders <- MCOrders
    Cap = 3
    MaxBuilds = 3
    MaxRuns = 3
INVARIANT NothingDangles
CHECK_DEADLOCK FALSE
