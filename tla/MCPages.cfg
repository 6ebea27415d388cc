SPECIFICATION PagesSpec
CONSTANTS
    s1 = s1
    s2 = s2
    mill = mill
    crusher = crusher
    belt = belt
    liner = liner
    bolt = bolt
    wo1 = wo1
    wo2 = wo2
    wo3 = wo3
    ann = ann
    bob = bob
    f1 = f1
    f2 = f2
    truck = truck
    i1 = i1
    i2 = i2
    t1 = t1
    t2 = t2
    t3 = t3
    l1 = l1
    l2 = l2
    d1 = d1
    d2 = d2
    flow = flow
    parts = parts
    stock = stock
    orders = orders
    trace1 = trace1
    hand = hand
    work = work
    n1 = n1
    n2 = n2
    n3 = n3
    n4 = n4
    n5 = n5
    method = method
    look = look
    changed = changed
    attention = attention
    EveryMachine = EveryMachine
    NoTable = NoTable
    AllDomains = AllDomains
    Elements = 5
    STEPS = 3
    Figure = {"figure"}
    Frames = 1
    NoChoice = NoChoice
    PageBlock = {"foot"}
    Sheet = {s1, s2}
    HoldUnits = 2
    Asset = {mill, crusher, belt}
    Part = {liner, bolt}
    WorkOrder = {wo1, wo2, wo3}
    Operator = {ann, bob}
    FatigueLog = {f1, f2}
    Vehicle = {truck}
    Incident = {i1, i2}
    DependsOn <- MCDependsOn
    ReplacedPart <- MCReplacedPart
    HasWorkOrder <- MCHasWorkOrder
    LoggedFor <- MCLoggedFor
    Operates <- MCOperates
    InvolvedIn <- MCInvolvedIn
    LowParts = {liner}
    FirstAsset = mill
    PreferredOperator = ann
    Screen = {"macro", "schematic", "architecture"}
    MaxEntries = 4
    MaxTimers = 2
    MaxDue = 2
    Table = {t1, t2, t3}
    Joins <- MCJoins
    Layer = {l1, l2}
    LayerOf <- MCLayerOf
    Domain = {d1, d2}
    DomainOf <- MCDomainOf
    MaxLines = 5
    Word = {flow, parts, stock, orders}
    Traversals <- MCTraversals
    Tables <- MCTables
    OtherTerms <- MCOtherTerms
    WeightOf <- MCWeightOf
    WordsOf <- MCWordsOf
    QuestionOf <- MCQuestionOf
    Listed <- MCListed
    Coordinators = {2}
    Methods <- MCMethods
    Backstops <- MCBackstops
    Catalogues <- MCCatalogues
INVARIANTS
    BlocksSayTheAnswer
    AnswerIsTheMatch
    OneWalkOnScreen
    ShownIsDrawn
    AddressNamesScreen
    NoWordsAreDiscarded
    PickIsBest
    StartersRouteBack
PROPERTIES
    CompletesOnlyHeld
    TimerStops
    PageSettles
    ClickOrDrag
CHECK_DEADLOCK FALSE
