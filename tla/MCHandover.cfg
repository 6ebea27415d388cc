SPECIFICATION FairSpec
CONSTANTS
    Stream = {b1, b2}
    Delegate = {critic}
    Asked = lead
    Call = {read}
    MaxFrames = 3
    NoRun = NoRun
INVARIANTS
    BandFollowsAnswer
PROPERTIES
    HandoverIsConversation
    RunSettles
CHECK_DEADLOCK FALSE
