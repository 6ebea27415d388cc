SPECIFICATION FairSpec
CONSTANTS
    Stream = {q1, q2}
    Delegate = {critic}
    Asked = lead
    Call = {read}
    MaxFrames = 3
    NoRun = NoRun
INVARIANTS
    OneOpenStream
    NeverReAsked
    NoContradiction
    BreakIsReported
    CallsAreLogged
PROPERTIES
    StoppedIsSilent
    ChatIsConversation
    AnswerSettles
CHECK_DEADLOCK FALSE
