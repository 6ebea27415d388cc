SPECIFICATION Spec
CONSTANTS
    Stream = {q1}
    Delegate = {critic}
    Asked = lead
    Call = {read}
    MaxFrames = 2
    NoRun = NoRun
INVARIANT EveryCallIsLogged
CHECK_DEADLOCK FALSE
