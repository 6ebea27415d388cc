SPECIFICATION Spec
CONSTANTS
    Stream = {b1}
    Delegate = {critic}
    Asked = lead
    Call = {read}
    MaxFrames = 1
    NoRun = NoRun
INVARIANT FinishedMeansFinished
CHECK_DEADLOCK FALSE
