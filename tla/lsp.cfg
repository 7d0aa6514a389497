CONSTANTS
    FRAME_QUEUE_DEPTH = 1
    PipeDepth = 1
    MaxCalls = 1
    MaxFrames = 4
    Unasked <- MCUnasked
SPECIFICATION Spec
CHECK_DEADLOCK FALSE
INVARIANTS
    IInv
    AnswerIsOurs
    AnswerIsNotLost
    NoCallAfterLoadError
PROPERTIES
    PassEnds
    OnlyTheCycleHangs
    ReaderStops
