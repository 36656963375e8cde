\* Deadlock is not checked: infer() is called a bounded number of times and
\* the instance released; loading a second component over a loaded one blocks
\* the framework's controller for ever, and the inference thread behind it.
SPECIFICATION MCSpec
CONSTANTS
    Accelerators <- MCAccelerators
    Names <- MCNames
    Requests <- MCRequests
    MaxInfers = 3
    Cpu = "CPU"
    None = None
    Components = {k1, k2}
    Threads = {t1, t2}
    Frames = {f1}
    Capacity = 2
    MaxPuts = 3
INVARIANTS
    InferWorks
    SummaryIsTrue
    LoopsMatchState
    NoComponentLeak
    NoReleaseDuringInfer
PROPERTIES
    ReleaseReturns
    StopEnds
    FramesAreServed
CHECK_DEADLOCK FALSE
