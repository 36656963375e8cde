\* Deadlock is not checked: the server may be stopped, or its bound on frames
\* reached.
SPECIFICATION EitherSpec
CONSTANTS
    None = None
    Clients = {c1}
    QueueSize = 2
    Header = 2
    Body = 1
    Window = 2
    MaxFrames = 4
    UdpClients = {c1}
    Sizes <- MCSizes
    MaxFrags = 4
    Wrap = 1
    UdpFrames = 2
    MaxFaults = 2
INVARIANTS
    FramesAccounted
    NothingIsCut
PROPERTIES
    SmallFramesArrive
    UdpIsStream
CHECK_DEADLOCK FALSE
