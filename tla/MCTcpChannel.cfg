\* Deadlock is not checked: the server may be stopped, or MaxFrames reached.
SPECIFICATION TcpSpec
CONSTANTS
    None = None
    Clients = {c1, c2}
    QueueSize = 1
    Header = 2
    Body = 1
    Window = 2
    MaxFrames = 2
    UdpClients = {c1}
    Sizes <- MCSizes
    MaxFrags = 4
    Wrap = 1
    UdpFrames = 2
    MaxFaults = 2
PROPERTIES
    SenderProgress
    TcpIsStream
CHECK_DEADLOCK FALSE
