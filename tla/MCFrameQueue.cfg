SPECIFICATION FairSpec
CONSTANTS
    Frames = {f1, f2}
    Consumers = {c1, c2}
    Capacity = 2
    MaxPuts = 4
INVARIANTS
    Conservation
    FreshestRetained
    NoLostWakeup
PROPERTIES
    StopReleasesWaiters
    ImplementsLog
