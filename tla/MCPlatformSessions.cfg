\* Deadlock is not checked: after shutdown() the process is gone.
SPECIFICATION FairSpec
CONSTANTS
    None = None
    Server = server
    Sids = {s1, s2}
    Requests = {k1, k2}
INVARIANTS
    NoOrphanAcquisition
    TablesAgree
    ShutdownReleases
PROPERTIES
    EveryRequestEnds
CHECK_DEADLOCK FALSE
