\* Deadlock is not checked: after shutdown() the process is gone.
SPECIFICATION Spec
CONSTANTS
    None = None
    Server = server
    Sids = {s1, s2}
    Requests = {k1}
INVARIANT StoppedIsSilent
CHECK_DEADLOCK FALSE
