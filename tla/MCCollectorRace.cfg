\* Deadlock is not checked: when the ids of Sessions or the threads of
\* Loops are used up, a start cannot go on.
SPECIFICATION Spec
CONSTANTS
    None = None
    Handlers = {r1, r2}
    Loops = {l1, l2}
    Sessions = {s1, s2}
    Devices = {d1}
PROPERTIES
    StopEndsOnlyItsSession
CHECK_DEADLOCK FALSE
