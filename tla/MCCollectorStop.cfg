\* Deadlock is not checked: when the ids of Sessions or the threads of
\* Loops are used up, a start cannot go on.
SPECIFICATION FairSpec
CONSTANTS
    None = None
    Handlers = {r1, r2}
    Loops = {l1}
    Sessions = {s1}
    Devices = {d1}
PROPERTIES
    StoppedLoopsEnd
    StopIsAnswered
CHECK_DEADLOCK FALSE
