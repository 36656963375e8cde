\* Deadlock is not checked: the user may have no clicks left.
SPECIFICATION FairSpec
CONSTANTS
    MaxShown = 2
    MaxStarts = 2
    MaxCalls = 2
    MaxPolls = 1
    MaxResults = 1
    MaxCount = 3
INVARIANTS
    PageAgrees
    NoOrphanSession
PROPERTIES
    ButtonsComeBack
CHECK_DEADLOCK FALSE
