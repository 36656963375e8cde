\* Deadlock is not checked: a refused start is the end of the story, each
\* refresh is made once, and MaxResults may be reached.
SPECIFICATION MCSpec
CONSTANTS
    Tunable <- MCTunable
    FixedKeys <- MCFixedKeys
    Values = {1, 3, 6}
    Lo = 2
    Hi = 5
    Default = 4
    FixedValue = 9
    Missing = Missing
    Limit = 2
    MaxResults = 5
    Radios = {d1, d2}
    File = File
    Refreshes = {r1, r2, r3}
    None = None
    MaxChanges = 2
INVARIANTS
    StartIsLegal
    PatchedIsLegal
    HistoryIsNewest
    ReadersAreTrue
    ListIsTrue
CHECK_DEADLOCK FALSE
