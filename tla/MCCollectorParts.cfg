\* Deadlock is not checked: a thread ends, handles and requests are used once
\* each, and MaxFrames may be reached.
SPECIFICATION MCSpec
CONSTANTS
    MaxTotal = 5
    MaxChunk = 6
    FramesPerBurst = 3
    Frequencies <- MCFrequencies
    MaxFrames = 5
    Uris = {u1}
    Configs <- MCConfigs
    Handles = {h1, h2}
    Threads = {t1, t2}
    None = None
    Default = 1
    Ignored = {"sample_rate"}
    MaxFaults = 2
    Requests = {r1, r2}
INVARIANTS
    PlaybackIsTrue
    HeadersAreTrue
    OneWriter
    SettingsAreTrue
    FramesGoOut
SYMMETRY MCSymmetry
CHECK_DEADLOCK FALSE
