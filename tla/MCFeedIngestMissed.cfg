\* Disagreement: a run cut short by the limit moves the window.
SPECIFICATION Spec
CONSTANTS
    Never = Never
    NumFeeds = 2
    MaxItems = 2
    Limit = 1
    Overlap = 1
    FirstWindow = 9
    MaxEntries <- TwoEach
    MaxLag = 2
    MaxTime = 3
    MaxFaults = 0
INVARIANTS
    TypeOK
    NothingMissed
CHECK_DEADLOCK FALSE
