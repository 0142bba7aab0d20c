\* Two feeds, one of which fails while the other goes on. Their entries fit the limit exactly: the last entry of a full run
\* reaches it, and it cuts nothing off.
SPECIFICATION Spec
CONSTANTS
    Never = Never
    NumFeeds = 2
    MaxItems = 1
    Limit = 2
    Overlap = 1
    FirstWindow = 1
    MaxEntries <- TwoAndOne
    MaxLag = 2
    MaxTime = 2
    MaxFaults = 2
INVARIANTS
    ValidatorsAreEarned
    NothingMissed
CHECK_DEADLOCK FALSE
