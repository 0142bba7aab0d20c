\* Two processes, one of which runs once; one crash and two batches that overrun.
SPECIFICATION FairSpec
CONSTANTS
    j1 = j1
    j2 = j2
    k1 = k1
    w1 = w1
    w2 = w2
    w3 = w3
    NoKey = NoKey
    NoWorker = NoWorker
    Jobs <- MCJobs
    Keys <- MCKeys
    Workers <- MCTwoWorkers
    OnceWorkers <- MCOnce
    MaxAttempts = 2
    ClaimLimit = 2
    MaxCrashes = 1
    MaxOverruns = 2
INVARIANTS
    TypeOK
    OneActivePerKey
    RunningIsHeld
    AttemptHasOneHolder
PROPERTIES
    SettledStaysSettled
    EveryJobSettles
CHECK_DEADLOCK FALSE
