\* The scheduled process: ingestion, then the worker loop, run by run.
SPECIFICATION EnrichSpec
CONSTANTS
    j1 = j1
    j2 = j2
    j3 = j3
    k1 = k1
    k2 = k2
    w1 = w1
    w2 = w2
    t1 = t1
    t2 = t2
    NoKey = NoKey
    NoWorker = NoWorker
    NoJob = NoJob
    Jobs <- MCJobs
    Keys <- MCKeys
    Workers <- MCWorkers
    Writers <- MCWriters
    OnceWorkers <- MCOnce
    Subjects <- MCSubjects
    InputOf <- MCInputOf
    MaxAttempts = 2
    ClaimLimit = 2
    MaxCrashes = 1
    MaxOverruns = 0
    MaxEdits = 2
    Serial = TRUE
SYMMETRY Symmetry
INVARIANTS
    OneCurrentText
    NeverGeneratedTwice
PROPERTIES
    ImplementsChangeSignals
CHECK_DEADLOCK FALSE
