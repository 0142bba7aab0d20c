SPECIFICATION Spec
CONSTANTS
    ann = ann
    NoOne = NoOne
    Members = {ann}
    Moderators = {}
    Files <- MCFiles
    Base <- MCBase
    Systems <- MCSystems
    Devices <- MCDevices
    Runtimes <- MCRuntimes
    Saved <- MCSaved
    BenchmarkRuns <- MCRuns
    Submissions <- MCSubmissions
    Quality <- MCQuality
    Setups <- MCSetups
    Filters <- MCFilters
INVARIANTS StarterIsComfortable PagesAgree
PROPERTIES MoreMemoryNeverHurts StorageOrderIsImmaterial
