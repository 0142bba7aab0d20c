SPECIFICATION Spec
CONSTANTS
    NoTag = NoTag
    NoEntity = NoEntity
    NoEvent = NoEvent
    EventReports <- MCReports
    Names <- MCNames
    Runtimes = {"engine"}
    SeededEvents <- MCSeeded
    Counters <- MCCounters
    Values = {1, 2}
    Ticks <- MCTicks
    EventLimit = 8
    TimelineLimit = 6
    Overlapping = FALSE
    MaxTime = 164
    MaxRows = 3
INVARIANTS SurfacesAgree WindowIsEnough
PROPERTIES StoryChangesForAReason SubjectSticks
CHECK_DEADLOCK FALSE
