\* Disagreement: two processes ingest two sources at once.
SPECIFICATION FieldSpec
CONSTANTS
    fixture = fixture
    hub = hub
    mirror = mirror
    Sources = {fixture, hub}
    Priority <- MCPriority
    Procs = {p1, p2}
    p1 = p1
    p2 = p2
    v1 = v1
    v2 = v2
    Values = {v1, v2}
    SeedValue = SeedValue
    MaxFiles = 1
INVARIANTS
    HighestPriorityOwns
CHECK_DEADLOCK FALSE
