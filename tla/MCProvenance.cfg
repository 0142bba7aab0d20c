\* Safety: one process ingests three sources one after another.
SPECIFICATION FieldSpec
CONSTANTS
    fixture = fixture
    hub = hub
    mirror = mirror
    Sources = {fixture, hub, mirror}
    Priority <- MCPriority
    Procs = {p1}
    p1 = p1
    p2 = p2
    v1 = v1
    v2 = v2
    Values = {v1, v2}
    SeedValue = SeedValue
    MaxFiles = 1
INVARIANTS
    AppliedIsCanonical
    HighestPriorityOwns
CHECK_DEADLOCK FALSE
