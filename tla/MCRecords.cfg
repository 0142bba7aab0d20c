\* The Hub, its fixture and the sheet of devices are ingested one after another.
SPECIFICATION RecordsSpec
CONSTANTS
    hub = hub
    fixture = fixture
    qwen = qwen
    google = google
    foo = foo
    bar = bar
    baseRepo = baseRepo
    plainRepo = plainRepo
    otherFamily = otherFamily
    unproven = unproven
    tuneRepo = tuneRepo
    twinRepo = twinRepo
    reupload = reupload
    ownTune = ownTune
    NoOrg = NoOrg
    NoFamily = NoFamily
    Sources = {hub, fixture}
    Serial = TRUE
    Repos = {baseRepo, plainRepo, tuneRepo}
    Lists <- MCRecordLists
    Facts <- MCFacts
    Orgs = {qwen, google, foo, bar, baz, vendor}
    KnownOrgs = {qwen}
    Families <- MCFamilies
    SeedFamilies <- MCSeedFamilies
    SeedEntities = {}
    SeedLinks = {}
    quantRepo = quantRepo
    otherQuantRepo = otherQuantRepo
    baz = baz
    vendor = vendor
    SetRepos = {quantRepo, otherQuantRepo}
    SetLists <- MCSetLists
    SetPayloads <- MCSetPayloads
    Schemes = {"q4", "q5"}
    KnownSchemes = {"q4"}
    Plausible <- MCPlausible
    Sheet = Sheet
    Rows <- MCRows
    SeedDevices <- MCSeedDevices
    Priority <- MCPriority
    Unstated = Unstated
INVARIANTS
    OnePerName
    NothingIsPoisoned
PROPERTIES
    RechecksAddNothing
CHECK_DEADLOCK FALSE
