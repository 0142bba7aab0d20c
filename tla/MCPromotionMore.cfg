\* Repositories of every kind, without quantized files and devices: links and evidence.
SPECIFICATION Spec
CONSTANTS
    hub = hub
    fixture = fixture
    qwen = qwen
    google = google
    foo = foo
    bar = bar
    baseRepo = baseRepo
    plainRepo = plainRepo
    otherFamily = otherFamily
    unproven = unproven
    tuneRepo = tuneRepo
    twinRepo = twinRepo
    reupload = reupload
    ownTune = ownTune
    NoOrg = NoOrg
    NoFamily = NoFamily
    Sources = {hub, fixture}
    Serial = TRUE
    Repos = {baseRepo, plainRepo, otherFamily, unproven, tuneRepo, ownTune, reupload}
    Lists <- MCLists
    Facts <- MCFacts
    Orgs = {qwen, google, foo, bar}
    KnownOrgs = {qwen}
    Families <- MCFamilies
    SeedFamilies <- MCSeedFamilies
    SeedEntities = {}
    SeedLinks = {}
INVARIANTS
    TypeOK
    OnePerName
    VariantsAreLinked
    PromotedOnEvidence
PROPERTIES
    RecheckIsIdempotent
CHECK_DEADLOCK FALSE
