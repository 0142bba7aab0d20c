\* Safety: any four requests of a member and a moderator, two at once.
SPECIFICATION Spec
CONSTANTS
    ann = ann
    mod = mod
    r1 = r1
    r2 = r2
    speed = speed
    quality = quality
    NoOne = NoOne
    Reference = Reference
    Members = {ann, mod}
    Moderators = {mod}
    Subjects = {"variant"}
    Dimensions = {speed, quality}
    Requests = {r1, r2}
    Offered = {"public", "unlisted", "private"}
    OfferedConfigs = {"unlisted", "private"}
    Rulings = {"published", "removed"}
    Verdicts = {"disputed"}
    MaxRequests = 4
SYMMETRY Symmetry
INVARIANTS
    StrangersLearnNothing
    ReviewIsOneEdit
    NothingOfTheDeleted
PROPERTIES
    DeletionTakesWhatExportGives
    ModerationSticks
CHECK_DEADLOCK FALSE
