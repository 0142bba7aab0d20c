\* One item through payloads that block, two runs, a fault and an editor.
SPECIFICATION FairSpec
CONSTANTS
    A = A
    D = D
    U = U
    G = G
    M = M
    r1 = r1
    r2 = r2
    Nothing = Nothing
    Items <- OneItem
    Contents <- LifeContents
    Kind <- LifeKind
    Runs <- TwoRuns
    Watched <- None
    Limits <- One
    MaxChanges = 2
    MaxFaults = 1
    MaxDecisions = 1
INVARIANTS
    BlockedIsExplained
    OpenItemsAreCurrent
    OneUnlessAbandoned
PROPERTIES
    EditorDecisionsStick
    BlockingLinkTakesEffect
