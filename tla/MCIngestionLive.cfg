\* Two items: a linked unknown base takes effect, across failed and killed runs.
SPECIFICATION FairSpec
CONSTANTS
    A = A
    D = D
    U = U
    G = G
    M = M
    r1 = r1
    r2 = r2
    Nothing = Nothing
    Items <- TwoItems
    Contents <- OnlyDerivative
    Kind <- OnlyDerivativeKind
    Runs <- TwoRuns
    Watched <- None
    Limits <- Two
    MaxChanges = 0
    MaxFaults = 1
    MaxDecisions = 1
INVARIANTS
    TypeOK
    CanonicalIsProcessed
PROPERTIES
    LinkTakesEffect
