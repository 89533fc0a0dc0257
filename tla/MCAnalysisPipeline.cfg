SPECIFICATION Spec
CONSTANTS
    Root = "root"
    Agents = {"a", "b"}
    Catalog = {"c1", "c2"}
    Documents <- MCDocuments
    MaxDepth = 6
    MaxPolicy = 1
    MaxFrames = 4
    TrialRows <- MCTrialRows
    OtherRows <- MCOtherRows
    Windows <- MCWindows
    PollCounts = {2, 5}
INVARIANTS
    TypeOK
    CompiledIsATree
    FindingsAreSupported
    OriginsAreThreaded
    CleanPathsAreMeasured
    VerdictsAreEarned
    ChangesAreReported
