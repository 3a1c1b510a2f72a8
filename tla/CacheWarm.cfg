SPECIFICATION Spec
CONSTANTS
    a = a
    b = b
    c = c
    v1 = v1
    v2 = v2
    p1 = p1
    p2 = p2
    None = None
    Absent = Absent
    Files <- TwoFiles
    Imports <- AImportsB
    Contents <- OneContent
    Builders <- OneBuilder
    Kind <- AllScans
    Scope <- WholeProject
    SeesTsconfig <- EveryBuilder
    MaxEdits = 1
    MaxBuilds = 2
    MaxCrashes = 0
INVARIANTS
    WarmIsCold
CHECK_DEADLOCK FALSE
