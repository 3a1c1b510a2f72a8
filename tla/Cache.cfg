SPECIFICATION Spec
CONSTANTS
    a = a
    b = b
    c = c
    v1 = v1
    v2 = v2
    p1 = p1
    p2 = p2
    None = None
    Absent = Absent
    Files <- ThreeFiles
    Imports <- AImportsBOrC
    Contents <- TwoContents
    Builders <- TwoBuilders
    Kind <- ScanAndDaemon
    Scope <- FirstIsPartial
    SeesTsconfig <- NotTheFirst
    MaxEdits = 1
    MaxBuilds = 3
    MaxCrashes = 1
SYMMETRY SwappedContents
INVARIANTS
    TypeOK
    WarmIsColdIfSameCandidates
    FactsHaveResolutions
    OneBuildPerDb
CHECK_DEADLOCK FALSE
