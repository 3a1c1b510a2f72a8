SPECIFICATION FairSpec
CONSTANTS
    e1 = e1
    e2 = e2
    e3 = e3
    e4 = e4
    Exports <- FourExports
    LiveBefore <- OneLive
    ProtocolVersion = 1
    HelperVersions <- OwnAndOther
    MaxTsconfigs = 1
    FilesIndexed <- IndexSizes
INVARIANTS
    TypeOK
    MarksAreExact
PROPERTIES
    BuildGoesOn
    NoOrphan
    ImplementsRefinement
CHECK_DEADLOCK FALSE
