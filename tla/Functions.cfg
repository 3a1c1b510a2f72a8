SPECIFICATION Spec
CONSTANTS
    None = None
    Families = {"graph", "reports", "removal", "config", "entrypoints", "packages", "helper"}
INVARIANTS
    ImpactIsExact
    ProofIsShortest
    CycleIsReal
    ScanHidesOnlyKnown
    DoubtNeverBlocks
    FallbackIsInvisible
    SafeTargetsAreFree
    PlanCoversFindings
    NearestSettingWins
    PublicApiIsProduction
    EveryImportCounts
    HelperNamesImporters
CHECK_DEADLOCK FALSE
