SPECIFICATION FairSpec
CONSTANTS
    d1 = d1
    d2 = d2
    d3 = d3
    k1 = k1
    k2 = k2
    None = None
    Daemons <- ThreeDaemons
    Commands <- TwoCommands
    Outdated <- OneOutdated
    Interruptible <- OneInterruptible
    MaxCrashes = 1
INVARIANTS
    TypeOK
    AutoNeverFails
    RequiredNeverOneShot
    CleanExitIsNotAdvertised
PROPERTIES
    EveryCommandEnds
