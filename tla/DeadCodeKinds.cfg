SPECIFICATION FairSpec
CONSTANTS
    main = main
    barrel = barrel
    leaf = leaf
    x = x
    y = y
    Star = Star
    None = None
    Files <- ThreeFiles
    Names <- TwoNames
    Projects <- SmallProjects
    Exempt <- NoExempt
INVARIANTS
    NoConsumedIsReported
CHECK_DEADLOCK FALSE
