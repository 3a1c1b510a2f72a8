SPECIFICATION Spec
CONSTANTS
    d1 = d1
    d2 = d2
    d3 = d3
    k1 = k1
    k2 = k2
    None = None
    Daemons <- TwoDaemons
    Commands <- OneCommand
    Outdated <- NoneOutdated
    Interruptible <- NoneInterruptible
    MaxCrashes = 0
INVARIANTS
    ServingIsAdvertised
