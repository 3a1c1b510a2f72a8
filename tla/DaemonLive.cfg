SPECIFICATION MCFairSpec
CONSTANTS
    src = src
    vue = vue
    pkg = pkg
    cfg = cfg
    a = a
    b = b
    c1 = c1
    c2 = c2
    Absent = Absent
    Unreadable = Unreadable
    NoBuild = NoBuild
    ConfigFile = cfg
    Inputs <- OneInput
    ConfigLevel <- SourceConfigLevel
    Contents <- OneContent
    Relevant <- WatchedOnly
    Conns <- TwoConns
    MaxEdits = 2
    MaxDrops = 0
INVARIANTS
    WaitsForOneRebuild
PROPERTIES
    EveryRequestAnswered
    ShutdownEnds
    EventuallyFresh
