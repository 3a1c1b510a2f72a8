SPECIFICATION MCSpec
CONSTANTS
    src = src
    vue = vue
    pkg = pkg
    cfg = cfg
    a = a
    b = b
    c1 = c1
    c2 = c2
    Absent = Absent
    Unreadable = Unreadable
    NoBuild = NoBuild
    ConfigFile = cfg
    Inputs <- ManifestInputs
    ConfigLevel <- ManifestConfigLevel
    Contents <- TwoContents
    Relevant <- WatchedOnly
    Conns <- NoConns
    MaxEdits = 3
    MaxDrops = 0
INVARIANTS
    ConfigIsTheGraphs
