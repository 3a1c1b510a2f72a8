--------------------------- MODULE DaemonServerMC ---------------------------
(* Instances of DaemonServer for TLC. *)
EXTENDS DaemonServer

CONSTANTS src, vue, pkg, cfg, a, b, c1, c2

(* A TypeScript source, a Vue component (read by the build and not let     *)
(* through by the watcher), a manifest and the configuration file.         *)
SourceInputs == {src, vue}
ManifestInputs == {src, pkg}
ManifestConfigLevel == {pkg, cfg}
SourceConfigLevel == {cfg}
WatchedOnly == Paths \ {vue}
TwoContents == {a, b}
OneContent == {a}
OneInput == {src}
TwoConns == {c1, c2}
NoConns == {}

(* The project starts with every file there. *)
MCInit == Init /\ \A p \in Paths : disk[p] = a
MCSpec == MCInit /\ [][Next]_vars
MCFairSpec == MCSpec /\ Fairness
=============================================================================
