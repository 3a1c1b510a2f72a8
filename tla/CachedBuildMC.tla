---------------------------- MODULE CachedBuildMC ----------------------------
(* Instances of CachedBuild for TLC: file a imports file b, or b or c. *)
EXTENDS CachedBuild, TLC

CONSTANTS a, b, c, v1, v2, p1, p2

TwoFiles == {a, b}
ThreeFiles == {a, b, c}
AImportsB == [f \in Files |-> IF f = a THEN {<<b>>} ELSE {}]
AImportsBOrC == [f \in Files |-> IF f = a THEN {<<b, c>>} ELSE {}]
OneContent == {v1}
TwoContents == {v1, v2}
SwappedContents == Permutations(TwoContents)
OneBuilder == {p1}
TwoBuilders == {p1, p2}
AllScans == [p \in Builders |-> "scan"]
ScanAndDaemon == [p \in Builders |-> IF p = p1 THEN "scan" ELSE "daemon"]
WholeProject == [p \in Builders |-> Files]
FirstIsPartial == [p \in Builders |-> IF p = p1 THEN {a, c} ELSE Files]
NotTheFirst == Builders \ {p1}
EveryBuilder == Builders
=============================================================================
