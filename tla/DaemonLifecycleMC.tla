-------------------------- MODULE DaemonLifecycleMC --------------------------
(* Instances of DaemonLifecycle for TLC. *)
EXTENDS DaemonLifecycle

CONSTANTS d1, d2, d3, k1, k2

TwoDaemons == {d1, d2}
ThreeDaemons == {d1, d2, d3}
OneCommand == {k1}
TwoCommands == {k1, k2}
NoneOutdated == {}
OneOutdated == {d1}
NoneInterruptible == {}
OneInterruptible == {d2}
=============================================================================
