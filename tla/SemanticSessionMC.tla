------------------------- MODULE SemanticSessionMC -------------------------
(* Instances of SemanticSession for TLC. *)
EXTENDS SemanticSession

CONSTANTS e1, e2, e3, e4

FourExports == {e1, e2, e3, e4}
OneLive == {e4}
OwnAndOther == {1, 2}
IndexSizes == {0, 1, 2, 200}
=============================================================================
