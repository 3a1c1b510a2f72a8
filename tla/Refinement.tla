----------------------------- MODULE Refinement -----------------------------
(***************************************************************************)
(* What a semantic refinement promises to the build: until it ends, some   *)
(* of the exports that it may vouch for become live, and none stops to be. *)
(***************************************************************************)
CONSTANTS Exports, LiveBefore

VARIABLES live, may, ended

Init ==
    /\ live = LiveBefore
    /\ may \in SUBSET (Exports \ LiveBefore)
    /\ ended = FALSE

(* mark_live, for the exports of one answer *)
Mark(exports) ==
    /\ ~ended
    /\ live' = live \cup exports
    /\ UNCHANGED <<may, ended>>

End ==
    /\ ~ended
    /\ ended' = TRUE
    /\ UNCHANGED <<live, may>>

Next == End \/ \E exports \in SUBSET may : Mark(exports)

Spec == Init /\ [][Next]_<<live, may, ended>>
=============================================================================
