---------------------------- MODULE MCLowerScreen ----------------------------
(***************************************************************************)
(* The waypoints of the map and the keyboard's cover in one run.  The two  *)
(* share the lower screen and no variable, so that a behaviour of both is  *)
(* a behaviour of each beside the other: it is enough to move either, and  *)
(* TLC chooses which at the start.                                         *)
(***************************************************************************)
EXTENDS WaypointStore, OskCover

VARIABLE moving   \* "map" or "keyboard"

MCInit == Init /\ OskInit /\ moving \in {"map", "keyboard"}

MCNext ==
    \/ moving = "map" /\ Next /\ UNCHANGED <<oskVars, moving>>
    \/ moving = "keyboard" /\ OskNext /\ UNCHANGED <<vars, moving>>

MCSpec == MCInit /\ [][MCNext]_<<vars, oskVars, moving>> /\ Fairness /\ OskFairness
==============================================================================
