----------------------------- MODULE SharedData -----------------------------
(***************************************************************************)
(* What the migration into the edition-neutral root promises, whatever     *)
(* fails and wherever it is interrupted: a file of the player is always    *)
(* in at least one of the two places, nothing moves while the game runs,   *)
(* and the game only starts when nothing is left in the old place.         *)
(***************************************************************************)
EXTENDS Naturals

CONSTANTS
    Items,     \* apk, versions, profiles, backups
    Files      \* the player's files

Places == {"source", "shared"}

VARIABLES
    files,     \* files[i][p]: the complete files of item i that are at place p
    playing

vars == <<files, playing>>

Held(i) == files[i]["source"] \cup files[i]["shared"]

Init == files \in [Items -> [Places -> SUBSET Files]] /\ playing = FALSE

(* Files of one item are moved, copied, or dropped where a copy remains.   *)
Transfer(i) ==
    /\ ~playing
    /\ \E at \in [Places -> SUBSET Files] :
          /\ at["source"] \cup at["shared"] = Held(i)
          /\ files' = [files EXCEPT ![i] = at]
    /\ UNCHANGED playing

Add(i, f, p) ==
    /\ playing => p = "shared"
    /\ files' = [files EXCEPT ![i][p] = @ \cup {f}]
    /\ UNCHANGED playing

Start ==
    /\ \A i \in Items : files[i]["source"] = {}
    /\ playing' = TRUE
    /\ UNCHANGED files

Stop == playing /\ playing' = FALSE /\ UNCHANGED files

Next ==
    \/ \E i \in Items : Transfer(i)
    \/ \E i \in Items, f \in Files, p \in Places : Add(i, f, p)
    \/ Start
    \/ Stop

Spec == Init /\ [][Next]_vars
=============================================================================
