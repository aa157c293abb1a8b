--------------------------- MODULE WaypointStore ---------------------------
(***************************************************************************)
(* The waypoints of the lower-screen map: a list per world, of which the   *)
(* list of the current world is a file that two programs write.            *)
(*                                                                         *)
(* terrain_loop.sh follows the world the game has open.  On a change it    *)
(* keeps CURRENT/waypoints.txt under the old world's name, empties CURRENT,*)
(* puts the new world's list there and labels it (.world-id).  bottomd     *)
(* shows the file, loads it when its time in whole seconds differs from    *)
(* the one it remembers, and replaces it when the player taps the map.     *)
(* Nothing tells bottomd which world the file belongs to.                  *)
(*                                                                         *)
(* One action per command of the script and per system call of bottomd     *)
(* that matters.  A list is a set of marks; a list that is missing under   *)
(* waypoints/ is an empty one.  The world with the newest log, which is    *)
(* what the script falls back to, is the one opened last.  Copies and      *)
(* writes succeed.  Definitions ending in Bug are mutations, used by       *)
(* nothing here.                                                           *)
(***************************************************************************)
EXTENDS Naturals

CONSTANTS
    Worlds, NoWorld,
    Marks,
    Patient,    \* the player taps only a list that is the world's own, and a second before moving on
    MaxTaps,    \* bound: taps on the map
    MaxMoves,   \* bound: worlds opened or joined
    MaxCuts     \* bound: ends of a session

ASSUME WaypointAssumption ==
    /\ NoWorld \notin Worlds /\ Patient \in BOOLEAN
    /\ MaxTaps \in Nat /\ MaxMoves \in Nat /\ MaxCuts \in Nat

VARIABLES
    (* the game *)
    newest,     \* the world opened last
    remote,     \* the player is on somebody else's server
    (* files *)
    source,     \* map-source
    list,       \* CURRENT/waypoints.txt: whether it is there, and its marks
    tmp,        \* CURRENT/waypoints.txt.tmp is there
    label,      \* CURRENT/.world-id, NoWorld when there is none
    saved,      \* waypoints/<world>.txt
    (* terrain_loop.sh *)
    pcT, wid, lastWid,
    held,       \* the marks cp has open
    doomed,     \* what the globs of the clearing loop expanded to
    mine,       \* waypoints.txt is still the file cp or ":>" made
    (* bottomd *)
    pcD,
    mem,        \* g_wp
    same,       \* the file's time is g_wp_mtime
    seenNow,    \* g_wp_mtime is the current second
    listNow,    \* the file's time is the current second
    (* history *)
    own,        \* what the player marked in each world
    tapped,     \* the mark of the tap being saved
    torn,       \* a session ended inside a switch
    half,       \* bottomd read a list between its creation and its writing
    taps, moves, cuts

files == <<source, list, tmp, label, saved>>
loop == <<pcT, wid, lastWid, held, doomed, mine>>
times == <<same, seenNow, listNow>>
bottomd == <<pcD, mem, times>>
history == <<own, tapped, torn, half>>
bounds == <<taps, moves, cuts>>
vars == <<newest, remote, files, loop, bottomd, history, bounds>>

Lists == SUBSET Marks
Steps == {"select", "keep", "kept", "glob", "list", "tmp", "label", "load", "write", "name", "pass"}

TypeOK ==
    /\ newest \in Worlds \cup {NoWorld} /\ remote \in BOOLEAN
    /\ source \in {"unknown", "local", "remote"}
    /\ list \in [there : BOOLEAN, marks : Lists] /\ tmp \in BOOLEAN
    /\ label \in Worlds \cup {NoWorld} /\ saved \in [Worlds -> Lists]
    /\ pcT \in Steps \cup {"off"} /\ wid \in Worlds \cup {NoWorld} /\ lastWid \in Worlds \cup {NoWorld}
    /\ wid \in Worlds \/ pcT \in {"off", "select", "pass"}
    /\ held \in Lists /\ doomed \in SUBSET {"list", "tmp"} /\ mine \in BOOLEAN
    /\ pcD \in {"off", "idle", "read", "tmp"} /\ mem \in Lists
    /\ same \in BOOLEAN /\ seenNow \in BOOLEAN /\ listNow \in BOOLEAN
    /\ own \in [Worlds -> Lists] /\ tapped \in Lists /\ torn \in BOOLEAN /\ half \in BOOLEAN
    /\ taps \in Nat /\ moves \in Nat /\ cuts \in Nat

NoList == [there |-> FALSE, marks |-> {}]
Toggle(marks, m) == IF m \in marks THEN marks \ {m} ELSE marks \cup {m}

Init ==
    /\ newest = NoWorld /\ remote = FALSE /\ source = "unknown"
    /\ list = NoList /\ tmp = FALSE /\ label = NoWorld /\ saved = [w \in Worlds |-> {}]
    /\ pcT = "off" /\ wid = NoWorld /\ lastWid = NoWorld
    /\ held = {} /\ doomed = {} /\ mine = FALSE
    /\ pcD = "off" /\ mem = {} /\ same = FALSE /\ seenNow = FALSE /\ listNow = FALSE
    /\ own = [w \in Worlds |-> {}] /\ tapped = {} /\ torn = FALSE /\ half = FALSE
    /\ taps = 0 /\ moves = 0 /\ cuts = 0

(***************************************************************************)
(* The session, the game and the clock.                                    *)
(***************************************************************************)

(* The first selection comes at least a second after the last session. *)
Start ==
    /\ pcT = "off"
    /\ pcT' = "pass" /\ lastWid' = label /\ pcD' = "idle"
    /\ source' = "unknown" /\ mem' = {} /\ same' = FALSE /\ seenNow' = FALSE
    /\ UNCHANGED <<newest, remote, list, tmp, label, saved, wid, held, doomed, mine, listNow, history, bounds>>

(* The end of a session, by a signal or by the power switch. *)
Cut ==
    /\ pcT # "off" /\ cuts < MaxCuts
    /\ cuts' = cuts + 1 /\ pcT' = "off" /\ pcD' = "off" /\ remote' = FALSE
    /\ torn' = (torn \/ list.there # (label # NoWorld))
    /\ UNCHANGED <<newest, files, wid, lastWid, held, doomed, mine, mem, times, own, tapped, half, taps, moves>>

Leave ==
    /\ pcT # "off" /\ moves < MaxMoves /\ moves' = moves + 1
    /\ Patient => pcD # "tmp" /\ ~seenNow
    /\ UNCHANGED <<files, loop, bottomd, history, taps, cuts>>

Enter(w) ==
    /\ Leave /\ (newest # w \/ remote)
    /\ newest' = w /\ remote' = FALSE

Join ==
    /\ Leave /\ ~remote
    /\ remote' = TRUE /\ UNCHANGED newest

(* A pass over a world, with the ticks before the next selection, takes    *)
(* more than a second; a save takes far less.                              *)
Tick ==
    /\ pcD # "tmp" /\ (seenNow \/ listNow \/ pcT = "pass")
    /\ seenNow' = FALSE /\ listNow' = FALSE
    /\ pcT' = IF pcT = "pass" THEN "select" ELSE pcT
    /\ UNCHANGED <<newest, remote, files, wid, lastWid, held, doomed, mine, pcD, mem, same, history, bounds>>

(***************************************************************************)
(* terrain_loop.sh                                                         *)
(***************************************************************************)

LoopStep(from, to) == pcT = from /\ pcT' = to /\ UNCHANGED <<newest, remote, source, lastWid, pcD, mem, history, bounds>>

Select ==
    /\ pcT = "select" /\ source = "local"
    /\ newest # NoWorld /\ newest # lastWid
    /\ pcT' = "keep" /\ wid' = newest
    /\ UNCHANGED <<newest, remote, files, lastWid, held, doomed, mine, bottomd, history, bounds>>

OldWidBug == wid
OldWid == IF lastWid = NoWorld THEN wid ELSE lastWid

(* cp opens the list, empties the kept one, and then writes it. *)
KeepOpen ==
    /\ LoopStep("keep", IF list.there THEN "kept" ELSE "glob")
    /\ IF list.there
       THEN held' = list.marks /\ saved' = [saved EXCEPT ![OldWid] = {}]
       ELSE UNCHANGED <<held, saved>>
    /\ UNCHANGED <<list, tmp, label, wid, doomed, mine, times>>

KeepWrite ==
    /\ LoopStep("kept", "glob")
    /\ saved' = [saved EXCEPT ![OldWid] = held]
    /\ UNCHANGED <<list, tmp, label, wid, held, doomed, mine, times>>

Glob ==
    /\ LoopStep("glob", "list")
    /\ doomed' = (IF list.there THEN {"list"} ELSE {}) \cup (IF tmp THEN {"tmp"} ELSE {})
    /\ UNCHANGED <<list, tmp, label, saved, wid, held, mine, times>>

ClearList ==
    /\ LoopStep("list", "tmp")
    /\ list' = IF "list" \in doomed THEN NoList ELSE list
    /\ UNCHANGED <<tmp, label, saved, wid, held, doomed, mine, times>>

ClearTmp ==
    /\ LoopStep("tmp", "label")
    /\ tmp' = (tmp /\ "tmp" \notin doomed)
    /\ UNCHANGED <<list, label, saved, wid, held, doomed, mine, times>>

ClearLabel ==
    /\ LoopStep("label", "load")
    /\ label' = NoWorld
    /\ UNCHANGED <<list, tmp, saved, wid, held, doomed, mine, times>>

(* Creating or truncating the list, then writing what was kept of it. *)
Written == same' = seenNow /\ listNow' = TRUE /\ UNCHANGED seenNow
LoadList ==
    /\ LoopStep("load", IF saved[wid] = {} THEN "name" ELSE "write")
    /\ list' = [there |-> TRUE, marks |-> {}] /\ mine' = TRUE /\ Written
    /\ UNCHANGED <<tmp, label, saved, wid, held, doomed>>

WriteList ==
    /\ LoopStep("write", "name")
    /\ IF mine THEN list' = [there |-> TRUE, marks |-> saved[wid]] /\ Written
               ELSE UNCHANGED <<list, times>>
    /\ UNCHANGED <<tmp, label, saved, wid, held, doomed, mine>>

NameList ==
    /\ pcT = "name" /\ pcT' = "pass"
    /\ label' = wid /\ lastWid' = wid
    /\ UNCHANGED <<newest, remote, source, list, tmp, saved, wid, held, doomed, mine, bottomd, history, bounds>>

Loop == \/ Select \/ KeepOpen \/ KeepWrite \/ Glob
        \/ ClearList \/ ClearTmp \/ ClearLabel \/ LoadList \/ WriteList \/ NameList

(***************************************************************************)
(* bottomd                                                                 *)
(***************************************************************************)

Publish ==
    /\ pcD = "idle" /\ source # (IF remote THEN "remote" ELSE "local")
    /\ source' = IF remote THEN "remote" ELSE "local"
    /\ UNCHANGED <<newest, remote, list, tmp, label, saved, loop, bottomd, history, bounds>>

(* stat, at most once a second in the code, and as often as it likes here *)
PollBug ==
    /\ pcD = "idle" /\ list.there /\ ~same /\ mem = {}    \* loads once
    /\ pcD' = "read" /\ same' = TRUE /\ seenNow' = listNow
    /\ UNCHANGED <<newest, remote, files, loop, mem, listNow, history, bounds>>
Poll ==
    /\ pcD = "idle" /\ list.there /\ ~same
    /\ pcD' = "read" /\ same' = TRUE /\ seenNow' = listNow
    /\ UNCHANGED <<newest, remote, files, loop, mem, listNow, history, bounds>>

Read ==
    /\ pcD = "read" /\ pcD' = "idle"
    /\ mem' = list.marks
    /\ half' = (half \/ (pcT = "write" /\ mine))
    /\ UNCHANGED <<newest, remote, files, loop, times, own, tapped, torn, bounds>>

(* The player sees the list of this world, and the switch to it is over. *)
Settled == pcT \in {"select", "pass"} /\ newest # NoWorld /\ lastWid = newest /\ ~remote /\ mem = own[newest]

Tap(m) ==
    /\ pcD = "idle" /\ taps < MaxTaps /\ source # "remote"
    /\ newest # NoWorld /\ (Patient => Settled)
    /\ taps' = taps + 1 /\ pcD' = "tmp" /\ tmp' = TRUE
    /\ mem' = Toggle(mem, m) /\ tapped' = {m}
    /\ UNCHANGED <<newest, remote, source, list, label, saved, loop, times, own, torn, half, moves, cuts>>

(* rename replaces the file, unless the script has removed the new one.    *)
(* The tap counts from here: a cut before it loses the tap, not the list.  *)
SaveRename ==
    /\ pcD = "tmp" /\ pcD' = "idle" /\ tmp' = FALSE
    /\ own' = [own EXCEPT ![newest] = IF tmp THEN (@ \ tapped) \cup (tapped \ @) ELSE @]
    /\ IF tmp THEN /\ list' = [there |-> TRUE, marks |-> mem]
                   /\ mine' = FALSE /\ same' = TRUE /\ seenNow' = TRUE /\ listNow' = TRUE
       ELSE /\ same' = (same \/ list.there) /\ seenNow' = (IF list.there THEN listNow ELSE seenNow)
            /\ UNCHANGED <<list, mine, listNow>>
    /\ UNCHANGED <<newest, remote, source, label, saved, pcT, wid, lastWid, held, doomed, mem, tapped, torn, half, bounds>>

Bottomd == Publish \/ Poll \/ Read \/ SaveRename

Next ==
    \/ Start \/ Cut \/ Join \/ Tick \/ Loop \/ Bottomd
    \/ \E w \in Worlds : Enter(w)
    \/ \E m \in Marks : Tap(m)

Spec == Init /\ [][Next]_vars

(* The script and the frames of bottomd go on, and so does the clock. *)
Fairness ==
    /\ WF_vars(Loop) /\ WF_vars(Tick)
    /\ WF_vars(Publish) /\ WF_vars(Poll) /\ WF_vars(Read) /\ WF_vars(SaveRename)

(***************************************************************************)
(* Properties                                                              *)
(***************************************************************************)

(* What the player marked in a world stays with that world: its list is    *)
(* the file, if the label says so, and else the kept one.  Nothing is said *)
(* once a session ended between the removal of one list and the label of   *)
(* the next, nor of a list without a label, which only the first one is.   *)
(* "Save per-world waypoints, clear only generated runtime content"        *)
(* (terrain_loop.sh:114).                                                  *)
ListsStay ==
    /\ ~torn
    /\ pcT \in {"off", "select", "pass"}
    /\ list.there => label # NoWorld
    =>
        \A w \in Worlds : own[w] = IF label = w THEN list.marks ELSE saved[w]

(* The map comes to show the list of the world the player stays in, however*)
(* the switch, the loading and the seconds of the file's time fall: unless *)
(* a session was torn, or bottomd read a list before it was written        *)
(* ("(re)load lazily on mtime change", bottomd.c:123).                     *)
ListArrives ==
    \A w \in Worlds :
        <>[](pcT # "off" /\ newest = w /\ ~remote) => <>[](mem = own[w] \/ torn \/ half)
=============================================================================
