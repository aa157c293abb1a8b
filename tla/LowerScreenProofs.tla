-------------------------- MODULE LowerScreenProofs --------------------------
(***************************************************************************)
(* What is proved of the three models of the RG DS's lower screen: the     *)
(* waypoints of the map, the panels with the flip and the gestures, and    *)
(* the keyboard that covers the screen.  They share no variable; each is   *)
(* proved about by itself.                                                 *)
(***************************************************************************)
EXTENDS WaypointStore, LowerInput, OskCover, TLAPS

(***************************************************************************)
(* WaypointStore                                                           *)
(*                                                                         *)
(* With a patient player the switch keeps every world's list, for any      *)
(* worlds, marks, bounds and cuts.  `Placed` says, for every step of the   *)
(* script, where each list is; `Saving`, that a tap being saved belongs to *)
(* the world whose list the file holds.                                    *)
(***************************************************************************)

AtRest == {"off", "select", "pass"}
Copying == {"keep", "kept"}
Kept == {"glob", "list", "tmp", "label", "load", "write", "name"}

KeptBut(x) == \A w \in Worlds \ {x} : saved[w] = own[w]
Whole == /\ list.there <=> label # NoWorld
         /\ list.there => list.marks = own[label]

(* Where each list is, step by step. *)
Placed ==
    /\ pcT \in AtRest \cup Copying => Whole /\ KeptBut(label)
    /\ pcT \in Kept => KeptBut(NoWorld)
    /\ pcT \in {"glob", "list"} => Whole
    /\ pcT \in {"tmp", "label", "load"} => ~list.there
    /\ pcT \in {"load", "write", "name"} => label = NoWorld
    /\ pcT \in {"select", "pass", "keep", "kept"} => lastWid = label
    /\ pcT \in Copying \cup Kept => wid \in Worlds
    /\ pcT = "kept" => list.there /\ held = list.marks
    /\ pcT = "list" => (list.there => "list" \in doomed)
    /\ pcT = "write" => list.there /\ mine
    /\ pcT = "name" => list.there /\ list.marks = own[wid]

(* What is being saved is the list of the world the player is in. *)
Saving ==
    pcD = "tmp" =>
        /\ pcT \in {"select", "pass"} /\ newest \in Worlds /\ lastWid = newest /\ tmp
        /\ mem = (own[newest] \ tapped) \cup (tapped \ own[newest])

IInv == TypeOK /\ Saving /\ (torn \/ Placed)

Files == Start \/ Cut \/ Join \/ Tick \/ Bottomd \/ (\E w \in Worlds : Enter(w)) \/ (\E m \in Marks : Tap(m))

(***************************************************************************)
(* Types                                                                   *)
(***************************************************************************)

LEMMA TypeInit == Init => TypeOK
<1> SUFFICES ASSUME Init PROVE TypeOK
    OBVIOUS
<1>1. list \in [there : BOOLEAN, marks : Lists]
    BY DEF Init, NoList, Lists
<1>2. saved \in [Worlds -> Lists] /\ own \in [Worlds -> Lists]
    BY DEF Init, Lists
<1> QED
    BY <1>1, <1>2 DEF Init, TypeOK, Lists

LEMMA TypeLoop == TypeOK /\ Loop => TypeOK'
<1> SUFFICES ASSUME TypeOK, Loop PROVE TypeOK'
    OBVIOUS
<1> USE DEF TypeOK, Lists, Steps
<1>1. CASE Select
    BY <1>1 DEF Select, files, bottomd, times, history, bounds
<1>2. CASE KeepOpen
    BY <1>2 DEF KeepOpen, LoopStep, times, history, bounds
<1>3. CASE KeepWrite
    <2>1. saved' \in [Worlds -> SUBSET Marks]
        BY <1>3 DEF KeepWrite
    <2> QED
        BY <1>3, <2>1 DEF KeepWrite, LoopStep, times, history, bounds
<1>4. CASE Glob
    BY <1>4 DEF Glob, LoopStep, times, history, bounds
<1>5. CASE ClearList
    BY <1>5 DEF ClearList, LoopStep, NoList, times, history, bounds
<1>6. CASE ClearTmp
    BY <1>6 DEF ClearTmp, LoopStep, times, history, bounds
<1>7. CASE ClearLabel
    BY <1>7 DEF ClearLabel, LoopStep, times, history, bounds
<1>8. CASE LoadList
    BY <1>8 DEF LoadList, LoopStep, Written, history, bounds
<1>9. CASE WriteList
    <2>1. CASE mine
        <3>1. wid \in Worlds
            BY <1>9 DEF WriteList, LoopStep
        <3>2. list' \in [there : BOOLEAN, marks : SUBSET Marks]
            <4>1. saved[wid] \in SUBSET Marks
                BY <3>1
            <4>2. list' = [there |-> TRUE, marks |-> saved[wid]]
                BY <1>9, <2>1 DEF WriteList
            <4> QED
                BY <4>1, <4>2
        <3> QED
            BY <1>9, <2>1, <3>2 DEF WriteList, LoopStep, Written, history, bounds
    <2>2. CASE ~mine
        BY <1>9, <2>2 DEF WriteList, LoopStep, times, history, bounds
    <2> QED
        BY <2>1, <2>2
<1>10. CASE NameList
    BY <1>10 DEF NameList, bottomd, times, history, bounds
<1> QED
    BY <1>1, <1>2, <1>3, <1>4, <1>5, <1>6, <1>7, <1>8, <1>9, <1>10 DEF Loop

LEMMA TypeOther == TypeOK /\ Files => TypeOK'
<1> SUFFICES ASSUME TypeOK, Files PROVE TypeOK'
    OBVIOUS
<1> USE DEF TypeOK, Lists, Steps
<1>1. CASE Start
    BY <1>1 DEF Start, history, bounds
<1>2. CASE Cut
    <2>1. torn' \in BOOLEAN
        BY <1>2 DEF Cut
    <2>2. cuts' \in Nat /\ UNCHANGED <<taps, moves>>
        BY <1>2 DEF Cut
    <2>3. /\ pcT' \in Steps \cup {"off"} /\ pcD' \in {"off", "idle", "read", "tmp"} /\ remote' \in BOOLEAN
          /\ wid' \in Worlds \/ pcT' \in {"off", "select", "pass"}
        BY <1>2 DEF Cut
    <2>4. UNCHANGED <<newest, source, list, tmp, label, saved, wid, lastWid, held, doomed, mine, mem,
                      same, seenNow, listNow, own, tapped, half>>
        BY <1>2 DEF Cut, files, times
    <2> QED
        BY <2>1, <2>2, <2>3, <2>4
<1>3. CASE Join
    BY <1>3 DEF Join, Leave, files, loop, bottomd, times, history
<1>4. CASE \E w \in Worlds : Enter(w)
    <2>1. PICK w \in Worlds : Enter(w)
        BY <1>4
    <2>2. newest' \in Worlds \cup {NoWorld} /\ remote' \in BOOLEAN
        BY <2>1 DEF Enter
    <2>4. moves' \in Nat
        BY <2>1 DEF Enter, Leave
    <2>3. UNCHANGED <<files, loop, bottomd, history, taps, cuts>>
        BY <2>1 DEF Enter, Leave
    <2> QED
        BY <2>2, <2>3, <2>4 DEF files, loop, bottomd, times, history
<1>5. CASE Tick
    <2>1. seenNow' = FALSE /\ listNow' = FALSE /\ pcT' = IF pcT = "pass" THEN "select" ELSE pcT
        BY <1>5 DEF Tick
    <2>2. UNCHANGED <<newest, remote, source, list, tmp, label, saved, wid, lastWid, held, doomed, mine,
                      pcD, mem, same, own, tapped, torn, half, taps, moves, cuts>>
        BY <1>5 DEF Tick, files, history, bounds
    <2>3. /\ pcT' \in Steps \cup {"off"} /\ seenNow' \in BOOLEAN /\ listNow' \in BOOLEAN
          /\ wid' \in Worlds \/ pcT' \in {"off", "select", "pass"}
        BY <2>1, <2>2
    <2> QED
        BY <2>2, <2>3
<1>6. CASE Publish
    BY <1>6 DEF Publish, loop, bottomd, times, history, bounds
<1>7. CASE Poll
    BY <1>7 DEF Poll, files, loop, history, bounds
<1>8. CASE Read
    BY <1>8 DEF Read, files, loop, times, bounds
<1>9. CASE \E m \in Marks : Tap(m)
    <2>1. PICK m \in Marks : Tap(m)
        BY <1>9
    <2>2. mem' \in SUBSET Marks /\ tapped' \in SUBSET Marks
        BY <2>1 DEF Tap, Toggle
    <2> QED
        BY <2>1, <2>2 DEF Tap, loop, times
<1>10. CASE SaveRename
    <2>1. own' \in [Worlds -> SUBSET Marks]
        BY <1>10 DEF SaveRename
    <2>2. list' \in [there : BOOLEAN, marks : SUBSET Marks]
        <3>1. CASE tmp
            <4>1. list' = [there |-> TRUE, marks |-> mem]
                BY <1>10, <3>1 DEF SaveRename
            <4> QED
                BY <4>1
        <3>2. CASE ~tmp
            BY <1>10, <3>2 DEF SaveRename
        <3> QED
            BY <3>1, <3>2
    <2>3. tmp' \in BOOLEAN /\ mine' \in BOOLEAN /\ same' \in BOOLEAN /\ seenNow' \in BOOLEAN /\ listNow' \in BOOLEAN
        <3>1. CASE tmp
            BY <1>10, <3>1 DEF SaveRename
        <3>2. CASE ~tmp
            BY <1>10, <3>2 DEF SaveRename
        <3> QED
            BY <3>1, <3>2
    <2> QED
        BY <1>10, <2>1, <2>2, <2>3 DEF SaveRename, bounds
<1> QED
    BY <1>1, <1>2, <1>3, <1>4, <1>5, <1>6, <1>7, <1>8, <1>9, <1>10 DEF Files, Bottomd

LEMMA TypeNext == TypeOK /\ [Next]_vars => TypeOK'
<1> SUFFICES ASSUME TypeOK, [Next]_vars PROVE TypeOK'
    OBVIOUS
<1>1. CASE Next
    BY <1>1, TypeLoop, TypeOther DEF Next, Files
<1>2. CASE UNCHANGED vars
    BY <1>2 DEF TypeOK, vars, files, loop, bottomd, times, history, bounds
<1> QED
    BY <1>1, <1>2

(* Every variable of the model keeps its type, for any constants. *)
THEOREM TypeCorrect == Spec => []TypeOK
    BY TypeInit, TypeNext, PTL DEF Spec

(***************************************************************************)
(* A tap being saved belongs to the world whose list the file holds.       *)
(***************************************************************************)

LEMMA SavingNext ==
    ASSUME Patient, TypeOK, Saving, [Next]_vars
    PROVE  Saving'
<1> USE DEF Saving
<1>1. CASE Start \/ Cut
    BY <1>1 DEF Start, Cut
<1>2. CASE Join \/ \E w \in Worlds : Enter(w)
    <2>1. pcD' # "tmp"
        BY <1>2 DEF Join, Enter, Leave, bottomd
    <2> QED
        BY <2>1
<1>3. CASE Tick \/ Read
    BY <1>3 DEF Tick, Read
<1>4. CASE Loop
    <2>1. CASE Select
        BY <2>1 DEF Select, bottomd
    <2>2. CASE NameList
        BY <2>2 DEF NameList, bottomd
    <2>3. ASSUME NEW a \in Steps \ {"select", "pass"}, NEW b, LoopStep(a, b) PROVE Saving'
        BY <2>3 DEF LoopStep
    <2> QED
        BY <1>4, <2>1, <2>2, <2>3
           DEF Loop, KeepOpen, KeepWrite, Glob, ClearList, ClearTmp, ClearLabel, LoadList, WriteList, Steps
<1>5. CASE Publish \/ Poll \/ SaveRename
    <2>1. pcD' # "tmp"
        BY <1>5 DEF Publish, Poll, SaveRename, bottomd
    <2> QED
        BY <2>1
<1>6. CASE \E m \in Marks : Tap(m)
    <2>1. PICK m \in Marks : Tap(m)
        BY <1>6
    <2>2. Settled /\ newest \in Worlds
        BY <2>1 DEF Tap, TypeOK
    <2>3. UNCHANGED <<newest, pcT, lastWid, own>> /\ tmp' /\ tapped' = {m} /\ mem' = Toggle(mem, m)
        BY <2>1 DEF Tap, loop
    <2>4. mem' = (own[newest] \ {m}) \cup ({m} \ own[newest])
        BY <2>2, <2>3 DEF Settled, Toggle
    <2> QED
        BY <2>2, <2>3, <2>4 DEF Settled
<1>7. CASE UNCHANGED vars
    BY <1>7 DEF vars, loop, files, bottomd, history
<1> QED
    BY <1>1, <1>2, <1>3, <1>4, <1>5, <1>6, <1>7 DEF Next, Bottomd

(***************************************************************************)
(* Where the lists are.                                                    *)
(***************************************************************************)

(* The script's own steps. *)
LEMMA PlacedLoop ==
    ASSUME TypeOK, Placed, Loop
    PROVE  Placed'
<1> USE DEF Placed, Whole, KeptBut, AtRest, Copying, Kept
<1>1. CASE Select
    <2>1. UNCHANGED <<list, label, saved, own, lastWid>> /\ pcT' = "keep" /\ wid' \in Worlds
        BY <1>1 DEF Select, files, history, TypeOK
    <2> QED
        BY <1>1, <2>1 DEF Select
<1>2. CASE KeepOpen
    <2>1. UNCHANGED <<list, label, own, lastWid, wid>> /\ pcT = "keep" /\ wid \in Worlds
        BY <1>2 DEF KeepOpen, LoopStep, history
    <2>2. CASE list.there
        <3>1. OldWid = label
            BY <2>1, <2>2 DEF OldWid
        <3>2. pcT' = "kept" /\ held' = list.marks /\ saved' = [saved EXCEPT ![label] = {}]
            BY <1>2, <2>2, <3>1 DEF KeepOpen, LoopStep
        <3>3. \A w \in Worlds \ {label} : saved'[w] = saved[w]
            BY <3>2 DEF TypeOK
        <3> QED
            BY <2>1, <2>2, <3>2, <3>3
    <2>3. CASE ~list.there
        <3>1. pcT' = "glob" /\ UNCHANGED <<held, saved>>
            BY <1>2, <2>3 DEF KeepOpen, LoopStep
        <3> QED
            BY <2>1, <2>3, <3>1
    <2> QED
        BY <2>2, <2>3
<1>3. CASE KeepWrite
    <2>1. UNCHANGED <<list, label, own, lastWid, wid>> /\ pcT = "kept" /\ pcT' = "glob" /\ wid \in Worlds
        BY <1>3 DEF KeepWrite, LoopStep, history
    <2>2. OldWid = label /\ label \in Worlds
        BY <2>1 DEF OldWid, TypeOK
    <2>3. saved' = [saved EXCEPT ![label] = own[label]]
        BY <1>3, <2>1, <2>2 DEF KeepWrite
    <2>4. \A w \in Worlds : saved'[w] = own[w]
        BY <2>1, <2>2, <2>3 DEF TypeOK
    <2> QED
        BY <2>1, <2>4
<1>4. CASE Glob
    BY <1>4 DEF Glob, LoopStep, history
<1>5. CASE ClearList
    <2>1. UNCHANGED <<label, saved, own, wid>> /\ pcT = "list" /\ pcT' = "tmp" /\ wid \in Worlds
        BY <1>5 DEF ClearList, LoopStep, history
    <2>2. ~list'.there
        BY <1>5, <2>1 DEF ClearList, NoList
    <2> QED
        BY <2>1, <2>2
<1>6. CASE ClearTmp
    BY <1>6 DEF ClearTmp, LoopStep, history
<1>7. CASE ClearLabel
    BY <1>7 DEF ClearLabel, LoopStep, history
<1>8. CASE LoadList
    <2>1. UNCHANGED <<label, saved, own, wid>> /\ pcT = "load" /\ wid \in Worlds
        BY <1>8 DEF LoadList, LoopStep, history
    <2>2. list' = [there |-> TRUE, marks |-> {}] /\ mine'
        BY <1>8 DEF LoadList
    <2>3. pcT' = IF own[wid] = {} THEN "name" ELSE "write"
        BY <1>8, <2>1, WaypointAssumption DEF LoadList, LoopStep, TypeOK
    <2> QED
        BY <2>1, <2>2, <2>3 DEF TypeOK
<1>9. CASE WriteList
    <2>1. UNCHANGED <<label, saved, own, wid>> /\ pcT = "write" /\ pcT' = "name" /\ wid \in Worlds
        BY <1>9 DEF WriteList, LoopStep, history
    <2>2. list' = [there |-> TRUE, marks |-> own[wid]]
        BY <1>9, <2>1, WaypointAssumption DEF WriteList, TypeOK
    <2> QED
        BY <2>1, <2>2
<1>10. CASE NameList
    <2>1. UNCHANGED <<list, saved, own>> /\ pcT = "name" /\ pcT' = "pass" /\ label' = wid /\ lastWid' = wid
        BY <1>10 DEF NameList, history
    <2> QED
        BY <2>1, WaypointAssumption DEF TypeOK
<1> QED
    BY <1>1, <1>2, <1>3, <1>4, <1>5, <1>6, <1>7, <1>8, <1>9, <1>10 DEF Loop

(* A session that ends leaves the lists where they are, or is torn. *)
LEMMA PlacedCut ==
    ASSUME TypeOK, Placed, Cut
    PROVE  torn' \/ Placed'
<1> SUFFICES ASSUME ~torn' PROVE Placed'
    OBVIOUS
<1>1. UNCHANGED <<list, label, saved, own>> /\ pcT' = "off" /\ pcT \in Steps
    BY DEF Cut, files, TypeOK
<1>2. list.there <=> label # NoWorld
    BY DEF Cut, TypeOK
<1>3. list.there => list.marks = own[label]
    BY <1>1, <1>2 DEF Placed, Whole, AtRest, Copying, Kept, Steps
<1>4. KeptBut(label)
    BY <1>1, WaypointAssumption DEF Placed, KeptBut, AtRest, Copying, Kept, Steps, TypeOK
<1> QED
    BY <1>1, <1>2, <1>3, <1>4 DEF Placed, Whole, KeptBut, AtRest, Copying, Kept

(* A save changes the file and what the player marked alike. *)
LEMMA PlacedSave ==
    ASSUME TypeOK, Saving, Placed, SaveRename
    PROVE  Placed'
<1>1. /\ pcT \in {"select", "pass"} /\ newest \in Worlds /\ label = newest
      /\ tmp /\ mem = (own[newest] \ tapped) \cup (tapped \ own[newest])
    BY DEF SaveRename, Saving, Placed
<1>2. UNCHANGED <<pcT, label, saved, lastWid>>
    BY DEF SaveRename
<1>3. own' = [own EXCEPT ![newest] = mem] /\ list' = [there |-> TRUE, marks |-> mem]
    BY <1>1 DEF SaveRename
<1>4. own'[newest] = mem /\ \A w \in Worlds \ {newest} : own'[w] = own[w]
    BY <1>1, <1>3 DEF TypeOK
<1>5. label # NoWorld
    BY <1>1, WaypointAssumption
<1> QED
    BY <1>1, <1>2, <1>3, <1>4, <1>5 DEF Placed, Whole, KeptBut, AtRest, Copying, Kept

LEMMA PlacedNext ==
    ASSUME TypeOK, Saving, torn \/ Placed, [Next]_vars
    PROVE  (torn \/ Placed)'
<1>1. torn => torn'
    BY DEF Next, Loop, Bottomd, Start, Cut, Join, Enter, Leave, Tick, Tap, Select, KeepOpen, KeepWrite, Glob,
           ClearList, ClearTmp, ClearLabel, LoadList, WriteList, NameList, LoopStep, Publish, Poll, Read,
           SaveRename, vars, history
<1> SUFFICES ASSUME Placed PROVE torn' \/ Placed'
    BY <1>1
<1> USE DEF Placed, Whole, KeptBut, AtRest, Copying, Kept
<1>2. CASE Start
    BY <1>2 DEF Start, history
<1>3. CASE Join \/ \E w \in Worlds : Enter(w)
    <2>1. UNCHANGED <<files, loop, history>>
        BY <1>3 DEF Join, Enter, Leave
    <2> QED
        BY <2>1 DEF files, loop, history
<1>4. CASE Tick
    BY <1>4 DEF Tick, files, history
<1>5. CASE Publish \/ Poll
    BY <1>5 DEF Publish, Poll, files, loop, history
<1>6. CASE Read
    BY <1>6 DEF Read, files, loop
<1>7. CASE \E m \in Marks : Tap(m)
    <2>1. UNCHANGED <<list, label, saved, loop, own>>
        BY <1>7 DEF Tap
    <2> QED
        BY <2>1 DEF loop
<1>8. CASE UNCHANGED vars
    BY <1>8 DEF vars, files, loop, history
<1> QED
    BY <1>2, <1>3, <1>4, <1>5, <1>6, <1>7, <1>8, PlacedLoop, PlacedCut, PlacedSave DEF Next, Bottomd

(* With a patient player, what was marked in a world stays with it: through*)
(* any number of worlds, switches, taps and sessions.                      *)
THEOREM PatientListsStay == ASSUME Patient PROVE Spec => []ListsStay
<1>1. Init => IInv
    <2>1. Init => Placed
        BY DEF Init, Placed, Whole, KeptBut, AtRest, Copying, Kept, NoList
    <2> QED
        BY <2>1, TypeInit DEF IInv, Saving, Init
<1>2. IInv /\ [Next]_vars => IInv'
    BY TypeNext, SavingNext, PlacedNext DEF IInv
<1>3. IInv => ListsStay
    BY WaypointAssumption DEF IInv, TypeOK, ListsStay, Placed, Whole, KeptBut, AtRest
<1> QED
    BY <1>1, <1>2, <1>3, PTL DEF Spec

(***************************************************************************)
(* LowerInput                                                              *)
(*                                                                         *)
(* After SELECT the game never keeps a finger that bottomd will not lift,  *)
(* for any spots, any bounds and any order of touches, flips and screens.  *)
(* ContactIsForwarded is inductive: `Flip` lifts the game's finger in the  *)
(* step that changes the panel, and `PollGame` puts one down only while the*)
(* lower panel is forwarded.                                               *)
(***************************************************************************)

Gestures ==
    \/ TabDown \/ TabMove \/ TabUp \/ DownIgnored \/ Stray
    \/ PageDown \/ PageMove \/ PageUp \/ HudDown \/ HudMove \/ HudUp

Hands == Player \/ Enumerate

(* The player's fingers and buttons, and Sway, change nothing of the flip  *)
(* but what Sway knows.                                                    *)
LEMMA HandsKeep == Hands => UNCHANGED <<below, byButton, contact>>
<1>1. ASSUME NEW p \in Panels, NEW k, NEW s, Report(p, k, s)
      PROVE  UNCHANGED <<below, byButton, contact>>
    BY <1>1 DEF Report, flip
<1>2. ASSUME NEW p \in Panels, Press(p) \/ Slide(p) \/ Lift(p)
      PROVE  UNCHANGED <<below, byButton, contact>>
    BY <1>1, <1>2 DEF Press, Slide, Lift
<1>3. PressSelect \/ Enumerate => UNCHANGED <<below, byButton, contact>>
    BY DEF PressSelect, Enumerate, flip
<1> QED
    BY <1>2, <1>3 DEF Hands, Player

(* A gesture of the interface never touches the game's finger; the button  *)
(* of the INPUT page is the only one that moves the game, and says so.     *)
LEMMA GesturesKeep == Gestures => /\ UNCHANGED contact
                                  /\ UNCHANGED <<below, byButton>> \/ byButton'
<1> SUFFICES ASSUME Gestures
             PROVE  /\ UNCHANGED contact
                    /\ UNCHANGED <<below, byButton>> \/ byButton'
    OBVIOUS
<1>1. CASE TabDown \/ TabMove \/ DownIgnored \/ Stray \/ PageDown \/ PageMove
    BY <1>1 DEF TabDown, TabMove, DownIgnored, Stray, PageDown, PageMove, Done, Rest, Unflipped
<1>2. CASE TabUp
    BY <1>2 DEF TabUp, Done, Unflipped
<1>3. CASE PageUp
    <2>1. UNCHANGED contact
        BY <1>3 DEF PageUp, Done
    <2>2. UNCHANGED <<below, byButton>> \/ byButton'
        BY <1>3 DEF PageUp, PageTap, Rest, Unflipped
    <2> QED
        BY <2>1, <2>2
<1>4. CASE HudDown \/ HudMove \/ HudUp
    BY <1>4 DEF HudDown, HudMove, HudUp, Done, Rest, Unflipped
<1> QED
    BY <1>1, <1>2, <1>3, <1>4 DEF Gestures

(* After SELECT the game never keeps a finger that bottomd will not lift.  *)
THEOREM NoFingerIsStranded == InputSpec => []ContactIsForwarded
<1>1. InputInit => ContactIsForwarded
    BY DEF InputInit, ContactIsForwarded
<1>2. ContactIsForwarded /\ [InputNext]_inputVars => ContactIsForwarded'
    <2> SUFFICES ASSUME ContactIsForwarded, [InputNext]_inputVars PROVE ContactIsForwarded'
        OBVIOUS
    <2>1. CASE Hands
        BY <2>1, HandsKeep DEF ContactIsForwarded
    <2>2. CASE Gestures
        BY <2>2, GesturesKeep DEF ContactIsForwarded
    <2>3. CASE Sample \/ Release \/ FrameEnd
        BY <2>3 DEF Sample, Release, FrameEnd, flip, ContactIsForwarded
    <2>4. CASE Flip \/ Exit
        BY <2>4 DEF Flip, Exit, ContactIsForwarded
    <2>5. CASE PollGame \/ GamePolled \/ PollInterface \/ InterfaceRead
        BY <2>5 DEF PollGame, GamePolled, PollInterface, InterfaceRead, flip, ContactIsForwarded
    <2>6. CASE UNCHANGED inputVars
        BY <2>6 DEF inputVars, flip, ContactIsForwarded
    <2> QED
        BY <2>1, <2>2, <2>3, <2>4, <2>5, <2>6 DEF InputNext, Frame, Gestures, Hands
<1> QED
    BY <1>1, <1>2, PTL DEF InputSpec

(***************************************************************************)
(* LowerInput, types.                                                      *)
(***************************************************************************)

Tabs == [page : Pages, saved : Pages, auto : BOOLEAN, container : BOOLEAN, follow : BOOLEAN]
Events == [type : {"DOWN", "MOTION"}, at : Spots] \cup [type : {"UP"}, at : {"none"}]
Touches == [active : BOOLEAN, tab : BOOLEAN, slider : BOOLEAN, moved : BOOLEAN,
            from : Spots \cup {"none"}, at : Spots \cup {"none"}]

PagesTyped ==
    /\ pc \in {"top", "release", "flip", "poll", "read", "events", "exit"}
    /\ tabs \in Tabs /\ opened \in Pages \cup {"none"}
PanelsTyped ==
    /\ finger \in [Panels -> BOOLEAN] /\ down \in [Panels -> BOOLEAN]
    /\ queue \in [Panels -> Seq(Reports)] /\ grabbed \in BOOLEAN /\ handed \in 0 .. MaxEvents
(* Only a gesture that began on a tab may choose the page.                 *)
GesturesTyped ==
    /\ evs \in Seq(Events) /\ Len(evs) \in 0 .. MaxEvents
    /\ touch \in Touches /\ (touch.tab => touch.active /\ touch.from \in Pages)
    /\ effect \in {"none", "tab", "tap", "zoom", "pan", "map"}
    /\ began \in [at : Spots \cup {"none"}, page : Pages \cup {"none"}]
    /\ driver \in Panels /\ cut \in BOOLEAN
FlipTyped ==
    /\ below \in BOOLEAN /\ forwarding \in BOOLEAN /\ select \in BOOLEAN
    /\ device \in {"absent", "new", "known"} /\ aim \in {"none"} \cup Panels
    /\ contact \in BOOLEAN /\ lost \in BOOLEAN /\ byButton \in BOOLEAN
BoundsTyped == presses \in 0 .. MaxPresses /\ flips \in 0 .. MaxFlips /\ screens \in 0 .. MaxScreens

InputTypeOK == PagesTyped /\ PanelsTyped /\ GesturesTyped /\ FlipTyped /\ BoundsTyped

LEMMA InputTypeInit == InputInit => InputTypeOK
<1> SUFFICES ASSUME InputInit PROVE InputTypeOK
    OBVIOUS
<1>1. PagesTyped /\ FlipTyped
    BY DEF InputInit, PagesTyped, FlipTyped, Tabs, Pages
<1>0. MaxEvents \in Nat /\ MaxPresses \in Nat /\ MaxFlips \in Nat /\ MaxScreens \in Nat
    BY InputAssumption DEF InputAssumption
<1>2. PanelsTyped
    <2>1. queue \in [Panels -> Seq(Reports)]
        <3>1. <<>> \in Seq(Reports)
            OBVIOUS
        <3> QED
            BY <3>1 DEF InputInit
    <2>2. finger \in [Panels -> BOOLEAN] /\ down \in [Panels -> BOOLEAN]
        BY DEF InputInit
    <2>3. grabbed \in BOOLEAN
        BY DEF InputInit
    <2>4. handed \in 0 .. MaxEvents
        <3>1. handed = 0
            BY DEF InputInit
        <3> QED
            BY <1>0, <3>1
    <2> QED
        BY <2>1, <2>2, <2>3, <2>4 DEF PanelsTyped
<1>3. GesturesTyped
    <2>1. evs \in Seq(Events) /\ Len(evs) \in 0 .. MaxEvents
        <3>1. <<>> \in Seq(Events) /\ Len(<<>>) = 0
            OBVIOUS
        <3> QED
            BY <1>0, <3>1 DEF InputInit
    <2>2. touch \in Touches /\ ~touch.tab
        BY DEF InputInit, Idle, Touches
    <2>3. began \in [at : Spots \cup {"none"}, page : Pages \cup {"none"}]
        BY DEF InputInit, Nowhere
    <2> QED
        BY <2>1, <2>2, <2>3 DEF InputInit, GesturesTyped, Panels
<1>4. BoundsTyped
    BY <1>0 DEF InputInit, BoundsTyped
<1> QED
    BY <1>1, <1>2, <1>3, <1>4 DEF InputTypeOK

LEMMA TypeReport ==
    ASSUME InputTypeOK, NEW p \in Panels, NEW k, NEW s, Report(p, k, s), [kind |-> k, at |-> s] \in Reports
    PROVE  queue' \in [Panels -> Seq(Reports)]
<1>1. queue[p] \in Seq(Reports)
    BY DEF InputTypeOK, PanelsTyped
<1>2. Append(queue[p], [kind |-> k, at |-> s]) \in Seq(Reports)
    BY <1>1
<1> QED
    BY <1>2 DEF Report, InputTypeOK, PanelsTyped

LEMMA TypeHands == ASSUME InputTypeOK, Hands PROVE InputTypeOK'
<1>1. ASSUME NEW p \in Panels, NEW k, NEW s, Report(p, k, s), [kind |-> k, at |-> s] \in Reports,
             finger' \in [Panels -> BOOLEAN], presses' \in 0 .. MaxPresses
      PROVE  InputTypeOK'
    <2>1. PanelsTyped'
        BY <1>1, TypeReport DEF Report, InputTypeOK, PanelsTyped
    <2>2. PagesTyped' /\ GesturesTyped' /\ FlipTyped' /\ BoundsTyped'
        BY <1>1 DEF Report, ui, flip, InputTypeOK, PagesTyped, GesturesTyped, FlipTyped, BoundsTyped
    <2> QED
        BY <2>1, <2>2 DEF InputTypeOK
<1>2. CASE \E p \in Panels : Press(p) \/ Slide(p) \/ Lift(p)
    <2>1. PICK p \in Panels : Press(p) \/ Slide(p) \/ Lift(p)
        BY <1>2
    <2>2. finger' \in [Panels -> BOOLEAN] /\ presses' \in 0 .. MaxPresses
        <3>1. finger \in [Panels -> BOOLEAN] /\ presses \in 0 .. MaxPresses /\ MaxPresses \in Nat
            BY InputAssumption DEF InputAssumption, InputTypeOK, PanelsTyped, BoundsTyped
        <3>2. finger' \in [Panels -> BOOLEAN]
            BY <2>1, <3>1 DEF Press, Slide, Lift
        <3>3. presses' = presses \/ (presses < MaxPresses /\ presses' = presses + 1)
            BY <2>1 DEF Press, Slide, Lift
        <3> QED
            BY <3>1, <3>2, <3>3
    <2>3. \E k, s : Report(p, k, s) /\ [kind |-> k, at |-> s] \in Reports
        <3>1. CASE Press(p)
            <4>1. PICK s \in Spots : Report(p, "down", s)
                BY <3>1 DEF Press
            <4>2. [kind |-> "down", at |-> s] \in Reports
                BY DEF Reports
            <4> QED
                BY <4>1, <4>2
        <3>2. CASE Slide(p)
            <4>1. PICK s \in Spots : Report(p, "move", s)
                BY <3>2 DEF Slide
            <4>2. [kind |-> "move", at |-> s] \in Reports
                BY DEF Reports
            <4> QED
                BY <4>1, <4>2
        <3>3. CASE Lift(p)
            <4>1. Report(p, "up", "none")
                BY <3>3 DEF Lift
            <4>2. [kind |-> "up", at |-> "none"] \in Reports
                BY DEF Reports
            <4> QED
                BY <4>1, <4>2
        <3> QED
            BY <2>1, <3>1, <3>2, <3>3
    <2> QED
        BY <1>1, <2>2, <2>3
<1>3. CASE PressSelect \/ Enumerate
    <2>1. FlipTyped'
        BY <1>3 DEF PressSelect, Enumerate, flip, InputTypeOK, FlipTyped
    <2>3. BoundsTyped'
        <3>1. flips' = flips \/ (flips < MaxFlips /\ flips' = flips + 1)
            BY <1>3 DEF PressSelect, Enumerate, inputBounds
        <3>2. UNCHANGED <<presses, screens>>
            BY <1>3 DEF PressSelect, Enumerate, inputBounds
        <3> QED
            BY <3>1, <3>2, InputAssumption DEF InputAssumption, InputTypeOK, BoundsTyped
    <2>2. PagesTyped' /\ PanelsTyped' /\ GesturesTyped'
        BY <1>3 DEF PressSelect, Enumerate, ui, panel, InputTypeOK, PagesTyped, PanelsTyped, GesturesTyped
    <2> QED
        BY <2>1, <2>2, <2>3 DEF InputTypeOK
<1> QED
    BY <1>2, <1>3 DEF Hands, Player

LEMMA TypeContainer ==
    ASSUME NEW t \in Tabs, NEW open \in BOOLEAN
    PROVE  pages_container(t, open) \in Tabs
BY DEF Tabs, Pages, pages_container

LEMMA TypeMapTo ==
    ASSUME InputTypeOK, NEW output \in Panels, MapTo(output)
    PROVE  forwarding' \in BOOLEAN /\ aim' \in {"none"} \cup Panels
BY DEF InputTypeOK, FlipTyped, MapTo, Known

LEMMA TypeHead ==
    ASSUME InputTypeOK, Sample \/ Release \/ Flip \/ FrameEnd \/ Exit
    PROVE  InputTypeOK'
<1> USE DEF InputTypeOK
<1>1. CASE Sample
    <2>1. PICK open \in BOOLEAN, moving \in BOOLEAN :
            /\ pc' \in {"release", "flip", "poll"}
            /\ (below /\ ~forwarding /\ MapTo("bottom")) \/ UNCHANGED <<forwarding, aim>>
            /\ screens' \in {screens, screens + 1} /\ screens' <= MaxScreens
            /\ tabs' = pages_container(tabs, open)
            /\ opened' \in {tabs.page, opened, "none"}
            /\ cut' = (cut \/ (touch.active /\ tabs'.page # tabs.page)) /\ effect' = "none"
            /\ UNCHANGED <<evs, touch, began, driver, panel, below, device, contact, byButton, select, lost,
                           presses, flips>>
        BY <1>1 DEF Sample, AfterRelease
    <2>2. PagesTyped'
        <3>1. tabs' \in Tabs /\ tabs.page \in Pages
            BY <2>1, TypeContainer DEF PagesTyped, Tabs
        <3> QED
            BY <2>1, <3>1 DEF PagesTyped
    <2>3. PanelsTyped' /\ GesturesTyped'
        BY <2>1 DEF panel, PanelsTyped, GesturesTyped, Touches
    <2>4. FlipTyped'
        <3>1. forwarding' \in BOOLEAN /\ aim' \in {"none"} \cup Panels
            BY <2>1, TypeMapTo DEF FlipTyped, Panels
        <3> QED
            BY <2>1, <3>1 DEF FlipTyped
    <2>5. BoundsTyped'
        BY <2>1, InputAssumption DEF InputAssumption, BoundsTyped
    <2> QED
        BY <2>2, <2>3, <2>4, <2>5
<1>2. CASE Release
    <2>1. pc' \in {"flip", "poll"} /\ UNCHANGED opened
        BY <1>2 DEF Release, AfterRelease
    <2>2. tabs' \in Tabs
        BY <1>2 DEF Release, PagesTyped, Tabs, Pages
    <2>3. cut' \in BOOLEAN /\ UNCHANGED <<evs, touch, effect, began, driver>>
        BY <1>2 DEF Release, GesturesTyped, Touches
    <2> QED
        BY <1>2, <2>1, <2>2, <2>3
           DEF Release, PagesTyped, PanelsTyped, GesturesTyped, FlipTyped, BoundsTyped, panel, flip, inputBounds
<1>3. CASE Flip
    <2>1. PagesTyped' /\ GesturesTyped' /\ BoundsTyped'
        BY <1>3 DEF Flip, PagesTyped, GesturesTyped, Touches, BoundsTyped, inputBounds
    <2>2. below' \in BOOLEAN /\ forwarding' \in BOOLEAN /\ aim' \in {"none"} \cup Panels
        BY <1>3, TypeMapTo DEF Flip, screenflip_toggle, FlipTyped, Panels
    <2>3. FlipTyped'
        BY <1>3, <2>2 DEF Flip, FlipTyped
    <2>4. queue' \in [Panels -> Seq(Reports)]
        <3>1. <<>> \in Seq(Reports)
            OBVIOUS
        <3> QED
            BY <1>3, <3>1 DEF Flip, PanelsTyped
    <2>5. down' \in [Panels -> BOOLEAN]
        BY <1>3 DEF Flip, PanelsTyped
    <2>6. grabbed' \in BOOLEAN /\ UNCHANGED <<finger, handed>>
        BY <1>3, <2>2 DEF Flip
    <2> QED
        BY <2>1, <2>3, <2>4, <2>5, <2>6 DEF PanelsTyped
<1>4. CASE FrameEnd
    BY <1>4 DEF FrameEnd, PagesTyped, PanelsTyped, GesturesTyped, FlipTyped, BoundsTyped, panel, flip, inputBounds
<1>5. CASE Exit
    <2>1. PagesTyped' /\ BoundsTyped'
        BY <1>5 DEF Exit, PagesTyped, BoundsTyped, inputBounds
    <2>2. FlipTyped'
        BY <1>5 DEF Exit, FlipTyped
    <2>3. GesturesTyped'
        <3>1. Idle \in Touches /\ ~Idle.tab
            BY DEF Idle, Touches
        <3>2. Nowhere \in [at : Spots \cup {"none"}, page : Pages \cup {"none"}]
            BY DEF Nowhere
        <3>3. touch' = Idle /\ began' = Nowhere /\ cut' = FALSE /\ UNCHANGED <<evs, effect, driver>>
            BY <1>5 DEF Exit
        <3> QED
            BY <3>1, <3>2, <3>3 DEF GesturesTyped
    <2>4. queue' \in [Panels -> Seq(Reports)] /\ down' \in [Panels -> BOOLEAN]
        <3>1. <<>> \in Seq(Reports)
            OBVIOUS
        <3> QED
            BY <1>5, <3>1 DEF Exit
    <2> QED
        BY <1>5, <2>1, <2>2, <2>3, <2>4 DEF Exit, PanelsTyped
<1> QED
    BY <1>1, <1>2, <1>3, <1>4, <1>5

(* What is left of a panel's reports after one, and what bottomd made of it.*)
LEMMA NextReportIs ==
    ASSUME InputTypeOK, NEW p \in Panels, NextReport(p)
    PROVE  /\ Head(queue[p]) \in Reports
           /\ queue' \in [Panels -> Seq(Reports)] /\ queue'[p] = Tail(queue[p])
           /\ \A q \in Panels \ {p} : queue'[q] = queue[q]
<1>1. queue[p] \in Seq(Reports) /\ queue[p] # <<>>
    BY DEF NextReport, InputTypeOK, PanelsTyped
<1>2. Head(queue[p]) \in Reports /\ Tail(queue[p]) \in Seq(Reports)
    BY <1>1
<1>3. queue \in [Panels -> Seq(Reports)] /\ queue' = [queue EXCEPT ![p] = Tail(@)]
    BY DEF NextReport, InputTypeOK, PanelsTyped
<1> QED
    BY <1>2, <1>3

LEMMA TypeIs ==
    ASSUME InputTypeOK, NEW p \in Panels, Head(queue[p]) \in Reports
    PROVE  /\ Type(p) \in {"DOWN", "MOTION", "UP", "none"}
           /\ Type(p) # "none" => [type |-> Type(p), at |-> Head(queue[p]).at] \in Events
           /\ Type(p) = "DOWN" <=> Head(queue[p]).kind = "down" /\ ~down[p]
           /\ Type(p) = "UP" <=> Head(queue[p]).kind = "up" /\ down[p]
           /\ Type(p) = "none" => ~down[p]
<1>1. down[p] \in BOOLEAN
    BY DEF InputTypeOK, PanelsTyped
<1>2. CASE Head(queue[p]).kind = "up"
    <2>1. Head(queue[p]).at = "none"
        BY <1>2 DEF Reports
    <2> QED
        BY <1>1, <1>2, <2>1 DEF Type, Seen, Events
<1>3. CASE Head(queue[p]).kind \in {"down", "move"}
    <2>1. Head(queue[p]).at \in Spots
        BY <1>3 DEF Reports
    <2> QED
        BY <1>1, <1>3, <2>1 DEF Type, Seen, Events
<1> QED
    BY <1>2, <1>3 DEF Reports

LEMMA TypePoll ==
    ASSUME InputTypeOK, PollGame \/ GamePolled \/ PollInterface \/ InterfaceRead
    PROVE  InputTypeOK'
<1> USE DEF InputTypeOK
<1>1. CASE PollGame
    <2>1. NextReport("bottom") /\ "bottom" \in Panels
        BY <1>1 DEF PollGame, Panels
    <2>2. queue' \in [Panels -> Seq(Reports)]
        BY <2>1, NextReportIs
    <2>3. UNCHANGED <<finger, grabbed>>
        BY <1>1 DEF PollGame
    <2>4. down' \in [Panels -> BOOLEAN]
        <3>1. UNCHANGED down \/ Taken("bottom")
            BY <1>1 DEF PollGame, Ignored
        <3> QED
            BY <3>1 DEF Taken, PanelsTyped
    <2>5. handed' \in 0 .. MaxEvents
        BY <1>1, InputAssumption DEF PollGame, PanelsTyped, InputAssumption
    <2>6. FlipTyped'
        BY <1>1 DEF PollGame, Forward, FlipTyped
    <2>7. PagesTyped' /\ GesturesTyped' /\ BoundsTyped'
        BY <1>1 DEF PollGame, ui, inputBounds, PagesTyped, GesturesTyped, BoundsTyped
    <2> QED
        BY <2>2, <2>3, <2>4, <2>5, <2>6, <2>7 DEF PanelsTyped
<1>2. CASE GamePolled
    <2>1. GesturesTyped'
        BY <1>2 DEF GamePolled, GesturesTyped, Touches, Source, Panels
    <2>2. handed' \in 0 .. MaxEvents
        BY <1>2, InputAssumption DEF GamePolled, InputAssumption
    <2> QED
        BY <1>2, <2>1, <2>2
           DEF GamePolled, PagesTyped, PanelsTyped, FlipTyped, BoundsTyped, flip, inputBounds
<1>3. CASE PollInterface
    <2>1. NextReport(Source) /\ Source \in Panels
        BY <1>3 DEF PollInterface, Panels, Source
    <2>2. queue' \in [Panels -> Seq(Reports)] /\ Head(queue[Source]) \in Reports
        BY <2>1, NextReportIs
    <2>3. UNCHANGED <<finger, grabbed, handed>>
        BY <1>3 DEF PollInterface
    <2>4. down' \in [Panels -> BOOLEAN]
        <3>1. UNCHANGED down \/ Taken(Source)
            BY <1>3 DEF PollInterface, Ignored
        <3> QED
            BY <3>1 DEF Taken, PanelsTyped
    <2>5. evs' \in Seq(Events) /\ Len(evs') \in 0 .. MaxEvents
        <3>1. CASE UNCHANGED evs
            BY <3>1 DEF GesturesTyped
        <3>2. CASE ~UNCHANGED evs
            <4> DEFINE e == [type |-> Type(Source), at |-> Head(queue[Source]).at]
            <4>1. e \in Events
                BY <1>3, <2>1, <2>2, <3>2, TypeIs DEF PollInterface, Taken
            <4>2. evs' = Append(evs, e) /\ Len(evs) < MaxEvents
                BY <1>3, <3>2 DEF PollInterface
            <4>3. evs \in Seq(Events)
                BY DEF GesturesTyped
            <4> HIDE DEF e
            <4>4. evs' \in Seq(Events) /\ Len(evs') = Len(evs) + 1
                BY <4>1, <4>2, <4>3
            <4> QED
                BY <4>2, <4>3, <4>4, InputAssumption DEF InputAssumption
        <3> QED
            BY <3>1, <3>2
    <2>6. cut' \in BOOLEAN /\ UNCHANGED <<touch, effect, began, driver>>
        BY <1>3 DEF PollInterface, GesturesTyped
    <2>7. PagesTyped' /\ FlipTyped' /\ BoundsTyped'
        BY <1>3 DEF PollInterface, flip, inputBounds, PagesTyped, FlipTyped, BoundsTyped
    <2> QED
        BY <2>2, <2>3, <2>4, <2>5, <2>6, <2>7 DEF PanelsTyped, GesturesTyped
<1>4. CASE InterfaceRead
    BY <1>4 DEF InterfaceRead, ui, panel, flip, inputBounds, PagesTyped, PanelsTyped, GesturesTyped, FlipTyped,
       BoundsTyped
<1> QED
    BY <1>1, <1>2, <1>3, <1>4

(* The events left after one of a type, and where it was.                  *)
LEMMA EventIs ==
    ASSUME InputTypeOK, NEW t, Event(t)
    PROVE  /\ pc = "events" /\ evs # <<>> /\ Head(evs).type = t
           /\ t \in {"DOWN", "MOTION"} => Spot \in Spots
           /\ Tail(evs) \in Seq(Events) /\ Len(Tail(evs)) = Len(evs) - 1
           /\ \A i \in 1 .. Len(evs) - 1 : Tail(evs)[i] = evs[i + 1]
<1>1. evs \in Seq(Events) /\ evs # <<>> /\ Head(evs).type = t /\ pc = "events"
    BY DEF Event, InputTypeOK, GesturesTyped
<1>2. Head(evs) \in Events
    BY <1>1
<1>3. t \in {"DOWN", "MOTION"} => Spot \in Spots
    BY <1>1, <1>2 DEF Events, Spot
<1>4. Tail(evs) \in Seq(Events) /\ Len(Tail(evs)) = Len(evs) - 1
      /\ \A i \in 1 .. Len(evs) - 1 : Tail(evs)[i] = evs[i + 1]
    BY <1>1
<1> QED
    BY <1>1, <1>3, <1>4

(* What every gesture leaves alone, and what it may make of the page, the  *)
(* gesture and the flip.                                                   *)
TypedAfter ==
    /\ tabs' \in Tabs /\ opened' \in Pages \cup {"none"}
    /\ touch' \in Touches /\ (touch'.tab => touch'.active /\ touch'.from \in Pages)
    /\ began' \in [at : Spots \cup {"none"}, page : Pages \cup {"none"}] /\ cut' \in BOOLEAN
    /\ below' \in BOOLEAN /\ forwarding' \in BOOLEAN /\ byButton' \in BOOLEAN /\ aim' \in {"none"} \cup Panels

LEMMA TypeDone ==
    ASSUME InputTypeOK, TypedAfter, NEW t, Event(t),
           NEW e \in {"none", "tab", "tap", "zoom", "pan", "map"}, Done(e)
    PROVE  InputTypeOK'
<1>1. evs' \in Seq(Events) /\ Len(evs') \in 0 .. MaxEvents
    <2>1. Tail(evs) \in Seq(Events) /\ Len(Tail(evs)) = Len(evs) - 1 /\ evs' = Tail(evs)
        BY EventIs DEF Done
    <2>2. Len(evs) \in 0 .. MaxEvents /\ Len(Tail(evs)) \in Nat
        BY <2>1 DEF InputTypeOK, GesturesTyped
    <2> QED
        BY <2>1, <2>2, InputAssumption DEF InputAssumption
<1>2. effect' = e /\ UNCHANGED <<pc, driver, panel, select, lost, device, contact, inputBounds>>
    BY DEF Done
<1> QED
    BY <1>1, <1>2 DEF TypedAfter, InputTypeOK, PagesTyped, PanelsTyped, GesturesTyped, FlipTyped, BoundsTyped,
       panel, inputBounds

LEMMA TypeStart ==
    ASSUME InputTypeOK, ~touch.active, Event("DOWN")
    PROVE  /\ StartGesture \in Touches /\ ~StartGesture.tab /\ StartGesture.active /\ StartGesture.from = Spot
<1>1. Spot \in Spots
    BY EventIs
<1>2. touch \in Touches /\ ~touch.tab
    BY DEF InputTypeOK, GesturesTyped
<1> QED
    BY <1>1, <1>2 DEF StartGesture, Touches

LEMMA TypeBegan ==
    ASSUME InputTypeOK, Event("DOWN"), Began
    PROVE  began' \in [at : Spots \cup {"none"}, page : Pages \cup {"none"}]
<1>1. Spot \in Spots
    BY EventIs
<1>2. tabs.page \in Pages
    BY DEF InputTypeOK, PagesTyped, Tabs
<1> QED
    BY <1>1, <1>2 DEF Began

LEMMA TypeEnded ==
    ASSUME InputTypeOK, NEW slider \in BOOLEAN, Ended(slider)
    PROVE  /\ touch' \in Touches /\ ~touch'.tab /\ cut' \in BOOLEAN
           /\ began' \in [at : Spots \cup {"none"}, page : Pages \cup {"none"}]
BY DEF Ended, Idle, Nowhere, Touches

LEMMA TypeRest ==
    ASSUME InputTypeOK
    PROVE  /\ Unflipped => /\ below' \in BOOLEAN /\ forwarding' \in BOOLEAN /\ byButton' \in BOOLEAN
                           /\ aim' \in {"none"} \cup Panels
           /\ UNCHANGED <<tabs, opened>> => tabs' \in Tabs /\ opened' \in Pages \cup {"none"}
BY DEF InputTypeOK, PagesTyped, FlipTyped, Unflipped

LEMMA TypePage ==
    ASSUME InputTypeOK, NEW p \in Pages, pages_set(p)
    PROVE  tabs' \in Tabs /\ opened' \in Pages \cup {"none"}
BY DEF InputTypeOK, PagesTyped, pages_set, Tabs

LEMMA TypeTap ==
    ASSUME InputTypeOK, NEW s, PageTap(s)
    PROVE  /\ below' \in BOOLEAN /\ forwarding' \in BOOLEAN /\ byButton' \in BOOLEAN
           /\ aim' \in {"none"} \cup Panels
           /\ tabs' \in Tabs /\ opened' \in Pages \cup {"none"}
<1>1. CASE screenflip_toggle /\ byButton' = TRUE /\ UNCHANGED <<tabs, opened>>
    <2>1. below' \in BOOLEAN /\ MapTo(IF below' THEN "bottom" ELSE "top")
        BY <1>1 DEF screenflip_toggle
    <2> QED
        BY <1>1, <2>1, TypeMapTo, TypeRest DEF Panels
<1>2. CASE pages_set("HUD") /\ Unflipped
    BY <1>2, TypePage, TypeRest DEF Pages
<1>3. CASE /\ Unflipped /\ opened' = "none"
           /\ tabs' = [tabs EXCEPT !.follow = ~@, !.auto = @ /\ ~tabs.follow]
    <2>1. tabs' \in Tabs
        BY <1>3 DEF InputTypeOK, PagesTyped, Tabs
    <2> QED
        BY <1>3, <2>1, TypeRest
<1>4. CASE Rest
    BY <1>4, TypeRest DEF Rest
<1> QED
    BY <1>1, <1>2, <1>3, <1>4 DEF PageTap

LEMMA TypeGestures == ASSUME InputTypeOK, Gestures PROVE InputTypeOK'
<1> DEFINE Effects == {"none", "tab", "tap", "zoom", "pan", "map"}
<1>0. touch \in Touches /\ (touch.tab => touch.active /\ touch.from \in Pages) /\ cut \in BOOLEAN
      /\ began \in [at : Spots \cup {"none"}, page : Pages \cup {"none"}]
    BY DEF InputTypeOK, GesturesTyped
<1>1. CASE TabDown
    <2>1. Event("DOWN") /\ ~touch.active /\ Spot \in Pages /\ Done("none") /\ Began /\ Rest /\ UNCHANGED cut
        BY <1>1 DEF TabDown
    <2>2. touch' \in Touches /\ touch'.active /\ touch'.from \in Pages
        BY <1>1, <2>1, TypeStart DEF TabDown, Touches
    <2>3. TypedAfter
        BY <1>0, <2>1, <2>2, TypeBegan, TypeRest DEF TypedAfter, Rest
    <2> QED
        BY <2>1, <2>3, TypeDone
<1>2. CASE TabMove
    <2>1. Event("MOTION") /\ Done("none") /\ Rest /\ UNCHANGED <<began, cut>>
          /\ touch' = [touch EXCEPT !.at = Spot] /\ Spot \in Spots
        BY <1>2, EventIs DEF TabMove
    <2>2. touch' \in Touches /\ (touch'.tab => touch'.active /\ touch'.from \in Pages)
        BY <1>0, <2>1 DEF Touches
    <2>3. TypedAfter
        BY <1>0, <2>1, <2>2, TypeRest DEF TypedAfter, Rest
    <2> QED
        BY <2>1, <2>3, TypeDone
<1>3. CASE TabUp
    <2>1. Event("UP") /\ Ended(touch.slider) /\ Unflipped /\ touch.from \in Pages /\ touch.slider \in BOOLEAN
        BY <1>0, <1>3 DEF TabUp, Touches
    <2>2. pages_set(touch.from) \/ UNCHANGED <<tabs, opened>>
        BY <1>3 DEF TabUp
    <2>3. TypedAfter
        BY <2>1, <2>2, TypeEnded, TypeRest, TypePage DEF TypedAfter
    <2>4. Done("tab") \/ Done("none")
        BY <1>3 DEF TabUp
    <2> QED
        BY <2>1, <2>3, <2>4, TypeDone
<1>4. CASE DownIgnored
    <2>1. Event("DOWN") /\ Done("none") /\ Rest /\ UNCHANGED <<touch, cut>> /\ Began
        BY <1>4 DEF DownIgnored
    <2>2. TypedAfter
        BY <1>0, <2>1, TypeBegan, TypeRest DEF TypedAfter, Rest
    <2> QED
        BY <2>1, <2>2, TypeDone
<1>5. CASE PageDown \/ HudDown
    <2>1. Event("DOWN") /\ ~touch.active /\ Rest /\ UNCHANGED cut /\ Began
        BY <1>5 DEF PageDown, HudDown
    <2>2. touch' \in Touches /\ ~touch'.tab
        BY <1>5, <2>1, TypeStart DEF PageDown, HudDown, Touches
    <2>3. TypedAfter
        BY <1>0, <2>1, <2>2, TypeBegan, TypeRest DEF TypedAfter, Rest
    <2>4. Done("none") \/ Done("zoom")
        BY <1>5 DEF PageDown, HudDown
    <2> QED
        BY <2>1, <2>3, <2>4, TypeDone
<1>6. CASE PageMove \/ HudMove
    <2>1. Event("MOTION") /\ touch.active /\ ~touch.tab /\ Rest /\ UNCHANGED <<began, cut>> /\ Spot \in Spots
        BY <1>6, EventIs DEF PageMove, HudMove
    <2>2. touch' = [touch EXCEPT !.at = Spot, !.moved = @ \/ Spot # touch.from]
          \/ touch' = [touch EXCEPT !.at = Spot]
        BY <1>6 DEF PageMove, HudMove
    <2>3. touch' \in Touches /\ ~touch'.tab
        BY <1>0, <2>1, <2>2 DEF Touches
    <2>4. TypedAfter
        BY <1>0, <2>1, <2>3, TypeRest DEF TypedAfter, Rest
    <2>5. Done("none") \/ Done("zoom") \/ Done("pan")
        BY <1>6 DEF PageMove, HudMove
    <2> QED
        BY <2>1, <2>4, <2>5, TypeDone
<1>7. CASE PageUp
    <2>1. Event("UP") /\ Ended(touch.slider) /\ touch.slider \in BOOLEAN /\ (PageTap(touch.from) \/ Rest)
          /\ (Done("tap") \/ Done("none"))
        BY <1>0, <1>7 DEF PageUp, Touches
    <2>2. TypedAfter
        BY <2>1, TypeEnded, TypeTap, TypeRest DEF TypedAfter, Rest
    <2> QED
        BY <2>1, <2>2, TypeDone
<1>8. CASE HudUp
    <2>1. Event("UP") /\ Ended(FALSE) /\ Rest /\ (Done("map") \/ Done("none"))
        BY <1>8 DEF HudUp
    <2>2. TypedAfter
        BY <2>1, TypeEnded, TypeRest DEF TypedAfter, Rest
    <2> QED
        BY <2>1, <2>2, TypeDone
<1>9. CASE Stray
    <2>1. (Event("MOTION") \/ Event("UP")) /\ Done("none") /\ Rest /\ UNCHANGED <<touch, began, cut>>
        BY <1>9 DEF Stray
    <2>2. TypedAfter
        BY <1>0, <2>1, TypeRest DEF TypedAfter, Rest
    <2> QED
        BY <2>1, <2>2, TypeDone
<1> QED
    BY <1>1, <1>2, <1>3, <1>4, <1>5, <1>6, <1>7, <1>8, <1>9 DEF Gestures

LEMMA InputTypeNext == InputTypeOK /\ [InputNext]_inputVars => InputTypeOK'
<1>1. InputTypeOK /\ UNCHANGED inputVars => InputTypeOK'
    BY DEF InputTypeOK, PagesTyped, PanelsTyped, GesturesTyped, FlipTyped, BoundsTyped, inputVars, ui, panel, flip,
       inputBounds
<1> QED
    BY <1>1, TypeHands, TypeHead, TypePoll, TypeGestures DEF InputNext, Frame, Gestures, Hands

(* Every variable of the model keeps its type, for any spots and bounds.   *)
THEOREM InputTypeCorrect == InputSpec => []InputTypeOK
    BY InputTypeInit, InputTypeNext, PTL DEF InputSpec

(***************************************************************************)
(* The page a screen of the game covered.  While `opened` remembers it,    *)
(* the screen is open and the ITEMS page is there on the game's behalf,    *)
(* with the covered page saved; every step that takes the page from the    *)
(* game, a tap on a tab, the button of INPUT or the setting, forgets it.   *)
(***************************************************************************)

Covered ==
    /\ opened # "none" => /\ tabs.container /\ tabs.auto
                          /\ tabs.page = "ITEMS" /\ tabs.saved = opened
    /\ pc = "release" => opened = "none"

LEMMA CoveredGestures == ASSUME Covered, Gestures PROVE Covered'
<1>1. pc' = pc
    BY DEF Gestures, TabDown, TabMove, TabUp, DownIgnored, Stray, PageDown, PageMove, PageUp, HudDown, HudMove,
       HudUp, Done
<1>2. opened' = "none" \/ UNCHANGED <<tabs, opened>>
    <2>1. CASE TabUp
        BY <2>1 DEF TabUp, pages_set
    <2>2. CASE PageUp
        BY <2>2 DEF PageUp, PageTap, pages_set, Rest
    <2> QED
        BY <2>1, <2>2 DEF Gestures, TabDown, TabMove, DownIgnored, Stray, PageDown, PageMove, HudDown, HudMove,
           HudUp, Rest
<1> QED
    BY <1>1, <1>2 DEF Covered

LEMMA CoveredSample == ASSUME InputTypeOK, Covered, Sample PROVE Covered'
<1>1. PICK open \in BOOLEAN :
        /\ pc' = "release" => ~open
        /\ tabs' = pages_container(tabs, open)
        /\ opened' = IF open /\ ~tabs.container THEN IF tabs.follow THEN tabs.page ELSE "none"
                     ELSE IF open THEN opened ELSE "none"
    BY DEF Sample, AfterRelease
<1>2. CASE ~open
    BY <1>1, <1>2 DEF Covered
<1>3. CASE open /\ ~tabs.container /\ tabs.follow
    <2>1. tabs' = [tabs EXCEPT !.saved = tabs.page, !.auto = TRUE, !.page = "ITEMS", !.container = TRUE]
        BY <1>1, <1>3 DEF pages_container
    <2>2. tabs \in Tabs
        BY DEF InputTypeOK, PagesTyped
    <2>3. tabs'.container /\ tabs'.auto /\ tabs'.page = "ITEMS" /\ tabs'.saved = tabs.page
        BY <2>1, <2>2 DEF Tabs
    <2> QED
        BY <1>1, <1>3, <2>3 DEF Covered
<1>4. CASE open /\ ~tabs.container /\ ~tabs.follow
    BY <1>1, <1>4 DEF Covered
<1>5. CASE open /\ tabs.container
    <2>1. tabs' = [tabs EXCEPT !.container = TRUE]
        BY <1>1, <1>5 DEF pages_container
    <2>2. tabs \in Tabs
        BY DEF InputTypeOK, PagesTyped
    <2>3. tabs'.container /\ tabs'.auto = tabs.auto /\ tabs'.page = tabs.page /\ tabs'.saved = tabs.saved
        BY <2>1, <2>2 DEF Tabs
    <2> QED
        BY <1>1, <1>5, <2>3 DEF Covered
<1> QED
    BY <1>2, <1>3, <1>4, <1>5

LEMMA CoveredNext == ASSUME InputTypeOK, Covered, [InputNext]_inputVars PROVE Covered'
<1>1. CASE Hands
    <2>1. ASSUME NEW p \in Panels, NEW k, NEW s, Report(p, k, s) PROVE UNCHANGED <<tabs, opened, pc>>
        BY <2>1 DEF Report, ui
    <2>2. UNCHANGED <<tabs, opened, pc>>
        BY <1>1, <2>1 DEF Hands, Player, Press, Slide, Lift, PressSelect, Enumerate, ui
    <2> QED
        BY <2>2 DEF Covered
<1>2. CASE Release
    <2>1. opened = "none" /\ opened' = "none"
        BY <1>2 DEF Release, Covered
    <2> QED
        BY <2>1 DEF Covered
<1>3. CASE Flip \/ FrameEnd \/ Exit \/ PollGame \/ GamePolled \/ PollInterface \/ InterfaceRead
    <2>1. UNCHANGED <<tabs, opened>> /\ (pc' # "release" \/ UNCHANGED pc)
        BY <1>3 DEF Flip, FrameEnd, Exit, PollGame, GamePolled, PollInterface, InterfaceRead, ui
    <2> QED
        BY <2>1 DEF Covered
<1>4. CASE UNCHANGED inputVars
    BY <1>4 DEF inputVars, ui, Covered
<1> QED
    BY <1>1, <1>2, <1>3, <1>4, CoveredGestures, CoveredSample DEF InputNext, Frame, Gestures, Hands

(* When a screen of the game closes, the page it had covered comes back,   *)
(* if nobody chose another since: for any touches, flips and screens.      *)
THEOREM ClosingGivesThePageBack == InputSpec => ClosingRestores
<1>1. InputInit => Covered
    BY DEF InputInit, Covered
<1>2. ASSUME InputTypeOK, Covered, Sample, tabs.container, ~tabs'.container, opened # "none"
      PROVE  tabs'.page = opened
    <2>1. PICK open \in BOOLEAN : tabs' = pages_container(tabs, open)
        BY <1>2 DEF Sample
    <2>2. tabs \in Tabs
        BY <1>2 DEF InputTypeOK, PagesTyped
    <2>3. ~open
        BY <1>2, <2>1, <2>2 DEF pages_container, Tabs
    <2> QED
        BY <1>2, <2>1, <2>2, <2>3 DEF pages_container, Tabs, Covered
<1>3. InputTypeOK /\ Covered =>
        [Sample /\ tabs.container /\ ~tabs'.container /\ opened # "none" => tabs'.page = opened]_inputVars
    BY <1>2
<1> QED
    BY <1>1, <1>3, InputTypeInit, InputTypeNext, CoveredNext, PTL DEF InputSpec, ClosingRestores

(***************************************************************************)
(* The finger on the game's picture.  The last report of the lower panel   *)
(* says whether a finger is on it, and while SELECT's flip stands, the game*)
(* holds one only if bottomd last saw one go down; the frame drains the    *)
(* panel before the interface's events, so only an overflow can hide the   *)
(* lift.                                                                   *)
(***************************************************************************)

Held == contact /\ ~byButton
Drained == queue["bottom"] = <<>>
Tells(q, on) == q # <<>> => (q[Len(q)].kind # "up" <=> on)

Followed ==
    /\ Tells(queue["bottom"], finger["bottom"])
    /\ Held => below /\ down["bottom"]
    /\ Held /\ Drained => finger["bottom"] \/ lost
    /\ pc = "read" /\ below => Drained
    /\ pc = "events" /\ below /\ ~byButton => Drained

(* A report tells of the finger that made it.                              *)
LEMMA TellsLast ==
    ASSUME NEW q \in Seq(Reports), NEW r \in Reports, NEW on \in BOOLEAN, r.kind # "up" <=> on
    PROVE  Append(q, r) # <<>> /\ Tells(Append(q, r), on)
<1>1. Append(q, r) # <<>> /\ Len(Append(q, r)) = Len(q) + 1 /\ Append(q, r)[Len(q) + 1] = r
    OBVIOUS
<1> QED
    BY <1>1 DEF Tells

LEMMA EmptyIs == ASSUME NEW S, NEW q \in Seq(S) PROVE q = <<>> <=> Len(q) = 0
    OBVIOUS

(* Reading a report leaves the last one last; the only one tells too.      *)
LEMMA TellsRest ==
    ASSUME NEW q \in Seq(Reports), q # <<>>, NEW on \in BOOLEAN, Tells(q, on)
    PROVE  Tells(Tail(q), on) /\ (Tail(q) = <<>> => (Head(q).kind # "up" <=> on))
<1>0. /\ Len(q) \in Nat /\ Len(q) # 0
      /\ Tail(q) \in Seq(Reports) /\ Len(Tail(q)) = Len(q) - 1 /\ Head(q) = q[1]
      /\ \A i \in 1 .. Len(q) - 1 : Tail(q)[i] = q[i + 1]
    OBVIOUS
<1>3. Tail(q) = <<>> <=> Len(Tail(q)) = 0
    BY <1>0, EmptyIs, Zenon
<1>1. CASE Len(q) = 1
    <2>1. Tail(q) = <<>>
        BY <1>0, <1>1, <1>3
    <2> QED
        BY <1>0, <1>1, <2>1 DEF Tells
<1>2. CASE Len(q) # 1
    <2>1. Len(q) - 1 \in 1 .. Len(q) - 1 /\ (Len(q) - 1) + 1 = Len(q)
        BY <1>0, <1>2
    <2>2. Tail(q)[Len(Tail(q))] = q[Len(q)]
        BY <1>0, <2>1
    <2>3. Tail(q) # <<>>
        BY <1>0, <1>2, <1>3
    <2> QED
        BY <2>2, <2>3 DEF Tells
<1> QED
    BY <1>1, <1>2

LEMMA FollowedHands == ASSUME InputTypeOK, Followed, Hands PROVE Followed'
<1>1. ASSUME NEW p \in Panels, NEW k, NEW s, Report(p, k, s), [kind |-> k, at |-> s] \in Reports,
             NEW on \in BOOLEAN, k # "up" <=> on, finger' = [finger EXCEPT ![p] = on]
      PROVE  Followed'
    <2>1. UNCHANGED <<contact, byButton, below, down, lost>> /\ pc = "top" /\ pc' = "top"
        BY <1>1 DEF Report, flip
    <2>2. CASE p = "bottom"
        <3>1. queue["bottom"] \in Seq(Reports) /\ "bottom" \in Panels
            BY DEF InputTypeOK, PanelsTyped, Panels
        <3>2. queue'["bottom"] = Append(queue["bottom"], [kind |-> k, at |-> s]) /\ finger'["bottom"] = on
            BY <1>1, <2>2, <3>1 DEF Report, Owned, InputTypeOK, PanelsTyped
        <3>3. ~Drained' /\ Tells(queue'["bottom"], finger'["bottom"])
            BY <1>1, <3>1, <3>2, TellsLast DEF Drained
        <3> QED
            BY <2>1, <3>3 DEF Followed, Held
    <2>3. CASE p # "bottom"
        <3>1. queue'["bottom"] = queue["bottom"] /\ finger'["bottom"] = finger["bottom"]
            BY <1>1, <2>3 DEF Report, InputTypeOK, PanelsTyped, Panels
        <3> QED
            BY <2>1, <3>1 DEF Followed, Held, Drained
    <2> QED
        BY <2>2, <2>3
<1>2. CASE \E p \in Panels : Press(p) \/ Slide(p) \/ Lift(p)
    <2>1. PICK p \in Panels : Press(p) \/ Slide(p) \/ Lift(p)
        BY <1>2
    <2>2. finger \in [Panels -> BOOLEAN]
        BY DEF InputTypeOK, PanelsTyped
    <2>3. CASE Press(p)
        <3>1. PICK s \in Spots : Report(p, "down", s)
            BY <2>3 DEF Press
        <3>2. [kind |-> "down", at |-> s] \in Reports /\ finger' = [finger EXCEPT ![p] = TRUE]
            BY <2>3 DEF Press, Reports
        <3>3. "down" # "up" <=> TRUE
            OBVIOUS
        <3> QED
            BY <1>1, <3>1, <3>2, <3>3
    <2>4. CASE Slide(p)
        <3>1. PICK s \in Spots : Report(p, "move", s)
            BY <2>4 DEF Slide
        <3>2. [kind |-> "move", at |-> s] \in Reports /\ finger' = [finger EXCEPT ![p] = TRUE]
            BY <2>2, <2>4 DEF Slide, Reports
        <3>3. "move" # "up" <=> TRUE
            OBVIOUS
        <3> QED
            BY <1>1, <3>1, <3>2, <3>3
    <2>5. CASE Lift(p)
        <3>1. Report(p, "up", "none") /\ finger' = [finger EXCEPT ![p] = FALSE]
            BY <2>5 DEF Lift
        <3>2. [kind |-> "up", at |-> "none"] \in Reports
            BY DEF Reports
        <3> QED
            BY <1>1, <3>1, <3>2
    <2> QED
        BY <2>1, <2>3, <2>4, <2>5
<1>3. CASE PressSelect \/ Enumerate
    BY <1>3 DEF PressSelect, Enumerate, panel, flip, Followed, Held, Drained
<1> QED
    BY <1>2, <1>3 DEF Hands, Player

LEMMA FollowedGestures == ASSUME InputTypeOK, Followed, Gestures PROVE Followed'
<1>1. UNCHANGED <<contact, lost, finger, queue, down>> /\ pc = "events" /\ pc' = "events"
    BY DEF Gestures, TabDown, TabMove, TabUp, DownIgnored, Stray, PageDown, PageMove, PageUp, HudDown, HudMove,
       HudUp, Done, panel, Event
<1>2. UNCHANGED <<below, byButton>> \/ byButton'
    BY GesturesKeep
<1> QED
    BY <1>1, <1>2 DEF Followed, Held, Drained

LEMMA FollowedPoll ==
    ASSUME InputTypeOK, Followed, PollGame \/ GamePolled \/ PollInterface \/ InterfaceRead
    PROVE  Followed'
<1>1. CASE PollGame
    <2>1. NextReport("bottom") /\ pc = "poll" /\ pc' = "poll" /\ "bottom" \in Panels
          /\ UNCHANGED <<finger, below, byButton>> /\ below
        BY <1>1 DEF PollGame, Panels
    <2> DEFINE q == queue["bottom"]
    <2>2. q \in Seq(Reports) /\ q # <<>> /\ finger["bottom"] \in BOOLEAN /\ down \in [Panels -> BOOLEAN]
        BY <2>1 DEF InputTypeOK, PanelsTyped, NextReport
    <2>3. queue'["bottom"] = Tail(q) /\ Head(q) \in Reports
        BY <2>1, NextReportIs
    <2>4. Tells(q, finger["bottom"])
        BY DEF Followed
    <2> HIDE DEF q
    <2>5. Tells(Tail(q), finger["bottom"]) /\ (Tail(q) = <<>> => (Head(q).kind # "up" <=> finger["bottom"]))
        BY <2>2, <2>4, TellsRest
    <2>6. Held' => down'["bottom"]
        <3>1. CASE UNCHANGED <<down, contact>>
            BY <2>1, <3>1 DEF Followed, Held
        <3>2. CASE Taken("bottom") /\ Forward(Type("bottom"))
            <4>1. down'["bottom"] = (Type("bottom") # "UP")
                BY <2>1, <2>2, <3>2 DEF Taken
            <4>2. Type("bottom") = "UP" => contact' = FALSE
                BY <3>2 DEF Forward
            <4> QED
                BY <4>1, <4>2 DEF Held
        <3> QED
            BY <1>1, <3>1, <3>2 DEF PollGame, Ignored
    <2>7. Held' /\ Tail(q) = <<>> => finger["bottom"] \/ lost'
        <3>1. CASE lost' = TRUE
            BY <3>1
        <3>2. CASE Ignored("bottom") /\ UNCHANGED contact
            <4>1. ~down["bottom"]
                BY <2>1, <2>3, <3>2, TypeIs DEF q, Ignored
            <4> QED
                BY <2>1, <3>2, <4>1 DEF Followed, Held
        <3>3. CASE Taken("bottom") /\ Forward(Type("bottom"))
            <4>1. SUFFICES ASSUME Held', Tail(q) = <<>>, Head(q).kind = "up" PROVE FALSE
                BY <2>5
            <4>2. Type("bottom") = "UP"
                BY <2>1, <2>3, <3>3, <4>1 DEF q, Taken, Type, Seen
            <4> QED
                BY <3>3, <4>1, <4>2 DEF Forward, Held
        <3> QED
            BY <1>1, <3>1, <3>2, <3>3 DEF PollGame
    <2> QED
        BY <2>1, <2>3, <2>5, <2>6, <2>7 DEF Followed, Drained, Held
<1>2. CASE GamePolled
    <2>1. UNCHANGED <<contact, byButton, below, down, lost, finger, queue>> /\ pc' = "read" /\ (below => Drained)
        BY <1>2 DEF GamePolled, flip, Drained
    <2> QED
        BY <2>1 DEF Followed, Held, Drained
<1>3. CASE PollInterface
    <2>1. UNCHANGED <<contact, byButton, below, lost, finger>> /\ pc = "read" /\ pc' = "read"
          /\ NextReport(Source) /\ Source \in Panels
        BY <1>3 DEF PollInterface, flip, Source, Panels
    <2>2. CASE below
        <3>1. Source = "top" /\ "bottom" \in Panels
            BY <2>2 DEF Source, Panels
        <3>2. queue'["bottom"] = queue["bottom"]
            BY <2>1, <3>1, NextReportIs
        <3>3. down'["bottom"] = down["bottom"]
            <4>1. UNCHANGED down \/ Taken("top")
                BY <1>3, <3>1 DEF PollInterface, Ignored
            <4> QED
                BY <3>1, <4>1 DEF Taken, InputTypeOK, PanelsTyped
        <3> QED
            BY <2>1, <3>2, <3>3 DEF Followed, Held, Drained
    <2>3. CASE ~below
        <3>1. Source = "bottom"
            BY <2>3 DEF Source
        <3>2. queue["bottom"] \in Seq(Reports) /\ queue["bottom"] # <<>> /\ finger["bottom"] \in BOOLEAN
            BY <2>1, <3>1 DEF InputTypeOK, PanelsTyped, NextReport
        <3>3. queue'["bottom"] = Tail(queue["bottom"])
            BY <2>1, <3>1, NextReportIs
        <3>4. Tells(queue'["bottom"], finger["bottom"])
            BY <3>2, <3>3, TellsRest DEF Followed
        <3>5. ~Held
            BY <2>3 DEF Followed
        <3> QED
            BY <2>1, <2>3, <3>4, <3>5 DEF Followed, Held
    <2> QED
        BY <2>2, <2>3
<1>4. CASE InterfaceRead
    BY <1>4 DEF InterfaceRead, flip, panel, Followed, Held, Drained
<1> QED
    BY <1>1, <1>2, <1>3, <1>4

LEMMA FollowedNext == ASSUME InputTypeOK, Followed, [InputNext]_inputVars PROVE Followed'
<1>1. CASE Sample \/ Release \/ FrameEnd
    <2>1. UNCHANGED <<contact, byButton, below, down, lost, finger, queue>> /\ pc' \notin {"read", "events"}
        BY <1>1 DEF Sample, Release, FrameEnd, AfterRelease, flip, panel
    <2> QED
        BY <2>1 DEF Followed, Held, Drained
<1>2. CASE Flip
    <2>1. contact' = FALSE /\ pc' = "poll" /\ UNCHANGED finger
        BY <1>2 DEF Flip
    <2>2. queue'["bottom"] = queue["bottom"]
        BY <1>2 DEF Flip, InputTypeOK, PanelsTyped, Panels
    <2> QED
        BY <2>1, <2>2 DEF Followed, Held
<1>3. CASE Exit
    <2>1. contact' = FALSE /\ pc' = "exit" /\ queue'["bottom"] = <<>>
        BY <1>3 DEF Exit, Panels
    <2> QED
        BY <2>1 DEF Followed, Held, Tells
<1>4. CASE UNCHANGED inputVars
    BY <1>4 DEF inputVars, panel, flip, Followed, Held, Drained
<1> QED
    BY <1>1, <1>2, <1>3, <1>4, FollowedHands, FollowedGestures, FollowedPoll
       DEF InputNext, Frame, Gestures, Hands

(* A finger lifted from the lower panel is lifted in the game by the frame *)
(* that reads the panel next, unless that read overflowed: for any buffer  *)
(* and however the lift falls together with flips and the other panel.     *)
THEOREM LiftsReachTheGame == InputSpec => []LiftReachesGame
<1>1. InputInit => Followed
    BY DEF InputInit, Followed, Held, Drained, Tells, Panels
<1>2. Followed => LiftReachesGame
    BY DEF Followed, Held, LiftReachesGame
<1> QED
    BY <1>1, <1>2, InputTypeInit, InputTypeNext, FollowedNext, PTL DEF InputSpec

(***************************************************************************)
(* A gesture of the interface.  While nothing has come in between, it is   *)
(* the one that began where and on the page `began` remembers, it is a     *)
(* tab's or the slider's only if it began there, and no event that is      *)
(* waiting is the start of another: the finger that made it is still the   *)
(* one bottomd sees on the panel it reads, and in a read a finger goes     *)
(* down only after the last was lifted.  When the interface is read from   *)
(* the other panel than before, that argument ends, and `cut` says so.     *)
(***************************************************************************)

Uncut == touch.active /\ ~cut

Begun ==
    /\ ~touch.active => began = Nowhere
    /\ touch.active => touch.from \in Spots /\ (touch.tab <=> touch.from \in Pages)
    /\ Uncut => began = [at |-> touch.from, page |-> tabs.page]
    /\ Uncut /\ ~touch.tab /\ tabs.page = "HUD" => (touch.slider <=> touch.from = "right")

Queued ==
    /\ Uncut /\ evs = <<>> /\ driver = Source => down[driver]
    /\ Uncut /\ evs # <<>> => Head(evs).type # "DOWN"
    /\ \A k \in 1 .. Len(evs) - 1 : evs[k].type # "UP" => evs[k + 1].type # "DOWN"
    /\ evs # <<>> => pc \in {"read", "events"}
    /\ evs # <<>> /\ evs[Len(evs)].type # "UP" => down[driver]
    /\ pc = "read" => driver = Source

(* What is left to handle after an event still fits the finger.            *)
LEMMA QueuedRest ==
    ASSUME InputTypeOK, Queued, NEW t, Event(t), NEW e, Done(e),
           Uncut' => t # "UP"
    PROVE  Queued'
<1> DEFINE q == evs
<1>1. /\ q \in Seq(Events) /\ q # <<>> /\ Head(q).type = t /\ q[1] = Head(q)
      /\ Tail(q) \in Seq(Events) /\ Len(Tail(q)) = Len(q) - 1 /\ Len(q) \in Nat /\ Len(q) # 0
      /\ \A i \in 1 .. Len(q) - 1 : Tail(q)[i] = q[i + 1]
    BY EventIs DEF InputTypeOK, GesturesTyped
<1>2. evs' = Tail(q) /\ pc = "events" /\ pc' = "events" /\ UNCHANGED <<driver, down>>
    BY EventIs DEF Done, panel
<1>3. (\A k \in 1 .. Len(q) - 1 : q[k].type # "UP" => q[k + 1].type # "DOWN")
      /\ (q[Len(q)].type # "UP" => down[driver])
    BY <1>1 DEF Queued
<1> HIDE DEF q
<1>4. Tail(q) = <<>> <=> Len(Tail(q)) = 0
    BY <1>1, EmptyIs, Zenon
<1>5. CASE Len(q) = 1
    <2>1. Tail(q) = <<>> /\ Len(Tail(q)) = 0 /\ q[Len(q)].type = t
        BY <1>1, <1>4, <1>5
    <2> QED
        BY <1>2, <1>3, <2>1 DEF Queued
<1>6. CASE Len(q) # 1
    <2>1. /\ Len(q) - 1 \in 1 .. Len(q) - 1 /\ (Len(q) - 1) + 1 = Len(q) /\ 1 \in 1 .. Len(q) - 1 /\ 1 + 1 = 2
        BY <1>1, <1>6
    <2>2. Tail(q) # <<>> /\ Tail(q)[Len(Tail(q))] = q[Len(q)] /\ Tail(q)[1] = q[2]
        BY <1>1, <1>4, <1>6, <2>1
    <2>3. Head(Tail(q)) = q[2]
        BY <1>1, <2>2
    <2>4. t # "UP" => q[2].type # "DOWN"
        BY <1>1, <1>3, <2>1
    <2>5. \A k \in 1 .. Len(Tail(q)) - 1 : Tail(q)[k].type # "UP" => Tail(q)[k + 1].type # "DOWN"
        <3> SUFFICES ASSUME NEW k \in 1 .. Len(q) - 2, Tail(q)[k].type # "UP"
                     PROVE  Tail(q)[k + 1].type # "DOWN"
            BY <1>1
        <3>1. k \in 1 .. Len(q) - 1 /\ k + 1 \in 1 .. Len(q) - 1
            BY <1>1
        <3>2. Tail(q)[k] = q[k + 1] /\ Tail(q)[k + 1] = q[(k + 1) + 1]
            BY <1>1, <3>1
        <3> QED
            BY <1>3, <3>1, <3>2
    <2> QED
        BY <1>2, <1>3, <2>2, <2>3, <2>4, <2>5 DEF Queued
<1> QED
    BY <1>5, <1>6

LEMMA BegunGestures ==
    ASSUME InputTypeOK, Begun, Queued, Gestures
    PROVE  Begun' /\ Queued'
<1>0. touch \in Touches /\ (touch.tab => touch.active /\ touch.from \in Pages) /\ cut \in BOOLEAN /\ tabs \in Tabs
    BY DEF InputTypeOK, PagesTyped, GesturesTyped
<1>1. CASE TabUp \/ PageUp \/ HudUp
    <2>1. Event("UP") /\ \E e : Done(e)
        BY <1>1 DEF TabUp, PageUp, HudUp
    <2>2. ~touch'.active /\ began' = Nowhere
        BY <1>1 DEF TabUp, PageUp, HudUp, Ended, Idle
    <2>3. Queued'
        BY <2>1, <2>2, QueuedRest DEF Uncut
    <2> QED
        BY <2>2, <2>3 DEF Begun, Uncut
<1>2. CASE TabDown \/ PageDown \/ HudDown
    <2>1. Event("DOWN") /\ ~touch.active /\ UNCHANGED <<tabs, cut>> /\ Began /\ \E e : Done(e)
        BY <1>2 DEF TabDown, PageDown, HudDown, Rest
    <2>2. Spot \in Spots /\ began' = [at |-> Spot, page |-> tabs.page]
        BY <2>1, EventIs DEF Began
    <2>3. Queued'
        BY <2>1, QueuedRest
    <2>4. touch'.active /\ touch'.from = Spot /\ (touch'.tab <=> Spot \in Pages)
        BY <1>0, <1>2 DEF TabDown, PageDown, HudDown, StartGesture, Touches
    <2>5. tabs.page = "HUD" /\ ~touch'.tab => (touch'.slider <=> Spot = "right")
        BY <1>0, <1>2, <2>4 DEF TabDown, PageDown, HudDown, StartGesture, Touches
    <2> QED
        BY <2>1, <2>2, <2>3, <2>4, <2>5 DEF Begun, Uncut
<1>3. CASE TabMove \/ PageMove \/ HudMove
    <2>1. Event("MOTION") /\ UNCHANGED <<tabs, cut, began>> /\ \E e : Done(e)
        BY <1>3 DEF TabMove, PageMove, HudMove, Rest
    <2>2. Queued'
        BY <2>1, QueuedRest
    <2>3. touch'.active = touch.active /\ touch'.tab = touch.tab /\ touch'.slider = touch.slider /\ touch'.from = touch.from
        BY <1>0, <1>3 DEF TabMove, PageMove, HudMove, Touches
    <2> QED
        BY <2>1, <2>2, <2>3 DEF Begun, Uncut
<1>4. CASE DownIgnored
    <2>1. Event("DOWN") /\ touch.active /\ UNCHANGED <<tabs, touch, cut>> /\ Done("none")
        BY <1>4 DEF DownIgnored, Rest
    <2>2. cut
        BY <2>1, EventIs DEF Queued, Uncut
    <2>3. Queued'
        BY <2>1, QueuedRest
    <2> QED
        BY <2>1, <2>2, <2>3 DEF Begun, Uncut
<1>5. CASE Stray
    <2>1. ~touch.active /\ UNCHANGED <<touch, cut, began>> /\ Done("none") /\ (Event("MOTION") \/ Event("UP"))
        BY <1>5 DEF Stray
    <2>2. Queued'
        BY <2>1, QueuedRest DEF Uncut
    <2> QED
        BY <2>1, <2>2 DEF Begun, Uncut
<1> QED
    BY <1>1, <1>2, <1>3, <1>4, <1>5 DEF Gestures

(* A finger is seen to go down only where none was.                        *)
LEMMA BegunPoll ==
    ASSUME InputTypeOK, Begun, Queued, PollGame \/ GamePolled \/ PollInterface \/ InterfaceRead
    PROVE  Begun' /\ Queued'
<1>1. CASE PollGame
    <2>1. evs = <<>> /\ UNCHANGED <<pc, ui, below>> /\ below /\ pc = "poll"
        BY <1>1 DEF PollGame, Queued
    <2>2. down'["top"] = down["top"]
        <3>1. UNCHANGED down \/ Taken("bottom")
            BY <1>1 DEF PollGame, Ignored
        <3> QED
            BY <3>1 DEF Taken, InputTypeOK, PanelsTyped, Panels
    <2>3. Source = "top" /\ Source' = "top"
        BY <2>1 DEF Source
    <2> QED
        BY <2>1, <2>2, <2>3 DEF ui, Begun, Queued, Uncut
<1>2. CASE GamePolled
    <2>1. UNCHANGED <<tabs, evs, touch, began, down, below>> /\ driver' = Source
          /\ cut' = (cut \/ (touch.active /\ driver # Source)) /\ evs = <<>>
        BY <1>2 DEF GamePolled, flip, Queued
    <2>2. Source' = Source
        BY <2>1 DEF Source
    <2>3. Begun'
        BY <2>1 DEF Begun, Uncut
    <2>4. Uncut' => Uncut /\ driver = Source
        BY <2>1 DEF Uncut
    <2>5. \A k \in 1 .. Len(evs') - 1 : evs'[k].type # "UP" => evs'[k + 1].type # "DOWN"
        BY <2>1 DEF Queued
    <2> QED
        BY <2>1, <2>2, <2>3, <2>4, <2>5 DEF Queued
<1>3. CASE PollInterface
    <2>1. NextReport(Source) /\ Source \in Panels /\ driver = Source /\ pc = "read"
          /\ UNCHANGED <<pc, tabs, touch, began, driver, below>>
        BY <1>3 DEF PollInterface, Source, Panels, flip, Queued
    <2>2. Source' = Source /\ Head(queue[Source]) \in Reports /\ down \in [Panels -> BOOLEAN]
        BY <2>1, NextReportIs DEF Source, InputTypeOK, PanelsTyped
    <2>3. CASE UNCHANGED evs
        <3>1. (cut' = TRUE /\ UNCHANGED down) \/ (Ignored(Source) /\ UNCHANGED cut)
            <4>1. ASSUME NEW e PROVE evs' # Append(evs, e)
                <5>1. evs \in Seq(Events)
                    BY DEF InputTypeOK, GesturesTyped
                <5>2. Len(Append(evs, e)) = Len(evs) + 1 /\ Len(evs) \in Nat
                    BY <5>1
                <5>3. Append(evs, e) # evs
                    BY <5>2
                <5> QED
                    BY <2>3, <5>3
            <4> QED
                BY <1>3, <4>1 DEF PollInterface
        <3>2. UNCHANGED down /\ (Uncut' => Uncut)
            BY <2>1, <3>1 DEF Ignored, Uncut
        <3> QED
            BY <2>1, <2>2, <2>3, <3>2 DEF Begun, Queued, Uncut
    <2>4. CASE ~UNCHANGED evs
        <3> DEFINE e == [type |-> Type(Source), at |-> Head(queue[Source]).at]
        <3>1. Taken(Source) /\ evs' = Append(evs, e) /\ UNCHANGED cut
            BY <1>3, <2>4 DEF PollInterface
        <3>2. e.type = Type(Source) /\ down'[driver] = (Type(Source) # "UP")
            BY <2>1, <2>2, <3>1 DEF Taken
        <3>3. e.type = "DOWN" => ~down[driver]
            BY <2>1, <2>2, TypeIs
        <3>4. evs \in Seq(Events) /\ e \in Events
            BY <2>1, <2>2, <3>1, TypeIs DEF Taken, InputTypeOK, GesturesTyped
        <3> HIDE DEF e
        <3>5. /\ Len(evs) \in Nat /\ evs' # <<>> /\ Len(evs') = Len(evs) + 1 /\ evs'[Len(evs) + 1] = e
              /\ \A i \in 1 .. Len(evs) : evs'[i] = evs[i]
            BY <3>1, <3>4
        <3>6. evs # <<>> => Len(evs) # 0 /\ Head(evs') = Head(evs)
            BY <3>1, <3>4
        <3>7. evs = <<>> => Head(evs') = e
            BY <3>1, <3>4
        <3>8. Uncut' => Head(evs').type # "DOWN"
            BY <2>1, <3>1, <3>3, <3>6, <3>7 DEF Uncut, Queued
        <3>9. \A k \in 1 .. Len(evs') - 1 : evs'[k].type # "UP" => evs'[k + 1].type # "DOWN"
            <4> SUFFICES ASSUME NEW k \in 1 .. Len(evs), evs'[k].type # "UP" PROVE evs'[k + 1].type # "DOWN"
                BY <3>5
            <4>1. CASE k = Len(evs)
                <5>1. evs # <<>> /\ evs[Len(evs)].type # "UP"
                    BY <3>5, <4>1
                <5> QED
                    BY <3>3, <3>5, <4>1, <5>1 DEF Queued
            <4>2. CASE k # Len(evs)
                <5>1. k \in 1 .. Len(evs) - 1 /\ k + 1 \in 1 .. Len(evs)
                    BY <3>5, <4>2
                <5> QED
                    BY <3>5, <5>1 DEF Queued
            <4> QED
                BY <4>1, <4>2
        <3>10. Begun'
            BY <2>1, <3>1 DEF Begun, Uncut
        <3> QED
            BY <2>1, <2>2, <3>2, <3>5, <3>8, <3>9, <3>10 DEF Queued
    <2> QED
        BY <2>3, <2>4
<1>4. CASE InterfaceRead
    <2>1. UNCHANGED <<ui, panel, below>> /\ pc' = "events"
        BY <1>4 DEF InterfaceRead, flip
    <2> QED
        BY <2>1 DEF ui, panel, Begun, Queued, Uncut, Source
<1> QED
    BY <1>1, <1>2, <1>3, <1>4

LEMMA BegunNext ==
    ASSUME InputTypeOK, Begun, Queued, [InputNext]_inputVars
    PROVE  Begun' /\ Queued'
<1>1. CASE Hands
    <2>1. ASSUME NEW p \in Panels, NEW k, NEW s, Report(p, k, s)
          PROVE  UNCHANGED <<pc, tabs, evs, touch, began, driver, cut, down, below>>
        BY <2>1 DEF Report, ui, flip
    <2>2. UNCHANGED <<pc, tabs, evs, touch, began, driver, cut, down, below>>
        BY <1>1, <2>1 DEF Hands, Player, Press, Slide, Lift, PressSelect, Enumerate, ui, panel, flip
    <2> QED
        BY <2>2 DEF Begun, Queued, Uncut, Source
<1>2. CASE Sample \/ Release
    <2>1. /\ evs = <<>> /\ pc' \notin {"read", "events"} /\ UNCHANGED <<evs, touch, began, driver, down, below>>
          /\ cut' = (cut \/ (touch.active /\ tabs'.page # tabs.page))
        BY <1>2 DEF Sample, Release, AfterRelease, panel, flip, Queued
    <2>2. Uncut' => Uncut /\ tabs'.page = tabs.page
        BY <2>1 DEF Uncut
    <2>3. \A k \in 1 .. Len(evs') - 1 : evs'[k].type # "UP" => evs'[k + 1].type # "DOWN"
        BY <2>1 DEF Queued
    <2> QED
        BY <2>1, <2>2, <2>3 DEF Begun, Queued, Source
<1>3. CASE Flip
    <2>1. evs = <<>> /\ pc' = "poll" /\ UNCHANGED <<evs, touch, began>> /\ cut' = (cut \/ touch.active)
        BY <1>3 DEF Flip, Queued
    <2>2. ~Uncut'
        BY <2>1 DEF Uncut
    <2>3. \A k \in 1 .. Len(evs') - 1 : evs'[k].type # "UP" => evs'[k + 1].type # "DOWN"
        BY <2>1 DEF Queued
    <2> QED
        BY <2>1, <2>2, <2>3 DEF Begun, Queued
<1>4. CASE FrameEnd
    BY <1>4 DEF FrameEnd, panel, flip, Begun, Queued, Uncut, Source
<1>5. CASE Exit
    <2>1. evs = <<>> /\ pc' = "exit" /\ UNCHANGED evs /\ touch' = Idle /\ began' = Nowhere
        BY <1>5 DEF Exit, Queued
    <2>2. ~touch'.active
        BY <2>1 DEF Idle
    <2>3. \A k \in 1 .. Len(evs') - 1 : evs'[k].type # "UP" => evs'[k + 1].type # "DOWN"
        BY <2>1 DEF Queued
    <2> QED
        BY <2>1, <2>2, <2>3 DEF Begun, Queued, Uncut
<1>6. CASE UNCHANGED inputVars
    BY <1>6 DEF inputVars, ui, panel, flip, Begun, Queued, Uncut, Source
<1> QED
    BY <1>1, <1>2, <1>3, <1>4, <1>5, <1>6, BegunGestures, BegunPoll DEF InputNext, Frame, Gestures, Hands

(* What one event does, given the gesture it belongs to.                   *)
LEMMA ActsWhereItBegan ==
    ASSUME InputTypeOK, Begun, InputNext,
           pc = "events", evs # <<>>, effect' # "none", ~cut, began # Nowhere
    PROVE  /\ effect' = "tab" => began.at \in Pages /\ tabs'.page = began.at
           /\ effect' # "tab" => began.at \notin Pages /\ began.page = tabs.page
           /\ effect' = "zoom" => began.at = "right"
           /\ effect' \in {"pan", "map"} => began.at = "left"
<1>1. touch.active /\ Uncut
    BY DEF Begun, Uncut
<1>2. /\ touch \in Touches /\ tabs \in Tabs /\ (touch.tab <=> touch.from \in Pages)
      /\ began.at = touch.from /\ began.page = tabs.page
      /\ ~touch.tab => touch.from \in {"left", "right"}
      /\ ~touch.tab /\ tabs.page = "HUD" => (touch.slider <=> touch.from = "right")
    BY <1>1, SpotsAssumption DEF Begun, InputTypeOK, PagesTyped, GesturesTyped, SpotsAssumption
<1>3. CASE TabUp
    BY <1>2, <1>3 DEF TabUp, Done, pages_set, Tabs
<1>4. CASE PageUp
    BY <1>2, <1>4 DEF PageUp, Done
<1>5. CASE HudMove
    <2>1. CASE touch.slider
        BY <1>2, <1>5, <2>1 DEF HudMove, Done
    <2>2. CASE ~touch.slider
        <3>1. effect' \in {"pan", "none"}
            BY <1>5, <2>2 DEF HudMove, Done
        <3>2. ~touch.tab /\ tabs.page = "HUD"
            BY <1>5 DEF HudMove
        <3> QED
            BY <1>2, <2>2, <3>1, <3>2
    <2> QED
        BY <2>1, <2>2
<1>6. CASE HudUp
    <2>1. ~touch.tab /\ tabs.page = "HUD" /\ effect' = "map" /\ ~touch.slider
        BY <1>6 DEF HudUp, Done
    <2> QED
        BY <1>2, <2>1
<1>7. effect' # "none" => TabUp \/ PageUp \/ HudMove \/ HudUp
    <2>1. TabDown \/ TabMove \/ DownIgnored \/ PageDown \/ PageMove \/ Stray => effect' = "none"
        BY DEF TabDown, TabMove, DownIgnored, PageDown, PageMove, Stray, Done
    <2>2. ~HudDown
        BY <1>1 DEF HudDown
    <2>4. ~Hands /\ ~Exit /\ ~Sample /\ ~Release /\ ~Flip /\ ~PollGame /\ ~GamePolled /\ ~PollInterface
          /\ ~InterfaceRead /\ ~FrameEnd
        <3>1. ASSUME NEW p \in Panels PROVE ~Press(p) /\ ~Slide(p) /\ ~Lift(p)
            BY DEF Press, Slide, Lift, Report
        <3> QED
            BY <3>1 DEF Hands, Player, PressSelect, Enumerate, Exit, Sample, Release, Flip, PollGame, GamePolled,
               PollInterface, InterfaceRead, FrameEnd
    <2> QED
        BY <2>1, <2>2, <2>4 DEF InputNext, Frame, Hands
<1> QED
    BY <1>3, <1>4, <1>5, <1>6, <1>7

(* An event does what its finger began, unless the screens or the page     *)
(* changed under it, the interface moved to the other panel or a read      *)
(* overflowed: for any spots, buffer and order of touches on both panels.  *)
THEOREM GesturesStay == InputSpec => GestureStaysWhereItBegan
<1>1. InputInit => Begun /\ Queued
    <2> SUFFICES ASSUME InputInit PROVE Begun /\ Queued
        OBVIOUS
    <2>1. evs = <<>> /\ Len(evs) = 0 /\ touch = Idle /\ began = Nowhere /\ pc = "top"
        BY DEF InputInit
    <2>2. ~touch.active
        BY <2>1 DEF Idle
    <2> QED
        BY <2>1, <2>2 DEF Begun, Queued, Uncut
<1>2. InputTypeOK /\ Begun /\ [InputNext]_inputVars =>
        [pc = "events" /\ evs # <<>> /\ effect' # "none" /\ ~cut /\ began # Nowhere =>
            /\ effect' = "tab" => began.at \in Pages /\ tabs'.page = began.at
            /\ effect' # "tab" => began.at \notin Pages /\ began.page = tabs.page
            /\ effect' = "zoom" => began.at = "right"
            /\ effect' \in {"pan", "map"} => began.at = "left"]_inputVars
    BY ActsWhereItBegan
<1> QED
    BY <1>1, <1>2, InputTypeInit, InputTypeNext, BegunNext, PTL DEF InputSpec, GestureStaysWhereItBegan

(***************************************************************************)
(* OskCover                                                                *)
(*                                                                         *)
(* The end of a session leaves no keyboard, for any number of shows, hides *)
(* and keyboards, however they overlap, crash and hang, unless one of them *)
(* was not the registered one.  `Ending` follows the last hide command by  *)
(* command: nobody else is left to start a keyboard or to change the pid   *)
(* file, and what the TERM did not end, the KILL does.                     *)
(***************************************************************************)

LastHide == hide["session"]

Ending ==
    /\ supervisor # "off" => LastHide = "idle"
    /\ supervisor = "off" =>
        /\ \A s \in Shows : show[s] = "done"
        /\ \A h \in Hiders \ {"session"} : hide[h] = "done"
        /\ LastHide \in {"claim", "stop", "kill", "unlink", "tree", "braces", "done"}
        /\ ~stray /\ LastHide \in {"claim", "stop", "kill"} => alive \subseteq {pidfile}
        /\ ~stray /\ LastHide \in {"unlink", "tree", "braces", "done"} => alive = {}

(***************************************************************************)
(* Types                                                                   *)
(***************************************************************************)

LEMMA OskTypeInit == OskInit => OskTypeOK
<1> SUFFICES ASSUME OskInit PROVE OskTypeOK
    OBVIOUS
<1>1. show \in [Shows -> {"idle", "window",
   "done"} \cup Wrapped \cup Showing] /\ new \in [Shows -> K \cup {0}]
    BY DEF OskInit, Wrapped, Showing
<1>2. hide \in [Hiders -> {"idle", "claim", "tree", "braces", "done"} \cup Stopping]
    BY DEF OskInit, Stopping
<1>3. started \in 0 .. Keyboards
    BY OskAssumption DEF OskInit
<1>4. alive \in SUBSET K /\ covering \in SUBSET alive /\ ready \in SUBSET alive /\ hung \in SUBSET alive
    BY DEF OskInit
<1> QED
    BY <1>1, <1>2, <1>3, <1>4 DEF OskInit, OskTypeOK

(* A keyboard that is gone is gone from every set. *)
LEMMA GoneType ==
    ASSUME OskTypeOK, NEW dead, Gone(dead)
    PROVE  /\ started' \in 0 .. Keyboards
           /\ alive' \in SUBSET K /\ covering' \in SUBSET alive' /\ ready' \in SUBSET alive' /\ hung' \in SUBSET alive'
    BY DEF OskTypeOK, Gone

LEMMA OskTypeKeyboard ==
    ASSUME OskTypeOK, NEW k \in K, Map(k) \/ Handlers(k) \/ Crash(k) \/ Hang(k)
    PROVE  OskTypeOK'
<1>1. CASE Map(k)
    BY <1>1 DEF Map, OskTypeOK, oskFiles, scripts, watch
<1>2. CASE Handlers(k)
    BY <1>2 DEF Handlers, OskTypeOK, scripts, watch
<1>3. CASE Crash(k)
    <2>1. Gone({k}) /\ UNCHANGED <<oskFiles, scripts, watch, stray>>
        BY <1>3 DEF Crash
    <2> QED
        BY <2>1, GoneType DEF OskTypeOK, oskFiles, scripts, watch
<1>4. CASE Hang(k)
    BY <1>4 DEF Hang, OskTypeOK, oskFiles, scripts, watch
<1> QED
    BY <1>1, <1>2, <1>3, <1>4

LEMMA OskTypeShow ==
    ASSUME OskTypeOK,
           NEW s \in Shows,
           \/ ShowCall(s) \/ Check(s) \/ Spawn(s) \/ Register(s) \/ Window(s) \/ WaitReady(s) \/ Signal(s)
    PROVE  OskTypeOK'
<1>1. show' \in [Shows -> {"idle", "window", "done"} \cup Wrapped \cup Showing]
    BY DEF ShowCall, Check, Spawn, Register, Window, WaitReady, Signal, ShowStep, OskTypeOK, Wrapped,
       Showing
<1>2. UNCHANGED <<hide, supervisor, since>>
    BY DEF ShowCall, Check, Spawn, Register, Window, WaitReady, Signal, ShowStep, watch
<1>3. CASE ShowCall(s) \/ Check(s) \/ Window(s) \/ WaitReady(s)
    <2>1. claim' \in BOOLEAN /\ UNCHANGED <<pidfile, running, started, alive, covering, ready, hung, new,
       stray>>
        BY <1>3 DEF ShowCall, Check, Window, WaitReady, oskFiles, keyboards, OskTypeOK
    <2> QED
        BY <1>1, <1>2, <2>1 DEF OskTypeOK
<1>4. CASE Spawn(s)
    <2>1. started' \in K
        BY <1>4, OskAssumption DEF Spawn, OskTypeOK, K
    <2>2. new' \in [Shows -> K \cup {0}] /\ alive' \in SUBSET K /\ alive \subseteq alive'
        BY <1>4, <2>1 DEF Spawn, OskTypeOK
    <2> QED
        <3>1. running' = FALSE /\ UNCHANGED <<claim, pidfile, covering, ready, hung, stray>>
            BY <1>4 DEF Spawn
        <3>2. started' \in 0 .. Keyboards
            BY <2>1, OskAssumption DEF K
        <3>3. covering' \in SUBSET alive' /\ ready' \in SUBSET alive' /\ hung' \in SUBSET alive'
            BY <2>2, <3>1 DEF OskTypeOK
        <3> QED
            BY <1>1, <1>2, <2>2, <3>1, <3>2, <3>3 DEF OskTypeOK
<1>5. CASE Register(s)
    <2>1. pidfile' \in K \cup {0} /\ new' \in [Shows -> K \cup {0}]
        BY <1>5 DEF Register, OskTypeOK
    <2> QED
        BY <1>1, <1>2, <1>5, <2>1 DEF Register, OskTypeOK, keyboards
<1>6. CASE Signal(s)
    <2>1. PICK hit : Gone(hit)
        BY <1>6 DEF Signal
    <2>2. UNCHANGED <<claim, pidfile, running, new, stray>>
        BY <1>6 DEF Signal, OskTypeOK, oskFiles
    <2> QED
        BY <1>1, <1>2, <2>1, <2>2, GoneType DEF OskTypeOK
<1> QED
    BY <1>3, <1>4, <1>5, <1>6

LEMMA OskTypeHide ==
    ASSUME OskTypeOK, NEW h \in Hiders, HideCall(h) \/ HideScript(h)
    PROVE  OskTypeOK'
<1> USE DEF HideScript
<1>1. hide' \in [Hiders -> {"idle", "claim", "tree", "braces", "done"} \cup Stopping]
    <2>1. CASE Braces(h)
        BY <2>1 DEF Braces, OskTypeOK, Stopping
    <2>2. CASE ~Braces(h)
        BY <2>2 DEF HideCall, Unclaim, Stop, Kill, Unlink, Tree, HideStep, OskTypeOK, Stopping
    <2> QED
        BY <2>1, <2>2
<1>2. UNCHANGED <<supervisor, since, stray>>
    BY DEF HideCall, Unclaim, Stop, Kill, Unlink, Tree, Braces, HideStep, watch
<1>3. CASE HideCall(h) \/ Unclaim(h) \/ Unlink(h) \/ Tree(h)
    <2>1. claim' \in BOOLEAN /\ pidfile' \in K \cup {0}
          /\ UNCHANGED <<running, started, alive, covering, ready, hung, show, new>>
        BY <1>3 DEF HideCall, Unclaim, Unlink, Tree, oskFiles, keyboards, OskTypeOK
    <2> QED
        BY <1>1, <1>2, <2>1 DEF OskTypeOK
<1>4. CASE Stop(h) \/ Kill(h)
    <2>1. PICK dead : Gone(dead)
        BY <1>4 DEF Stop, Kill
    <2>2. UNCHANGED <<claim, pidfile, running, show, new>>
        BY <1>4 DEF Stop, Kill, oskFiles
    <2> QED
        BY <1>1, <1>2, <2>1, <2>2, GoneType DEF OskTypeOK
<1>5. CASE Braces(h)
    <2>1. PICK dead : Gone(dead)
        BY <1>5 DEF Braces
    <2>2. show' \in [Shows -> {"idle", "window", "done"} \cup Wrapped \cup Showing]
        BY <1>5 DEF Braces, OskTypeOK
    <2>3. new' \in [Shows -> K \cup {0}] /\ UNCHANGED <<claim, pidfile, running>>
        BY <1>5 DEF Braces, oskFiles
    <2> QED
        BY <1>1, <1>2, <2>1, <2>2, <2>3, GoneType DEF OskTypeOK
<1> QED
    BY <1>3, <1>4, <1>5

LEMMA OskTypeWatch ==
    ASSUME OskTypeOK, Age \/ Supervise \/ Resume \/ End
    PROVE  OskTypeOK'
<1>1. CASE Age
    BY <1>1 DEF Age, OskTypeOK, oskFiles, keyboards, scripts
<1>2. CASE Supervise \/ Resume
    <2>1. hide' \in [Hiders -> {"idle", "claim", "tree", "braces", "done"} \cup Stopping]
        BY <1>2 DEF Supervise, Resume, OskTypeOK
    <2>2. supervisor' \in {"poll", "hide", "off"} /\ since' \in {"none", "new", "grace", "long"}
        BY <1>2 DEF Supervise, Resume, OskTypeOK
    <2>3. UNCHANGED <<oskFiles, keyboards, show, new, stray>>
        BY <1>2 DEF Supervise, Resume
    <2> QED
        BY <2>1, <2>2, <2>3 DEF OskTypeOK, oskFiles, keyboards
<1>3. CASE End
    <2>1. hide' \in [Hiders -> {"idle", "claim", "tree", "braces", "done"} \cup Stopping]
        BY <1>3 DEF End
    <2>2. show' \in [Shows -> {"idle", "window",
       "done"} \cup Wrapped \cup Showing] /\ new' \in [Shows -> K \cup {0}]
        BY <1>3 DEF End
    <2>3. stray' \in BOOLEAN /\ supervisor' = "off" /\ since' = "none" /\ UNCHANGED oskFiles
        BY <1>3 DEF End
    <2>4. Gone({k \in K : Starting(k)})
        BY <1>3 DEF End
    <2> QED
        BY <2>1, <2>2, <2>3, <2>4, GoneType DEF OskTypeOK, oskFiles
<1> QED
    BY <1>1, <1>2, <1>3

LEMMA OskTypeNext == OskTypeOK /\ [OskNext]_oskVars => OskTypeOK'
<1>1. OskTypeOK /\ UNCHANGED oskVars => OskTypeOK'
    BY DEF OskTypeOK, oskVars, oskFiles, keyboards, scripts, watch
<1> QED
    BY <1>1, OskTypeKeyboard, OskTypeShow, OskTypeHide, OskTypeWatch DEF OskNext, ShowScript, Hiders

(* Every variable of the model keeps its type, for any calls and keyboards.*)
THEOREM OskTypeCorrect == OskSpec => []OskTypeOK
    BY OskTypeInit, OskTypeNext, PTL DEF OskSpec

(***************************************************************************)
(* The last hide.                                                          *)
(***************************************************************************)

(* Gone only takes keyboards away, and leaves the rest. *)
LEMMA GoneEnds == ASSUME NEW dead, Gone(dead) PROVE alive' = alive \ dead
    BY DEF Gone

(* A show runs, and a keyboard changes its state, only within the session, *)
(* or without a new keyboard.                                              *)
LEMMA EndingKeyboard ==
    ASSUME Ending, NEW k \in K, Map(k) \/ Handlers(k) \/ Crash(k) \/ Hang(k)
    PROVE  Ending'
<1>1. UNCHANGED <<supervisor, hide, show, stray, pidfile>>
    BY DEF Map, Handlers, Crash, Hang, oskFiles, scripts, watch
<1>2. alive' \subseteq alive
    BY DEF Map, Handlers, Crash, Hang, Gone
<1> QED
    BY <1>1, <1>2 DEF Ending, LastHide

LEMMA EndingShow ==
    ASSUME Ending, NEW s \in Shows,
           \/ ShowCall(s) \/ Check(s) \/ Spawn(s) \/ Register(s) \/ Window(s) \/ WaitReady(s) \/ Signal(s)
    PROVE  Ending'
<1>1. UNCHANGED <<supervisor, hide>>
    BY DEF ShowCall, Check, Spawn, Register, Window, WaitReady, Signal, ShowStep, watch
<1>2. supervisor # "off"
    BY DEF Ending, ShowCall, Check, Spawn, Register, Window, WaitReady, Signal, ShowStep
<1> QED
    BY <1>1, <1>2 DEF Ending, LastHide

LEMMA EndingHide ==
    ASSUME OskTypeOK, Ending, NEW h \in Hiders, HideScript(h) \/ (h \in Hides /\ HideCall(h))
    PROVE  Ending'
<1> USE OskAssumption DEF Ending, LastHide, Hiders
<1>1. UNCHANGED <<supervisor, stray>>
    BY DEF HideScript, HideCall, Unclaim, Stop, Kill, Unlink, Tree, Braces, HideStep, watch
<1>2. CASE supervisor # "off"
    <2>1. h # "session" /\ LastHide = "idle"
        BY <1>2 DEF HideScript, HideCall, Unclaim, Stop, Kill, Unlink, Tree, Braces, HideStep
    <2>2. hide'["session"] = "idle"
        BY <2>1 DEF OskTypeOK, HideScript, HideCall, Unclaim, Stop, Kill, Unlink, Tree, Braces, HideStep,
           Stopping
    <2> QED
        BY <1>1, <1>2, <2>2
<1>3. CASE supervisor = "off"
    <2>1. h = "session" /\ HideScript(h)
        BY <1>3 DEF HideScript, HideCall, Unclaim, Stop, Kill, Unlink, Tree, Braces, HideStep
    <2>2. \A s \in Shows : show'[s] = "done"
        BY <1>3, <2>1 DEF HideScript, Unclaim, Stop, Kill, Unlink, Tree, Braces, HideStep, Wrapped, Showing
    <2>3. \A g \in Hiders \ {"session"} : hide'[g] = "done"
        BY <1>3, <2>1 DEF OskTypeOK, HideScript, Unclaim, Stop, Kill, Unlink, Tree, Braces, HideStep,
           Stopping
    <2>4. CASE Unclaim(h)
        BY <1>1, <1>3, <2>1, <2>2, <2>3, <2>4 DEF Unclaim, HideStep, keyboards, OskTypeOK
    <2>5. CASE Stop(h)
        <3>1. hide'["session"] = (IF pidfile # 0 THEN "kill" ELSE "tree") /\ UNCHANGED pidfile /\ LastHide = "stop"
            BY <2>1, <2>5 DEF Stop, HideStep, oskFiles, OskTypeOK
        <3>2. alive' \subseteq alive
            BY <2>5 DEF Stop, Gone
        <3>3. pidfile = 0 /\ ~stray => alive = {}
            BY <1>3, <3>1 DEF OskTypeOK, K
        <3> QED
            BY <1>1, <1>3, <2>2, <2>3, <3>1, <3>2, <3>3
    <2>6. CASE Kill(h)
        <3>1. hide'["session"] = "unlink" /\ LastHide = "kill"
            BY <2>1, <2>6 DEF Kill, HideStep, OskTypeOK
        <3>2. alive' = alive \ {pidfile}
            BY <2>6, GoneEnds DEF Kill
        <3> QED
            BY <1>1, <1>3, <2>2, <2>3, <3>1, <3>2
    <2>7. CASE Unlink(h) \/ Tree(h)
        <3>1. hide'["session"] \in {"tree", "braces", "done"} /\ LastHide \in {"unlink",
           "tree"} /\ UNCHANGED alive
            BY <2>1, <2>7 DEF Unlink, Tree, HideStep, OskTypeOK, keyboards
        <3> QED
            BY <1>1, <1>3, <2>2, <2>3, <3>1
    <2>8. CASE Braces(h)
        <3>1. hide'["session"] = "done" /\ LastHide = "braces" /\ alive' \subseteq alive
            BY <2>1, <2>8 DEF Braces, Gone
        <3> QED
            BY <1>1, <1>3, <2>2, <2>3, <3>1
    <2> QED
        BY <2>1, <2>4, <2>5, <2>6, <2>7, <2>8 DEF HideScript
<1> QED
    BY <1>2, <1>3

LEMMA EndingWatch ==
    ASSUME OskTypeOK, Ending, Age \/ Supervise \/ Resume \/ End
    PROVE  Ending'
<1> USE OskAssumption DEF Ending, LastHide, Hiders
<1>1. CASE Age
    BY <1>1 DEF Age, scripts, keyboards, oskFiles
<1>2. CASE Supervise \/ Resume
    <2>1. supervisor # "off" /\ supervisor' # "off"
        BY <1>2 DEF Supervise, Resume
    <2>2. hide'["session"] = hide["session"]
        BY <1>2 DEF Supervise, Resume, OskTypeOK
    <2> QED
        BY <2>1, <2>2
<1>3. CASE End
    BY <1>3 DEF End, oskFiles, keyboards
<1> QED
    BY <1>1, <1>2, <1>3

(* A session leaves no keyboard behind, if at its end no keyboard ran but  *)
(* the registered one: for any number of overlapping calls.                *)
THEOREM NothingIsLeft == OskSpec => []EndLeavesNothing
<1>1. OskInit => OskTypeOK /\ Ending
    BY OskTypeInit DEF OskInit, Ending, LastHide, Hiders
<1>2. OskTypeOK /\ Ending /\ [OskNext]_oskVars => (OskTypeOK /\ Ending)'
    <2>1. Ending /\ UNCHANGED oskVars => Ending'
        BY DEF Ending, LastHide, oskVars, oskFiles, keyboards, scripts, watch
    <2> QED
        BY <2>1, OskTypeNext, EndingKeyboard, EndingShow, EndingHide, EndingWatch DEF OskNext,
           ShowScript, Hiders
<1>3. OskTypeOK /\ Ending => EndLeavesNothing
    BY DEF Ending, LastHide, EndLeavesNothing, OskTypeOK
<1> QED
    BY <1>1, <1>2, <1>3, PTL DEF OskSpec
=============================================================================
