---------------------------- MODULE LowerInput ----------------------------
(***************************************************************************)
(* Touch on the two panels of the RG DS, as bottomd handles it.            *)
(*                                                                         *)
(* bottomd owns the lower panel.  While the game is shown below, the lower *)
(* panel is forwarded to the game through a virtual device and the upper   *)
(* one drives the user interface: SELECT grabs it, a button of the INPUT   *)
(* page, which also flips, does not, and what Sway delivers of it then is  *)
(* left out.  One frame of the main loop is a sequence of steps: the page  *)
(* follows the game's screens, the flip, the reading of the panels, one    *)
(* report at a time, and one step per touch event of the interface.        *)
(*                                                                         *)
(* One finger per panel, slot 0, as the code reads it.  A report is one    *)
(* SYN frame of the kernel.  Fingers and buttons act between frames, which *)
(* is when the code can notice.  Panels can always be grabbed, writes to   *)
(* the virtual device succeed, and Sway obeys, except that it cannot map a *)
(* device it does not know yet.  The refresh of the mapping, due once a    *)
(* second, is in every frame.  CHAT taps change nothing here.              *)
(* Definitions ending in Bug are mutations, used by nothing here.          *)
(***************************************************************************)
EXTENDS Naturals, Sequences

CONSTANTS
    Spots,      \* where a finger may be: some tabs, and the halves of the page
    MaxEvents,  \* events one poll may hand over; 16 in the code
    MaxPresses, \* bound: times a finger goes down or moves
    MaxFlips,   \* bound: presses of SELECT
    MaxScreens, \* bound: screens the game opens
    ReadSize    \* bound: reports between two frames; one read returns 21 in the code

ASSUME InputAssumption ==
    /\ MaxEvents \in Nat \ {0}
    /\ ReadSize \in Nat /\ MaxPresses \in Nat /\ MaxFlips \in Nat /\ MaxScreens \in Nat

Pages == {"HUD", "ITEMS", "INPUT", "SETTINGS"}
Panels == {"top", "bottom"}
Reports == [kind : {"down", "move"}, at : Spots] \cup [kind : {"up"}, at : {"none"}]

ASSUME SpotsAssumption == Spots \subseteq Pages \cup {"left", "right"}

VARIABLES
    pc,        \* where the frame is: "top", "release", "flip", "poll" of the game's
               \* panel, "read" of the interface's, "events" or "exit"
    tabs,      \* the page layer: page, saved, auto, container, follow (g_auto_items)
    (* the panels *)
    finger,    \* a finger is on the panel
    queue,     \* reports the kernel holds for bottomd
    down,      \* PanelTouch.down
    grabbed,   \* pt_top is open; pt_bottom always is
    handed,    \* events the poll of the game's panel has handed over
    evs,       \* touch events of the interface still to be handled in this frame
    touch,     \* tch_active, tch_tab, tch_slider, tch_moved, tch_x0 and tch_x
    (* the flip *)
    select,    \* an unread press of SELECT
    below,     \* g_game_bottom
    forwarding, \* g_touch_mapped
    device,    \* the virtual device: "absent", "new", or "known" to Sway
    aim,       \* the output Sway maps it to
    contact,   \* g_down[0]: the game sees a finger
    (* history *)
    effect,    \* what the last event did
    began,     \* where the finger of the interface went down, and on which page
    driver,    \* the panel the interface was last read from
    cut,       \* a flip, a page change, a change of the panel read or an overflow
               \* came in the middle of a gesture
    lost,      \* the last read of the game's panel dropped reports
    byButton,  \* the last flip was made with the button of the INPUT page
    presses, flips, screens,
    opened     \* the page a screen of the game was opened over, while nobody chose another

ui == <<tabs, evs, touch, effect, began, driver, cut, opened>>
panel == <<finger, queue, down, grabbed, handed>>
flip == <<below, forwarding, device, aim, contact, byButton>>
inputBounds == <<presses, flips, screens>>
inputVars == <<pc, ui, panel, flip, select, lost, inputBounds>>

Idle == [active |-> FALSE, tab |-> FALSE, slider |-> FALSE, moved |-> FALSE,
         from |-> "none", at |-> "none"]
Nowhere == [at |-> "none", page |-> "none"]

InputInit ==
    /\ pc = "top"
    /\ tabs = [page |-> "HUD", saved |-> "HUD", auto |-> FALSE, container |-> FALSE, follow |-> TRUE]
    /\ finger = [p \in Panels |-> FALSE] /\ down = [p \in Panels |-> FALSE]
    /\ queue = [p \in Panels |-> <<>>] /\ grabbed = FALSE /\ handed = 0 /\ driver = "bottom"
    /\ evs = <<>> /\ touch = Idle
    /\ select = FALSE /\ below = FALSE /\ forwarding = FALSE
    /\ device = "absent" /\ aim = "none" /\ contact = FALSE
    /\ effect = "none" /\ began = Nowhere /\ cut = FALSE /\ lost = FALSE /\ byButton = FALSE
    /\ opened = "none" /\ presses = 0 /\ flips = 0 /\ screens = 0

(***************************************************************************)
(* The player, the kernel and Sway.                                        *)
(***************************************************************************)

Owned(p) == p = "bottom" \/ grabbed
Report(p, k, s) ==
    /\ pc = "top" /\ Len(queue["top"]) + Len(queue["bottom"]) < ReadSize
    /\ queue' = IF Owned(p) THEN [queue EXCEPT ![p] = Append(@, [kind |-> k, at |-> s])] ELSE queue
    /\ UNCHANGED <<pc, ui, flip, down, grabbed, handed, select, lost, flips, screens>>

Press(p) ==
    /\ ~finger[p] /\ presses < MaxPresses
    /\ finger' = [finger EXCEPT ![p] = TRUE] /\ presses' = presses + 1
    /\ \E s \in Spots : Report(p, "down", s)
Slide(p) ==
    /\ finger[p] /\ presses < MaxPresses
    /\ presses' = presses + 1 /\ UNCHANGED finger
    /\ \E s \in Spots : Report(p, "move", s)
Lift(p) ==
    /\ finger[p] /\ finger' = [finger EXCEPT ![p] = FALSE] /\ UNCHANGED presses
    /\ Report(p, "up", "none")

PressSelect ==
    /\ pc = "top" /\ flips < MaxFlips
    /\ select' = TRUE /\ flips' = flips + 1
    /\ UNCHANGED <<pc, ui, panel, flip, lost, presses, screens>>

Enumerate ==
    /\ pc = "top" /\ device = "new" /\ device' = "known"
    /\ UNCHANGED <<pc, ui, panel, below, forwarding, aim, contact, byButton, select, lost, inputBounds>>

(***************************************************************************)
(* The head of a frame.                                                    *)
(***************************************************************************)

pages_containerBug(t, open) ==
    IF open /\ t.follow THEN [t EXCEPT !.saved = t.page, !.auto = TRUE, !.page = "ITEMS", !.container = open]
    ELSE IF ~open /\ t.container
    THEN [t EXCEPT !.page = IF t.auto /\ @ = "ITEMS" THEN t.saved ELSE @, !.auto = FALSE, !.container = open]
    ELSE [t EXCEPT !.container = open]
pages_container(t, open) ==
    IF open /\ ~t.container /\ t.follow
    THEN [t EXCEPT !.saved = t.page, !.auto = TRUE, !.page = "ITEMS", !.container = open]
    ELSE IF ~open /\ t.container
    THEN [t EXCEPT !.page = IF t.auto /\ @ = "ITEMS" THEN t.saved ELSE @, !.auto = FALSE, !.container = open]
    ELSE [t EXCEPT !.container = open]

Known(output) == device = "known" /\ aim' = output
MapTo(output) ==   \* sway("input ... map_to_output ...")
    \/ Known(output) /\ forwarding' = TRUE
    \/ device # "known" /\ forwarding' = FALSE /\ UNCHANGED aim

AfterRelease == pc' = IF select THEN "flip" ELSE "poll"

(* screenflip_refresh_touch, and the page layer's view of the container    *)
(* flag.  moving: the player has moved for a second.                       *)
Sample == \E open \in BOOLEAN, moving \in BOOLEAN :
    /\ pc = "top"
    /\ IF moving /\ ~open THEN pc' = "release" ELSE AfterRelease
    /\ IF below /\ ~forwarding THEN MapTo("bottom") ELSE UNCHANGED <<forwarding, aim>>
    /\ screens' = IF open /\ ~tabs.container THEN screens + 1 ELSE screens
    /\ screens' <= MaxScreens
    /\ tabs' = pages_container(tabs, open)
    /\ opened' = IF open /\ ~tabs.container THEN IF tabs.follow THEN tabs.page ELSE "none"
                 ELSE IF open THEN opened ELSE "none"
    /\ cut' = (cut \/ (touch.active /\ tabs'.page # tabs.page))
    /\ effect' = "none"
    /\ UNCHANGED <<evs, touch, began, driver, panel, below, device, contact, byButton, select, lost, presses, flips>>

(* pages_auto_release, when the player has moved for a second and the game *)
(* shows no screen of its own.                                             *)
Release ==
    /\ pc = "release" /\ AfterRelease
    /\ tabs' = IF tabs.page = "ITEMS"
               THEN [tabs EXCEPT !.page = IF tabs.saved = "ITEMS" THEN "HUD" ELSE tabs.saved,
                                 !.auto = FALSE]
               ELSE tabs
    /\ cut' = (cut \/ (touch.active /\ tabs'.page # tabs.page))
    /\ UNCHANGED <<evs, touch, effect, began, driver, opened, panel, flip, select, lost, inputBounds>>

(* screenflip_toggle: the mapping and the windows.                         *)
screenflip_toggleBug ==
    /\ below' = ~below
    /\ forwarding' = TRUE /\ aim' = IF device = "known" THEN IF below' THEN "bottom" ELSE "top" ELSE aim
screenflip_toggle ==
    /\ below' = ~below
    /\ MapTo(IF below' THEN "bottom" ELSE "top")

(* SELECT: the game's finger is lifted first, the virtual device exists    *)
(* before it is mapped, and the upper panel follows; reports it held       *)
(* before it was grabbed are thrown away.                                  *)
FlipBug ==
    /\ pc = "flip" /\ pc' = "poll" /\ select' = FALSE
    /\ UNCHANGED <<contact, lost>> /\ byButton' = FALSE
    /\ device' = IF device = "absent" /\ ~below THEN "new" ELSE device
    /\ screenflip_toggle
    /\ grabbed' = below'
    /\ queue' = IF grabbed' # grabbed THEN [queue EXCEPT !["top"] = <<>>] ELSE queue
    /\ down' = IF grabbed' # grabbed THEN [down EXCEPT !["top"] = FALSE] ELSE down
    /\ cut' = (cut \/ touch.active)
    /\ UNCHANGED <<tabs, evs, touch, effect, began, driver, opened, finger, handed, inputBounds>>
Flip ==
    /\ pc = "flip" /\ pc' = "poll" /\ select' = FALSE
    /\ contact' = FALSE /\ byButton' = FALSE /\ lost' = FALSE
    /\ device' = IF device = "absent" /\ ~below THEN "new" ELSE device
    /\ screenflip_toggle
    /\ grabbed' = below'
    /\ queue' = IF grabbed' # grabbed THEN [queue EXCEPT !["top"] = <<>>] ELSE queue
    /\ down' = IF grabbed' # grabbed THEN [down EXCEPT !["top"] = FALSE] ELSE down
    /\ cut' = (cut \/ touch.active)
    /\ UNCHANGED <<tabs, evs, touch, effect, began, driver, opened, finger, handed, inputBounds>>

(***************************************************************************)
(* Reading the panels.                                                     *)
(***************************************************************************)

(* What paneltouch_poll makes of a report.  Once MaxEvents events have been *)
(* handed over, the rest of the buffer is dropped.                         *)
Seen(kind, isDown) ==
    IF kind = "up" THEN IF isDown THEN "UP" ELSE "none"
    ELSE IF isDown THEN "MOTION"
    ELSE IF kind = "down" THEN "DOWN" ELSE "none"
Type(p) == Seen(Head(queue[p]).kind, down[p])

NextReport(p) == queue[p] # <<>> /\ queue' = [queue EXCEPT ![p] = Tail(@)]
Taken(p) == Type(p) # "none" /\ down' = [down EXCEPT ![p] = Type(p) # "UP"]
Ignored(p) == Type(p) = "none" /\ UNCHANGED down

(* touchfwd_down and touchfwd_up. *)
ForwardBug(type) == contact' = IF type = "DOWN" THEN TRUE ELSE contact
Forward(type) == contact' = IF type = "DOWN" THEN TRUE ELSE IF type = "UP" THEN FALSE ELSE contact

(* The panel below the game's picture, before the other one. *)
PollGame ==
    /\ pc = "poll" /\ below /\ NextReport("bottom")
    /\ \/ handed = MaxEvents /\ lost' = TRUE /\ UNCHANGED <<handed, down, device, contact>>
       \/ handed < MaxEvents /\ Ignored("bottom") /\ UNCHANGED <<handed, device, contact, lost>>
       \/ /\ handed < MaxEvents /\ Taken("bottom") /\ Forward(Type("bottom"))
          /\ handed' = handed + 1 /\ lost' = FALSE
          /\ device' = IF device = "absent" /\ Type("bottom") = "DOWN" THEN "new" ELSE device
    /\ UNCHANGED <<pc, ui, finger, grabbed, below, forwarding, aim, byButton, select, inputBounds>>

Source == IF below THEN "top" ELSE "bottom"

GamePolled ==
    /\ pc = "poll" /\ (below => queue["bottom"] = <<>>)
    /\ pc' = "read" /\ handed' = 0
    /\ driver' = Source /\ cut' = (cut \/ (touch.active /\ driver # Source))
    /\ UNCHANGED <<tabs, evs, touch, effect, began, opened, finger, queue, down, grabbed, flip, select, lost, inputBounds>>

PollInterface ==
    /\ pc = "read" /\ NextReport(Source)
    /\ \/ Len(evs) = MaxEvents /\ cut' = TRUE /\ UNCHANGED <<evs, down>>
       \/ Len(evs) < MaxEvents /\ Ignored(Source) /\ UNCHANGED <<evs, cut>>
       \/ /\ Len(evs) < MaxEvents /\ Taken(Source)
          /\ evs' = Append(evs, [type |-> Type(Source), at |-> Head(queue[Source]).at])
          /\ UNCHANGED cut
    /\ UNCHANGED <<pc, tabs, touch, effect, began, driver, opened, finger, grabbed, handed, flip, select, lost, inputBounds>>

InterfaceRead ==
    /\ pc = "read" /\ queue[Source] = <<>>
    /\ pc' = "events"
    /\ UNCHANGED <<ui, panel, flip, select, lost, inputBounds>>

(***************************************************************************)
(* The gestures of the interface, one event at a time.                     *)
(***************************************************************************)

Event(type) == pc = "events" /\ evs # <<>> /\ Head(evs).type = type
Spot == Head(evs).at
Done(e) == effect' = e /\ evs' = Tail(evs) /\ UNCHANGED <<pc, driver, panel, select, lost, device, contact, inputBounds>>
Unflipped == UNCHANGED <<below, forwarding, aim, byButton>>
Rest == Unflipped /\ UNCHANGED <<tabs, opened>>

(* pages_set: even the page that is shown already ends the automatic one.  *)
pages_set(p) == tabs' = [tabs EXCEPT !.page = p, !.auto = FALSE] /\ opened' = "none"

Began == began' = [at |-> Spot, page |-> tabs.page]
(* Only the HUD clears tch_slider: it outlives a gesture that another page *)
(* or the tab strip ends.                                                  *)
Ended(slider) == touch' = [Idle EXCEPT !.slider = slider] /\ began' = Nowhere /\ cut' = FALSE
StartGesture == [touch EXCEPT !.active = TRUE, !.from = Spot, !.at = Spot]

TabDownBug ==
    /\ Event("DOWN") /\ ~touch.active /\ Spot \in Pages
    /\ touch' = StartGesture /\ Began /\ Done("none")
    /\ UNCHANGED cut /\ Rest
TabDown ==
    /\ Event("DOWN") /\ ~touch.active /\ Spot \in Pages
    /\ touch' = [StartGesture EXCEPT !.tab = TRUE] /\ Began /\ Done("none")
    /\ UNCHANGED cut /\ Rest

TabMove ==
    /\ Event("MOTION") /\ touch.tab
    /\ touch' = [touch EXCEPT !.at = Spot] /\ Done("none")
    /\ UNCHANGED <<began, cut>> /\ Rest

(* The tab changes when the finger is lifted where it went down.           *)
TabUp ==
    /\ Event("UP") /\ touch.tab /\ Ended(touch.slider) /\ Unflipped
    /\ \/ touch.from = touch.at /\ pages_set(touch.from) /\ Done("tab")
       \/ touch.from # touch.at /\ Done("none") /\ UNCHANGED <<tabs, opened>>

(* A finger that goes down while a gesture is open is not its start.       *)
DownIgnored ==
    /\ Event("DOWN") /\ touch.active
    /\ Began /\ Done("none") /\ UNCHANGED <<touch, cut>> /\ Rest

PageDown ==
    /\ Event("DOWN") /\ ~touch.active /\ Spot \notin Pages /\ tabs.page # "HUD"
    /\ touch' = StartGesture /\ Began /\ Done("none")
    /\ UNCHANGED cut /\ Rest

PageMove ==
    /\ Event("MOTION") /\ touch.active /\ ~touch.tab /\ tabs.page # "HUD"
    /\ touch' = [touch EXCEPT !.at = Spot, !.moved = @ \/ Spot # touch.from] /\ Done("none")
    /\ UNCHANGED <<began, cut>> /\ Rest

(* handle_page_tap: ITEMS, the two switches this state knows, and the      *)
(* buttons of INPUT, one of which flips the screens.                       *)
PageTap(s) ==
    \/ tabs.page = "INPUT" /\ s = "left"
       /\ screenflip_toggle /\ byButton' = TRUE /\ UNCHANGED <<tabs, opened>>
    \/ tabs.page = "INPUT" /\ s = "right" /\ pages_set("HUD") /\ Unflipped
    \/ tabs.page = "SETTINGS" /\ s = "left" /\ Unflipped
       /\ tabs' = [tabs EXCEPT !.follow = ~@, !.auto = @ /\ ~tabs.follow]
       /\ opened' = "none"
    \/ tabs.page = "SETTINGS" /\ s # "left" /\ Rest
    \/ tabs.page = "INPUT" /\ s \notin {"left", "right"} /\ Rest
    \/ tabs.page = "ITEMS" /\ Rest

PageUp ==
    /\ Event("UP") /\ touch.active /\ ~touch.tab /\ tabs.page # "HUD" /\ Ended(touch.slider)
    /\ \/ ~touch.moved /\ PageTap(touch.from) /\ Done("tap")
       \/ touch.moved /\ Rest /\ Done("none")

(* On the HUD the right half stands for the zoom slider.                   *)
HudDown ==
    /\ Event("DOWN") /\ ~touch.active /\ Spot \notin Pages /\ tabs.page = "HUD"
    /\ touch' = [StartGesture EXCEPT !.slider = Spot = "right"] /\ Began
    /\ Done(IF Spot = "right" THEN "zoom" ELSE "none")
    /\ UNCHANGED cut /\ Rest

HudMove ==
    /\ Event("MOTION") /\ touch.active /\ ~touch.tab /\ tabs.page = "HUD"
    /\ UNCHANGED <<began, cut>> /\ Rest
    /\ \/ touch.slider /\ touch' = [touch EXCEPT !.at = Spot] /\ Done("zoom")
       \/ /\ ~touch.slider
          /\ touch' = [touch EXCEPT !.at = Spot, !.moved = @ \/ Spot # touch.from]
          /\ Done(IF touch'.moved THEN "pan" ELSE "none")

(* A tap on the map centres it or toggles a waypoint.                      *)
HudUp ==
    /\ Event("UP") /\ touch.active /\ ~touch.tab /\ tabs.page = "HUD" /\ Ended(FALSE) /\ Rest
    /\ Done(IF ~touch.moved /\ ~touch.slider /\ touch.from \notin Pages THEN "map" ELSE "none")

Stray ==
    /\ \/ Event("MOTION") \/ Event("UP")
    /\ ~touch.active
    /\ Done("none") /\ UNCHANGED <<touch, began, cut>> /\ Rest

FrameEnd ==
    /\ pc = "events" /\ evs = <<>> /\ pc' = "top" /\ effect' = "none"
    /\ UNCHANGED <<tabs, evs, touch, began, driver, cut, opened, panel, flip, select, lost, inputBounds>>

(* SIGTERM ends the loop: windows back, panels released, device destroyed; *)
(* the rest of the state dies with the process.                            *)
Exit ==
    /\ pc = "top" /\ pc' = "exit"
    /\ below' = FALSE /\ forwarding' = FALSE /\ aim' = "none" /\ device' = "absent"
    /\ contact' = FALSE /\ byButton' = FALSE /\ lost' = FALSE /\ grabbed' = FALSE /\ select' = FALSE
    /\ down' = [p \in Panels |-> FALSE] /\ queue' = [p \in Panels |-> <<>>]
    /\ touch' = Idle /\ began' = Nowhere /\ cut' = FALSE
    /\ UNCHANGED <<tabs, evs, effect, driver, opened, finger, handed, inputBounds>>

Frame ==
    \/ Sample \/ Release \/ Flip \/ PollGame \/ GamePolled \/ PollInterface \/ InterfaceRead \/ FrameEnd
    \/ TabDown \/ TabMove \/ TabUp \/ DownIgnored \/ Stray
    \/ PageDown \/ PageMove \/ PageUp \/ HudDown \/ HudMove \/ HudUp

Player == PressSelect \/ \E p \in Panels : Press(p) \/ Slide(p) \/ Lift(p)

InputNext == Frame \/ Player \/ Enumerate \/ Exit

InputSpec == InputInit /\ [][InputNext]_inputVars

(* The main loop runs, and Sway notices a new device in the end.           *)
InputFairSpec == InputSpec /\ WF_inputVars(Frame) /\ SF_inputVars(Enumerate)

(***************************************************************************)
(* Properties.                                                             *)
(***************************************************************************)

(* bottomd.c: never flip with a finger held.  After SELECT the game never  *)
(* keeps a finger that bottomd will not lift: one is only down while the   *)
(* lower panel is forwarded.                                               *)
ContactIsForwarded == contact => below \/ byButton

(* A finger lifted from the lower panel is lifted in the game by the frame *)
(* that reads the panel next, unless the read that held it overflowed.     *)
LiftReachesGame ==
    pc = "events" /\ below /\ contact => finger["bottom"] \/ lost \/ byButton

(* While the game stays below and the virtual device exists, Sway comes to *)
(* map it to the lower output, however early the flip was.                 *)
InjectorIsAimed ==
    <>[](below /\ device # "absent") => <>[](aim = "bottom")

(* An event does what its finger began: a tab, a tap on the page it went   *)
(* down on, the slider, or the map, unless the screens or the page changed *)
(* under the finger, the interface is read from the other panel since, or  *)
(* a read overflowed.                                                      *)
GestureStaysWhereItBegan ==
    [][pc = "events" /\ evs # <<>> /\ effect' # "none" /\ ~cut /\ began # Nowhere =>
        /\ effect' = "tab" => began.at \in Pages /\ tabs'.page = began.at
        /\ effect' # "tab" => began.at \notin Pages /\ began.page = tabs.page
        /\ effect' = "zoom" => began.at = "right"
        /\ effect' \in {"pan", "map"} => began.at = "left"]_inputVars

(* When the game's screen closes, the page it had covered comes back, if   *)
(* the player has chosen no page since and the setting was not changed.    *)
ClosingRestores ==
    [][Sample /\ tabs.container /\ ~tabs'.container /\ opened # "none" => tabs'.page = opened]_inputVars
=============================================================================
