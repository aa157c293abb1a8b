--------------------------- MODULE CompanionMove ---------------------------
(***************************************************************************)
(* An inventory move tapped on the lower screen of the RG DS.              *)
(*                                                                         *)
(* bottomd (a process of its own) writes one command to shared memory and  *)
(* presses the inventory key, because the server only takes a move while   *)
(* the native inventory screen is open.  The bridge, called on the game    *)
(* thread by the HUD tick and by every frame, queues the command, submits  *)
(* it once the HUD has been silent for 100 ms, predicts its result in the  *)
(* local inventory, and confirms it or rolls it back.  bottomd sees the    *)
(* acknowledgement and presses the key again; meanwhile the upper screen   *)
(* shows a cached gameplay frame.                                          *)
(*                                                                         *)
(* Durations are flags that time may raise.  The behaviours start after    *)
(* the first HUD tick, with the hooks installed, and the object guards     *)
(* hold: the world is not left.  The seqlocks of both shared records are   *)
(* taken as atomic, and Craft and Chat commands are left out.              *)
(* Definitions ending in Bug are mutations, used by nothing here.          *)
(***************************************************************************)
EXTENDS Naturals, Sequences

CONSTANTS
    Slots, Items, NoItem,
    MaxMoves,      \* bound: moves the player taps
    MaxChanges,    \* bound: slot changes the server makes by itself
    MaxOwn,        \* bound: moves the player makes in the native screen
    MaxPresses,    \* bound: inventory or menu presses of the player
    KeyCanFail,    \* writing to uinput may fail
    SlowServer,    \* an answer may take longer than the 5 s deadline
    SlowFrames     \* a frame may take longer than the 30 ms a key is held,
                   \* and than the 100 ms that tell an absent HUD

ASSUME ItemsAssumption == NoItem \in Items
ASSUME BoundsAssumption ==
    /\ MaxMoves \in Nat /\ MaxChanges \in Nat /\ MaxOwn \in Nat /\ MaxPresses \in Nat
ASSUME SwitchesAssumption == {KeyCanFail, SlowServer, SlowFrames} \subseteq BOOLEAN

VARIABLES
    (* bottomd *)
    ctx,       \* g_inventory_context_command; 0 when none
    key,       \* the inventory key: about to be pressed, or held after a move
    (* shared memory *)
    command,   \* the McpeCompanionCommand record
    ack,       \* command_ack
    result,    \* command_result
    busy,      \* MCPE_CS_COMMAND_BUSY
    shown,     \* the published slots
    (* the bridge *)
    last,      \* g_last_command_seq
    ready,     \* g_pending_move.ready
    pending,   \* g_pending_move.command
    conf,      \* g_move_confirmation
    heard,     \* the last response since the submission
    frozen,    \* g_native_move_context, and its release timer
    quiet,     \* no HUD tick for 100 ms
    ticked,    \* a HUD tick since the last swap
    (* the game and the server *)
    gpc,       \* where the game thread is in its frame
    screen,    \* what the game shows
    keys,      \* key presses of bottomd on their way to the game
    local,     \* the client's inventory
    own,       \* an own request of the player is open
    wire,      \* requests on their way to the server
    answers,   \* messages on their way back
    server,    \* the server's inventory
    (* history *)
    accepted,  \* the bridge's moves the server accepted
    reported,  \* the moves acknowledged as done
    changes, owns, presses

bottomd == <<ctx, key>>
status == <<ack, result, busy, reported>>
bridge == <<last, ready, pending, conf, heard, frozen, quiet, ticked>>
game == <<gpc, screen, keys, local, own>>
net == <<wire, answers, server, accepted>>
history == <<changes, owns, presses>>
vars == <<bottomd, command, status, shown, bridge, game, net, history>>

Moves == 0 .. MaxMoves
Inventory == [Slots -> Items]
Command == [no : Moves, from : Slots, to : Slots]
Confirmation ==
    [active : {TRUE}, no : Moves, from : Slots, to : Slots,
     oldFrom : Items, oldTo : Items,         \* the snapshots a rollback restores
     wantFrom : Items, wantTo : Items,       \* what a confirmation has to show
     matched : BOOLEAN, held : BOOLEAN, expired : BOOLEAN]
NoConfirmation == [active |-> FALSE]
Request == [by : {"bridge", "player"}, no : Moves, from : Slots, to : Slots,
            fromItem : Items, toItem : Items]
Answer == [kind : {"answer"}, ok : BOOLEAN, request : Request]
Update == [kind : {"update"}, slot : Slots, item : Items]

TypeOK ==
    /\ ctx \in Moves /\ key \in {"free", "wanted", "held"}
    /\ command \in Command
    /\ ack \in Moves /\ result \in {"none", "ok", "invalid", "busy"} /\ busy \in BOOLEAN
    /\ shown \in Inventory
    /\ last \in Moves /\ ready \in BOOLEAN /\ pending \in Command
    /\ conf \in Confirmation \cup {NoConfirmation}
    /\ heard \in {"none", "ok", "rejected"}
    /\ frozen \in {"no", "yes", "releasing", "due"}
    /\ quiet \in BOOLEAN /\ ticked \in BOOLEAN
    /\ gpc \in {"tick", "command", "context", "top"}
    /\ screen \in {"hud", "inventory", "menu"}
    /\ keys \in Nat
    /\ local \in Inventory /\ own \in BOOLEAN
    /\ wire \in Seq(Request) /\ answers \in Seq(Answer \cup Update)
    /\ server \in Inventory
    /\ accepted \in SUBSET Moves /\ reported \in SUBSET Moves
    /\ changes \in 0 .. MaxChanges /\ owns \in 0 .. MaxOwn /\ presses \in 0 .. MaxPresses

Swapped(inv, a, b) == [inv EXCEPT ![a] = inv[b], ![b] = inv[a]]
Restored(inv, a, x, b, y) == [inv EXCEPT ![a] = x, ![b] = y]

Init ==
    \E inv \in Inventory, s \in Slots :
        /\ ctx = 0 /\ key = "free"
        /\ command = [no |-> 0, from |-> s, to |-> s]
        /\ ack = 0 /\ result = "none" /\ busy = FALSE
        /\ shown = inv /\ local = inv /\ server = inv
        /\ last = 0 /\ ready = FALSE /\ pending = command
        /\ conf = NoConfirmation
        /\ heard = "none" /\ frozen = "no" /\ quiet = FALSE /\ ticked = FALSE
        /\ gpc = "tick" /\ screen = "hud" /\ keys = 0 /\ own = FALSE
        /\ wire = <<>> /\ answers = <<>>
        /\ accepted = {} /\ reported = {}
        /\ changes = 0 /\ owns = 0 /\ presses = 0

----------------------------------------------------------------------------
(* bottomd. *)

(* The second tap on the Items page: companion_send.  The slot tapped      *)
(* first held a stack when it was tapped; it may be empty by now.          *)
(* bottomd sleeps while it holds the key that ends a move.                 *)
Awake == key = "free" \/ (key = "held" /\ SlowFrames)
TapAnytimeBug == Awake
MayTap == ctx = 0 /\ Awake

Tap ==
    /\ MayTap
    /\ command.no < MaxMoves
    /\ \E a \in Slots, b \in Slots :
          command' = [no |-> command.no + 1, from |-> a, to |-> b]
    /\ ctx' = command'.no
    /\ key' = "wanted"
    /\ UNCHANGED <<status, shown, bridge, game, net, history>>

PressKey == keys' = keys + 1 \/ (KeyCanFail /\ keys' = keys)

OpenContext ==
    /\ key = "wanted"
    /\ key' = "free"
    /\ PressKey
    /\ UNCHANGED <<ctx, command, status, shown, bridge, gpc, screen, local, own, net, history>>

(* The main loop sees the acknowledgement. *)
Answered == ack >= ctx /\ ~busy

CloseContext ==
    /\ ctx # 0 /\ key # "wanted" /\ Answered
    /\ ctx' = 0
    /\ key' = "held"
    /\ PressKey
    /\ UNCHANGED <<command, status, shown, bridge, gpc, screen, local, own, net, history>>

----------------------------------------------------------------------------
(* The bridge. *)

BusyKeptBug(no, res) ==
    /\ ack' = IF ack <= no THEN no ELSE ack
    /\ result' = IF ack <= no THEN res ELSE result
    /\ reported' = IF res = "ok" THEN reported \cup {no} ELSE reported
    /\ UNCHANGED busy

Finish(no, res) ==
    /\ ack' = IF ack <= no THEN no ELSE ack
    /\ result' = IF ack <= no THEN res ELSE result
    /\ reported' = IF res = "ok" THEN reported \cup {no} ELSE reported
    /\ busy' = FALSE

ResponseIgnoredBug(inv) == inv[conf.from] = conf.wantFrom /\ inv[conf.to] = conf.wantTo

Matches(inv) ==
    /\ heard = "ok"
    /\ inv[conf.from] = conf.wantFrom /\ inv[conf.to] = conf.wantTo

Confirmable(inv) == Matches(inv) /\ conf.matched /\ conf.held /\ ~own

FailsConfirmation(inv) == heard = "rejected" \/ (conf.expired /\ ~Confirmable(inv))

PredictionKeptBug == UNCHANGED local
Rollback == local' = Restored(local, conf.from, conf.oldFrom, conf.to, conf.oldTo)

(* check_move_confirmation, on the slots just published. *)
CheckConfirmation(inv) ==
    \/ ~conf.active /\ UNCHANGED <<conf, heard, local, status>>
    \/ /\ conf.active /\ FailsConfirmation(inv)
       /\ Rollback
       /\ Finish(conf.no, "invalid")
       /\ conf' = NoConfirmation /\ heard' = "none"
    \/ /\ conf.active /\ ~FailsConfirmation(inv) /\ Confirmable(inv)
       /\ Finish(conf.no, "ok")
       /\ conf' = NoConfirmation /\ heard' = "none"
       /\ UNCHANGED local
    \/ /\ conf.active /\ ~FailsConfirmation(inv) /\ ~Confirmable(inv)
       /\ conf' = [conf EXCEPT !.matched = Matches(inv), !.held = @ /\ Matches(inv)]
       /\ UNCHANGED <<heard, local, status>>

(* hooked_hud_tick. *)
HudTick ==
    /\ gpc = "tick" /\ screen = "hud"
    /\ gpc' = "command"
    /\ quiet' = FALSE /\ ticked' = TRUE
    /\ shown' = local
    /\ CheckConfirmation(local)
    /\ UNCHANGED <<bottomd, command, last, ready, pending, frozen, screen, keys, own, net, history>>

OtherTick ==
    /\ gpc = "tick" /\ screen # "hud"
    /\ gpc' = "command"
    /\ UNCHANGED <<bottomd, command, status, shown, bridge, screen, keys, local, own, net, history>>

(* process_command. *)
NewCommand == command.no # last

QueueMove ==
    /\ pending' = command /\ ready' = TRUE
    /\ frozen' = "yes"
    /\ result' = "none" /\ busy' = TRUE
    /\ UNCHANGED <<ack, reported>>

RefuseBusy ==
    /\ ack' = command.no /\ result' = "busy"
    /\ UNCHANGED <<ready, pending, frozen, busy, reported>>

ProcessCommand ==
    /\ gpc = "command" /\ gpc' = "context"
    /\ IF NewCommand
       THEN last' = command.no /\ IF ready \/ conf.active THEN RefuseBusy ELSE QueueMove
       ELSE UNCHANGED <<last, ready, pending, frozen, status>>
    /\ UNCHANGED <<bottomd, command, shown, conf, heard, quiet, ticked, screen, keys, local, own, net, history>>

(* execute_move up to the point of no return: whatever it refuses or fails *)
(* to build it gives back unchanged.                                       *)
MoveRefused ==
    /\ Finish(pending.no, IF conf.active \/ own THEN "busy" ELSE "invalid")
    /\ UNCHANGED <<conf, heard, local, wire>>

(* The prediction, the snapshots, and the request.  What a confirmation    *)
(* has to show comes from the slots published last.                        *)
SubmitMove ==
    LET a == pending.from
        b == pending.to
    IN  /\ ~conf.active /\ ~own
        /\ a # b /\ local[a] # NoItem
        /\ local' = Swapped(local, a, b)
        /\ conf' = [active |-> TRUE, no |-> pending.no, from |-> a, to |-> b,
                    oldFrom |-> local[a], oldTo |-> local[b],
                    wantFrom |-> shown[b], wantTo |-> shown[a],
                    matched |-> FALSE, held |-> FALSE, expired |-> FALSE]
        /\ heard' = "none"
        /\ wire' = Append(wire, [by |-> "bridge", no |-> pending.no, from |-> a, to |-> b,
                                 fromItem |-> local[a], toItem |-> local[b]])
        /\ UNCHANGED status

(* process_native_inventory_context.  The key bottomd holds is up again.    *)
KeyIsUp == key' = IF key = "held" THEN "free" ELSE key

InContext == quiet

NotQuiet ==
    /\ gpc = "context" /\ ~InContext
    /\ gpc' = "top"
    /\ KeyIsUp
    /\ UNCHANGED <<ctx, command, status, shown, bridge, screen, keys, local, own, net, history>>

TakePending ==
    /\ gpc = "context" /\ InContext /\ ready
    /\ gpc' = "top" /\ ready' = FALSE
    /\ KeyIsUp
    /\ MoveRefused \/ SubmitMove
    /\ shown' = local'
    /\ UNCHANGED <<ctx, command, last, pending, frozen, quiet, ticked, screen, keys, own,
                   answers, server, accepted, changes, owns, presses>>

CheckInContext ==
    /\ gpc = "context" /\ InContext /\ ~ready
    /\ gpc' = "top"
    /\ KeyIsUp
    /\ shown' = local
    /\ CheckConfirmation(local)
    /\ UNCHANGED <<ctx, command, last, ready, pending, frozen, quiet, ticked,
                   screen, keys, own, net, history>>

(* mcpe_companion_top_frame_action. *)
Idle == ~ready /\ ~conf.active /\ ~busy

TopFrame ==
    /\ gpc = "top" /\ gpc' = "tick"
    /\ ticked' = FALSE
    /\ frozen' = CASE frozen = "yes" /\ Idle            -> "releasing"
                   [] frozen = "due" /\ Idle /\ ticked  -> "no"
                   [] OTHER                             -> frozen
    /\ UNCHANGED <<bottomd, command, status, shown, last, ready, pending, conf, heard, quiet,
                   screen, keys, local, own, net, history>>

----------------------------------------------------------------------------
(* Time. *)

SilentHud ==
    /\ ~quiet /\ (screen # "hud" \/ (SlowFrames /\ gpc = "context"))
    /\ quiet' = TRUE
    /\ UNCHANGED <<bottomd, command, status, shown, last, ready, pending, conf, heard, frozen,
                   ticked, game, net, history>>

MatchHeld ==
    /\ conf.active /\ conf.matched /\ ~conf.held
    /\ conf' = [conf EXCEPT !.held = TRUE]
    /\ UNCHANGED <<bottomd, command, status, shown, last, ready, pending, heard, frozen, quiet,
                   ticked, game, net, history>>

Unanswered ==
    \/ \E i \in 1 .. Len(wire) : wire[i].by = "bridge" /\ wire[i].no = conf.no
    \/ \E i \in 1 .. Len(answers) :
          answers[i].kind = "answer" /\ answers[i].request.by = "bridge" /\ answers[i].request.no = conf.no

(* With a prompt server the deadline is only reached when the slots do not *)
(* show what they should.                                                  *)
Deadline ==
    /\ conf.active /\ ~conf.expired
    /\ SlowServer \/ (~Unanswered /\ heard = "ok" /\ ~Matches(local))
    /\ conf' = [conf EXCEPT !.expired = TRUE]
    /\ UNCHANGED <<bottomd, command, status, shown, last, ready, pending, heard, frozen, quiet,
                   ticked, game, net, history>>

ReleaseDue ==
    /\ frozen = "releasing"
    /\ frozen' = "due"
    /\ UNCHANGED <<bottomd, command, status, shown, last, ready, pending, conf, heard, quiet,
                   ticked, game, net, history>>

----------------------------------------------------------------------------
(* The game, the player and the server. *)

ToggledScreen == CASE screen = "hud" -> "inventory" [] screen = "inventory" -> "hud" [] OTHER -> screen

KeyArrives ==
    /\ gpc = "tick" /\ keys > 0
    /\ keys' = keys - 1 /\ screen' = ToggledScreen
    /\ UNCHANGED <<bottomd, command, status, shown, bridge, gpc, local, own, net, history>>

PlayerPresses ==
    /\ gpc = "tick" /\ presses < MaxPresses
    /\ presses' = presses + 1
    /\ screen' \in {ToggledScreen, IF screen = "menu" THEN "hud" ELSE "menu"} \ {screen}
    /\ UNCHANGED <<bottomd, command, status, shown, bridge, gpc, keys, local, own, net,
                   changes, owns>>

(* The player moves a stack in the native screen: the game predicts too.   *)
PlayerOpensRequest ==
    /\ gpc = "tick" /\ screen = "inventory" /\ ~own /\ owns < MaxOwn
    /\ own' = TRUE /\ owns' = owns + 1
    /\ UNCHANGED <<bottomd, command, status, shown, bridge, gpc, screen, keys, local, net,
                   changes, presses>>

PlayerSendsRequest ==
    /\ gpc = "tick" /\ own
    /\ own' = FALSE
    /\ \E a \in Slots, b \in Slots :
          /\ a # b /\ local[a] # NoItem
          /\ local' = Swapped(local, a, b)
          /\ wire' = Append(wire, [by |-> "player", no |-> 0, from |-> a, to |-> b,
                                   fromItem |-> local[a], toItem |-> local[b]])
    /\ UNCHANGED <<bottomd, command, status, shown, bridge, gpc, screen, keys,
                   answers, server, accepted, history>>

(* The server may refuse any request, and refuses one whose stacks it does *)
(* not have.                                                               *)
ServerAnswers ==
    /\ wire # <<>>
    /\ LET r == Head(wire) IN
       \/ /\ server[r.from] = r.fromItem /\ server[r.to] = r.toItem
          /\ server' = Swapped(server, r.from, r.to)
          /\ answers' = Append(answers, [kind |-> "answer", ok |-> TRUE, request |-> r])
          /\ accepted' = IF r.by = "bridge" THEN accepted \cup {r.no} ELSE accepted
       \/ /\ answers' = Append(answers, [kind |-> "answer", ok |-> FALSE, request |-> r])
          /\ UNCHANGED <<server, accepted>>
    /\ wire' = Tail(wire)
    /\ UNCHANGED <<bottomd, command, status, shown, bridge, game, history>>

(* A stack is picked up, used up or handed out. *)
ServerChanges ==
    /\ changes < MaxChanges
    /\ \E s \in Slots : \E x \in Items \ {server[s]} :
          /\ server' = [server EXCEPT ![s] = x]
          /\ answers' = Append(answers, [kind |-> "update", slot |-> s, item |-> x])
    /\ changes' = changes + 1
    /\ UNCHANGED <<bottomd, command, status, shown, bridge, game, wire, accepted,
                   owns, presses>>

(* hooked_item_stack_response: the game handles its own requests, and the  *)
(* bridge notes that there was a response, and the result.                 *)
ReceiveAnswer ==
    /\ gpc = "tick" /\ answers # <<>> /\ Head(answers).kind = "answer"
    /\ LET r == Head(answers).request IN
       /\ heard' = CASE ~conf.active      -> heard
                     [] Head(answers).ok -> "ok"
                     [] OTHER            -> "rejected"
       /\ local' = IF r.by = "player" /\ ~Head(answers).ok
                   THEN Restored(local, r.from, r.fromItem, r.to, r.toItem) ELSE local
    /\ answers' = Tail(answers)
    /\ UNCHANGED <<bottomd, command, status, shown, last, ready, pending, conf, frozen, quiet, ticked,
                   gpc, screen, keys, own, wire, server, accepted, history>>

ReceiveUpdate ==
    /\ gpc = "tick" /\ answers # <<>> /\ Head(answers).kind = "update"
    /\ local' = [local EXCEPT ![Head(answers).slot] = Head(answers).item]
    /\ answers' = Tail(answers)
    /\ UNCHANGED <<bottomd, command, status, shown, bridge, gpc, screen, keys, own, wire, server,
                   accepted, history>>

Bottomd == OpenContext \/ CloseContext
Frame == HudTick \/ OtherTick \/ ProcessCommand \/ NotQuiet \/ TakePending \/ CheckInContext \/ TopFrame
Time == SilentHud \/ MatchHeld \/ Deadline \/ ReleaseDue
Network == ServerAnswers \/ ReceiveAnswer \/ ReceiveUpdate
Player == Tap \/ PlayerPresses \/ PlayerOpensRequest

Next == Player \/ Bottomd \/ Frame \/ Time \/ KeyArrives \/ PlayerSendsRequest \/ Network \/ ServerChanges

Spec == Init /\ [][Next]_vars

(* bottomd's loop and the game's frame loop run on; the game takes its     *)
(* input and its packets between frames, so an input is not missed for     *)
(* ever; time passes; the server answers.  The player need do nothing.     *)
Fairness ==
    /\ WF_vars(Bottomd) /\ WF_vars(Frame)
    /\ WF_vars(SilentHud) /\ WF_vars(MatchHeld) /\ WF_vars(Deadline) /\ WF_vars(ReleaseDue)
    /\ SF_vars(KeyArrives) /\ SF_vars(PlayerSendsRequest)
    /\ WF_vars(ServerAnswers) /\ SF_vars(ReceiveAnswer \/ ReceiveUpdate)

FairSpec == Spec /\ Fairness

----------------------------------------------------------------------------
(* Properties. *)

(* A command reaches a bridge that is done with the one before: the lower  *)
(* screen never has two moves in flight, whatever fails                    *)
(* (bottomd.c handle_items_tap against process_command's busy answer).     *)
OneMoveAtATime ==
    /\ ~(ready /\ conf.active)
    /\ gpc = "command" /\ NewCommand => ~ready /\ ~conf.active

(* The busy flag, which bottomd and the frame cache wait on, is up exactly *)
(* while a move is queued or unconfirmed, and then its acknowledgement is  *)
(* still to come: the inventory screen is not closed under a move.         *)
BusyUntilAcknowledged ==
    /\ busy <=> ready \/ conf.active
    /\ busy => ack < last
    /\ ~busy => ack = last

(* A move acknowledged as done is one the server accepted, as long as the  *)
(* player makes no move of his own, whose answer the bridge takes for its  *)
(* own (check_move_confirmation).                                          *)
AckedOkIsOnServer == owns = 0 => reported \subseteq accepted

(* When nothing is on its way and no move is unconfirmed, the client and   *)
(* the server hold the same inventory, unless the server changed a slot by *)
(* itself or did a move that was reported as failed                        *)
(* (rollback_move_prediction restores what it saved).                      *)
AtRest == wire = <<>> /\ answers = <<>> /\ ~own /\ ~conf.active
InSyncAtRest ==
    AtRest /\ changes = 0 /\ owns = 0 /\ accepted \subseteq reported => local = server

(* bottomd leaves the game in the screen it found: the two key presses     *)
(* around a move cancel out (handle_items_tap and the main loop).          *)
GameLeftAsFound == presses = 0 /\ ctx = 0 /\ keys = 0 => screen = "hud"

(* The context bottomd opened is closed again, and the cached frame that   *)
(* hides it gives way to the game (the frame freezer calls the inventory   *)
(* context it hides short-lived).                                          *)
NothingStaysOpen ==
    /\ ctx # 0 ~> ctx = 0
    /\ frozen # "no" ~> frozen = "no"
=============================================================================
