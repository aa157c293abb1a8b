------------------------ MODULE CompanionMoveProofs ------------------------
(***************************************************************************)
(* The handshake between bottomd and the bridge, proved for any inventory, *)
(* any number of moves and every combination of faults: the bridge is      *)
(* never handed a move while it still has one, and it is busy exactly      *)
(* until the acknowledgement.  Then, with a server that answers before the *)
(* deadline, what the bridge reports and what a rollback restores; and,    *)
(* with a key that works, the screen the game is left in.                  *)
(***************************************************************************)
EXTENDS CompanionMove, TLAPS

(* Swapping and restoring two slots gives an inventory. *)
LEMMA SwappedType ==
    ASSUME NEW inv \in Inventory, NEW a \in Slots, NEW b \in Slots
    PROVE  Swapped(inv, a, b) \in Inventory
BY DEF Swapped, Inventory

LEMMA RestoredType ==
    ASSUME NEW inv \in Inventory, NEW a \in Slots, NEW b \in Slots, NEW x \in Items, NEW y \in Items
    PROVE  Restored(inv, a, x, b, y) \in Inventory
BY DEF Restored, Inventory

(* The head of a sequence of a type has the type, and its tail stays one.  *)
LEMMA HeadTailType ==
    ASSUME NEW T, NEW q \in Seq(T), q # <<>>
    PROVE  Head(q) \in T /\ Tail(q) \in Seq(T)
OBVIOUS

LEMMA AppendType ==
    ASSUME NEW T, NEW q \in Seq(T), NEW x \in T
    PROVE  Append(q, x) \in Seq(T)
OBVIOUS

(* The confirmation is a whole record exactly while it is active. *)
LEMMA ActiveIsRecord ==
    ASSUME conf \in Confirmation \cup {NoConfirmation}
    PROVE  /\ conf.active \in BOOLEAN
           /\ conf.active => conf \in Confirmation
           /\ ~conf.active => conf = NoConfirmation
<1>1. CASE conf \in Confirmation
  <2>1. conf.active = TRUE
    BY <1>1 DEF Confirmation
  <2> QED
    BY <1>1, <2>1
<1>2. CASE conf = NoConfirmation
  <2>1. conf.active = FALSE
    BY <1>2 DEF NoConfirmation
  <2> QED
    BY <1>2, <2>1
<1> QED
  BY <1>1, <1>2

(* The fields of a confirmation keep their types. *)
LEMMA ConfirmationFields ==
    ASSUME conf \in Confirmation
    PROVE  /\ conf.from \in Slots /\ conf.to \in Slots
           /\ conf.oldFrom \in Items /\ conf.oldTo \in Items
           /\ conf.no \in Moves
BY DEF Confirmation

LEMMA ConfirmationUpdates ==
    ASSUME conf \in Confirmation, NEW x \in BOOLEAN, NEW y \in BOOLEAN
    PROVE  /\ [conf EXCEPT !.expired = x] \in Confirmation
           /\ [conf EXCEPT !.held = x] \in Confirmation
           /\ [conf EXCEPT !.matched = x, !.held = y] \in Confirmation
BY DEF Confirmation

(* An acknowledgement is the number of a move. *)
LEMMA FinishType ==
    ASSUME TypeOK, NEW no \in Moves, NEW res \in {"none", "ok", "invalid", "busy"},
           Finish(no, res)
    PROVE  /\ ack' \in Moves /\ result' \in {"none", "ok", "invalid", "busy"} /\ busy' \in BOOLEAN
           /\ reported' \in SUBSET Moves
BY DEF Finish, TypeOK

LEMMA CheckConfirmationType ==
    ASSUME TypeOK, NEW inv, CheckConfirmation(inv)
    PROVE  /\ ack' \in Moves /\ result' \in {"none", "ok", "invalid", "busy"} /\ busy' \in BOOLEAN
           /\ reported' \in SUBSET Moves
           /\ conf' \in Confirmation \cup {NoConfirmation} /\ local' \in Inventory
           /\ heard' \in {"none", "ok", "rejected"}
<1>1. /\ conf \in Confirmation \cup {NoConfirmation} /\ local \in Inventory
      /\ heard \in {"none", "ok", "rejected"}
      /\ conf.active => conf \in Confirmation
  BY ActiveIsRecord DEF TypeOK
<1>2. CASE ~conf.active /\ UNCHANGED <<conf, heard, local, status>>
  BY <1>1, <1>2 DEF TypeOK, status
<1>3. CASE conf.active /\ FailsConfirmation(inv) /\ Rollback /\ Finish(conf.no, "invalid")
           /\ conf' = NoConfirmation /\ heard' = "none"
  <2>1. local' \in Inventory
    BY <1>1, <1>3, ConfirmationFields, RestoredType DEF Rollback
  <2> QED
    BY <1>1, <1>3, <2>1, ConfirmationFields, FinishType
<1>4. CASE conf.active /\ Confirmable(inv) /\ Finish(conf.no, "ok")
           /\ conf' = NoConfirmation /\ heard' = "none" /\ UNCHANGED local
  BY <1>1, <1>4, ConfirmationFields, FinishType
<1>5. CASE conf.active /\ conf' = [conf EXCEPT !.matched = Matches(inv), !.held = @ /\ Matches(inv)]
           /\ UNCHANGED <<heard, local, status>>
  <2>1. Matches(inv) \in BOOLEAN /\ (conf.held /\ Matches(inv)) \in BOOLEAN
    BY DEF Matches
  <2>2. conf' \in Confirmation
    BY <1>1, <1>5, <2>1, ConfirmationUpdates
  <2> QED
    BY <1>1, <1>5, <2>2 DEF TypeOK, status
<1> QED
  BY <1>2, <1>3, <1>4, <1>5 DEF CheckConfirmation


----------------------------------------------------------------------------
(* Types. *)

LEMMA InitType == Init => TypeOK
<1> SUFFICES ASSUME Init PROVE TypeOK
  OBVIOUS
<1>1. PICK inv \in Inventory, s \in Slots :
         /\ command = [no |-> 0, from |-> s, to |-> s]
         /\ shown = inv /\ local = inv /\ server = inv
         /\ pending = command
         /\ conf = NoConfirmation
  BY DEF Init
<1>2. 0 \in Moves
  BY BoundsAssumption DEF Moves
<1>3. conf \in Confirmation \cup {NoConfirmation}
  BY <1>1
<1>4. command \in Command /\ pending \in Command
  BY <1>1, <1>2 DEF Command
<1>5. wire \in Seq(Request) /\ answers \in Seq(Answer \cup Update)
  BY DEF Init
<1>6. changes \in 0 .. MaxChanges /\ owns \in 0 .. MaxOwn /\ presses \in 0 .. MaxPresses
  BY BoundsAssumption DEF Init
<1>7. shown \in Inventory /\ local \in Inventory /\ server \in Inventory
  BY <1>1
<1>8. /\ ctx = 0 /\ key = "free" /\ ack = 0 /\ result = "none" /\ busy = FALSE
      /\ last = 0 /\ ready = FALSE
      /\ heard = "none" /\ frozen = "no" /\ quiet = FALSE /\ ticked = FALSE
      /\ gpc = "tick" /\ screen = "hud" /\ keys = 0 /\ own = FALSE
      /\ accepted = {} /\ reported = {}
  BY DEF Init
<1> QED
  BY <1>2, <1>3, <1>4, <1>5, <1>6, <1>7, <1>8 DEF TypeOK

LEMMA BottomdType ==
    ASSUME TypeOK, Tap \/ OpenContext \/ CloseContext
    PROVE  TypeOK'
<1>1. CASE Tap
  <2>1. PICK a \in Slots, b \in Slots : command' = [no |-> command.no + 1, from |-> a, to |-> b]
    BY <1>1 DEF Tap
  <2>2. command.no + 1 \in Moves
    BY <1>1, BoundsAssumption DEF Tap, TypeOK, Command, Moves
  <2>3. command' \in Command /\ ctx' \in Moves
    BY <1>1, <2>1, <2>2 DEF Tap, Command
  <2> QED
    BY <1>1, <2>3 DEF Tap, TypeOK, status, bridge, game, net, history
<1>2. CASE OpenContext
  BY <1>2 DEF OpenContext, PressKey, TypeOK, status, bridge, net, history
<1>3. CASE CloseContext
  <2>1. 0 \in Moves
    BY BoundsAssumption DEF Moves
  <2> QED
    BY <1>3, <2>1 DEF CloseContext, PressKey, TypeOK, status, bridge, net, history
<1> QED
  BY <1>1, <1>2, <1>3

LEMMA HudType ==
    ASSUME TypeOK, HudTick \/ OtherTick
    PROVE  TypeOK'
<1>1. CASE HudTick
  <2>1. CheckConfirmation(local)
    BY <1>1 DEF HudTick
  <2>2. /\ ack' \in Moves /\ result' \in {"none", "ok", "invalid", "busy"} /\ busy' \in BOOLEAN
        /\ reported' \in SUBSET Moves
        /\ conf' \in Confirmation \cup {NoConfirmation} /\ local' \in Inventory
        /\ heard' \in {"none", "ok", "rejected"}
    BY <2>1, CheckConfirmationType
  <2> QED
    BY <1>1, <2>2 DEF HudTick, TypeOK, bottomd, net, history
<1>2. CASE OtherTick
  BY <1>2 DEF OtherTick, TypeOK, bottomd, status, bridge, net, history
<1> QED
  BY <1>1, <1>2

LEMMA ProcessCommandType ==
    ASSUME TypeOK, ProcessCommand
    PROVE  TypeOK'
<1>1. command.no \in Moves
  BY DEF TypeOK, Command
<1>2. CASE NewCommand /\ QueueMove
  BY <1>1, <1>2 DEF ProcessCommand, QueueMove, TypeOK, bottomd, net, history
<1>3. CASE NewCommand /\ RefuseBusy
  BY <1>1, <1>3 DEF ProcessCommand, RefuseBusy, TypeOK, bottomd, net, history
<1>4. CASE ~NewCommand
  BY <1>4 DEF ProcessCommand, TypeOK, bottomd, net, history, status
<1> QED
  BY <1>2, <1>3, <1>4 DEF ProcessCommand

(* A request made from the local inventory is a request. *)
LEMMA RequestType ==
    ASSUME TypeOK, NEW by \in {"bridge", "player"}, NEW no \in Moves,
           NEW a \in Slots, NEW b \in Slots
    PROVE  [by |-> by, no |-> no, from |-> a, to |-> b,
            fromItem |-> local[a], toItem |-> local[b]] \in Request
BY DEF TypeOK, Inventory, Request

LEMMA SubmitType ==
    ASSUME TypeOK, SubmitMove
    PROVE  /\ local' \in Inventory /\ conf' \in Confirmation /\ heard' = "none"
           /\ wire' \in Seq(Request)
           /\ UNCHANGED status
<1>1. pending.from \in Slots /\ pending.to \in Slots /\ pending.no \in Moves
  BY DEF TypeOK, Command
<1>2. local \in Inventory /\ shown \in Inventory /\ wire \in Seq(Request)
  BY DEF TypeOK
<1>3. local' \in Inventory
  BY <1>1, <1>2, SwappedType DEF SubmitMove
<1>4. conf' \in Confirmation
  BY <1>1, <1>2 DEF SubmitMove, Confirmation, Inventory
<1>5. wire' \in Seq(Request)
  <2>1. [by |-> "bridge", no |-> pending.no, from |-> pending.from, to |-> pending.to,
         fromItem |-> local[pending.from], toItem |-> local[pending.to]] \in Request
    BY <1>1, RequestType
  <2> QED
    BY <1>2, <2>1, AppendType DEF SubmitMove
<1> QED
  BY <1>3, <1>4, <1>5 DEF SubmitMove

LEMMA ContextType ==
    ASSUME TypeOK, NotQuiet \/ TakePending \/ CheckInContext \/ TopFrame
    PROVE  TypeOK'
<1>1. CASE NotQuiet
  BY <1>1 DEF NotQuiet, KeyIsUp, TypeOK, bridge, status, net, history
<1>a. ASSUME TakePending
      PROVE  /\ gpc' = "top" /\ ready' = FALSE /\ shown' = local'
             /\ key' \in {"free", "wanted", "held"}
             /\ UNCHANGED <<ctx, command, last, pending, frozen, quiet, ticked, screen, keys, own,
                            answers, server, accepted, changes, owns, presses>>
  <2>1. key \in {"free", "wanted", "held"}
    BY DEF TypeOK
  <2> QED
    BY ONLY <1>a, <2>1 DEF TakePending, KeyIsUp
<1>2. CASE TakePending /\ MoveRefused
  <2>1. pending.no \in Moves
    BY DEF TypeOK, Command
  <2>2. Finish(pending.no, "busy") \/ Finish(pending.no, "invalid")
    BY <1>2 DEF MoveRefused
  <2>3. /\ ack' \in Moves /\ result' \in {"none", "ok", "invalid", "busy"} /\ busy' \in BOOLEAN
        /\ reported' \in SUBSET Moves
    BY <2>1, <2>2, FinishType
  <2>4. UNCHANGED <<conf, heard, local, wire>>
    BY <1>2 DEF MoveRefused
  <2> QED
    BY ONLY TypeOK, <1>2, <1>a, <2>3, <2>4 DEF TypeOK
<1>3. CASE TakePending /\ SubmitMove
  <2>1. /\ local' \in Inventory /\ conf' \in Confirmation /\ heard' = "none"
        /\ wire' \in Seq(Request)
        /\ UNCHANGED status
    BY <1>3, SubmitType
  <2> QED
    BY ONLY TypeOK, <1>3, <1>a, <2>1 DEF TypeOK, status
<1>4. CASE CheckInContext
  <2>1. CheckConfirmation(local)
    BY <1>4 DEF CheckInContext
  <2>2. /\ ack' \in Moves /\ result' \in {"none", "ok", "invalid", "busy"} /\ busy' \in BOOLEAN
        /\ reported' \in SUBSET Moves
        /\ conf' \in Confirmation \cup {NoConfirmation} /\ local' \in Inventory
        /\ heard' \in {"none", "ok", "rejected"}
    BY <2>1, CheckConfirmationType
  <2> QED
    BY <1>4, <2>2 DEF CheckInContext, KeyIsUp, TypeOK, net, history
<1>5. CASE TopFrame
  <2>1. frozen' \in {"no", "yes", "releasing", "due"}
    BY <1>5 DEF TopFrame, TypeOK
  <2>2. /\ gpc' = "tick" /\ ticked' = FALSE
        /\ UNCHANGED <<bottomd, command, status, shown, last, ready, pending, conf, heard, quiet,
                       screen, keys, local, own, net, history>>
    BY <1>5 DEF TopFrame
  <2>3. /\ last' \in Moves /\ ready' \in BOOLEAN /\ pending' \in Command
        /\ conf' \in Confirmation \cup {NoConfirmation}
        /\ heard' \in {"none", "ok", "rejected"} /\ quiet' \in BOOLEAN
    BY <2>2 DEF TypeOK
  <2> QED
    BY <2>1, <2>2, <2>3 DEF TypeOK, bottomd, status, net, history
<1> QED
  BY <1>1, <1>2, <1>3, <1>4, <1>5 DEF TakePending

LEMMA TimeType ==
    ASSUME TypeOK, Time
    PROVE  TypeOK'
<1>1. CASE SilentHud
  BY <1>1 DEF SilentHud, TypeOK, bottomd, status, game, net, history
<1>2. CASE MatchHeld
  <2>1. conf' \in Confirmation
    BY <1>2, ConfirmationUpdates, ActiveIsRecord DEF MatchHeld, TypeOK
  <2> QED
    BY <1>2, <2>1 DEF MatchHeld, TypeOK, bottomd, status, game, net, history
<1>3. CASE Deadline
  <2>1. conf' \in Confirmation
    BY <1>3, ConfirmationUpdates, ActiveIsRecord DEF Deadline, TypeOK
  <2> QED
    BY <1>3, <2>1 DEF Deadline, TypeOK, bottomd, status, game, net, history
<1>4. CASE ReleaseDue
  BY <1>4 DEF ReleaseDue, TypeOK, bottomd, status, game, net, history
<1> QED
  BY <1>1, <1>2, <1>3, <1>4 DEF Time

LEMMA GameType ==
    ASSUME TypeOK, KeyArrives \/ PlayerPresses \/ PlayerOpensRequest \/ PlayerSendsRequest
    PROVE  TypeOK'
<1>1. ToggledScreen \in {"hud", "inventory", "menu"}
  BY DEF ToggledScreen, TypeOK
<1>2. CASE KeyArrives
  BY <1>1, <1>2 DEF KeyArrives, TypeOK, bottomd, status, bridge, net, history
<1>3. CASE PlayerPresses
  <2>1. screen' \in {"hud", "inventory", "menu"}
    BY <1>1, <1>3 DEF PlayerPresses
  <2>2. presses' \in 0 .. MaxPresses
    BY <1>3, BoundsAssumption DEF PlayerPresses, TypeOK
  <2> QED
    BY <1>3, <2>1, <2>2 DEF PlayerPresses, TypeOK, bottomd, status, bridge, net
<1>4. CASE PlayerOpensRequest
  <2>1. owns' \in 0 .. MaxOwn
    BY <1>4, BoundsAssumption DEF PlayerOpensRequest, TypeOK
  <2> QED
    BY <1>4, <2>1 DEF PlayerOpensRequest, TypeOK, bottomd, status, bridge, net
<1>5. CASE PlayerSendsRequest
  <2>1. PICK a \in Slots, b \in Slots :
           /\ local' = Swapped(local, a, b)
           /\ wire' = Append(wire, [by |-> "player", no |-> 0, from |-> a, to |-> b,
                                    fromItem |-> local[a], toItem |-> local[b]])
    BY <1>5 DEF PlayerSendsRequest
  <2>2. 0 \in Moves
    BY BoundsAssumption DEF Moves
  <2>3. [by |-> "player", no |-> 0, from |-> a, to |-> b,
         fromItem |-> local[a], toItem |-> local[b]] \in Request
    BY <2>2, RequestType
  <2>4. wire' \in Seq(Request) /\ local' \in Inventory
    BY <2>1, <2>3, AppendType, SwappedType DEF TypeOK
  <2>5. own' = FALSE /\ UNCHANGED <<bottomd, command, status, shown, bridge>>
    BY <1>5 DEF PlayerSendsRequest
  <2>6. UNCHANGED <<gpc, screen, keys, answers, server, accepted, history>>
    BY <1>5 DEF PlayerSendsRequest
  <2>7. /\ ctx' \in Moves /\ key' \in {"free", "wanted", "held"} /\ command' \in Command
        /\ ack' \in Moves /\ result' \in {"none", "ok", "invalid", "busy"} /\ busy' \in BOOLEAN
        /\ reported' \in SUBSET Moves /\ shown' \in Inventory
    BY <2>5 DEF TypeOK, bottomd, status
  <2>8. /\ last' \in Moves /\ ready' \in BOOLEAN /\ pending' \in Command
        /\ conf' \in Confirmation \cup {NoConfirmation}
        /\ heard' \in {"none", "ok", "rejected"}
        /\ frozen' \in {"no", "yes", "releasing", "due"}
        /\ quiet' \in BOOLEAN /\ ticked' \in BOOLEAN
    BY <2>5 DEF TypeOK, bridge
  <2>9. /\ gpc' \in {"tick", "command", "context", "top"}
        /\ screen' \in {"hud", "inventory", "menu"}
        /\ keys' \in Nat
        /\ answers' \in Seq(Answer \cup Update)
        /\ server' \in Inventory
        /\ accepted' \in SUBSET Moves
        /\ changes' \in 0 .. MaxChanges /\ owns' \in 0 .. MaxOwn /\ presses' \in 0 .. MaxPresses
    BY <2>6 DEF TypeOK, history
  <2> QED
    BY ONLY <2>4, <2>5, <2>7, <2>8, <2>9 DEF TypeOK
<1> QED
  BY <1>2, <1>3, <1>4, <1>5

LEMMA NetworkType ==
    ASSUME TypeOK, Network \/ ServerChanges
    PROVE  TypeOK'
<1>1. CASE ServerAnswers
  <2> DEFINE r == Head(wire)
  <2>1. r \in Request /\ wire' \in Seq(Request)
    BY <1>1, HeadTailType DEF ServerAnswers, TypeOK
  <2>2. /\ [kind |-> "answer", ok |-> TRUE, request |-> r] \in Answer \cup Update
        /\ [kind |-> "answer", ok |-> FALSE, request |-> r] \in Answer \cup Update
    BY <2>1 DEF Answer
  <2>3. answers' \in Seq(Answer \cup Update)
    <3>1. \E ok \in BOOLEAN : answers' = Append(answers, [kind |-> "answer", ok |-> ok, request |-> r])
      BY <1>1 DEF ServerAnswers
    <3>2. answers \in Seq(Answer \cup Update)
      BY DEF TypeOK
    <3> QED  BY ONLY <2>2, <3>1, <3>2, AppendType
  <2>4. r.from \in Slots /\ r.to \in Slots /\ r.no \in Moves
    BY <2>1 DEF Request
  <2>5. server' \in Inventory /\ accepted' \in SUBSET Moves
    BY <1>1, <2>4, SwappedType DEF ServerAnswers, TypeOK
  <2> QED
    BY <1>1, <2>1, <2>3, <2>5 DEF ServerAnswers, TypeOK, bottomd, status, bridge, game, history
<1>2. CASE ReceiveAnswer
  <2> DEFINE r == Head(answers).request
  <2>1. Head(answers) \in Answer \cup Update /\ answers' \in Seq(Answer \cup Update)
    BY <1>2, HeadTailType DEF ReceiveAnswer, TypeOK
  <2>2. Head(answers) \in Answer
    BY <1>2, <2>1 DEF ReceiveAnswer, Answer, Update
  <2>3. r \in Request
    BY <2>2 DEF Answer
  <2>4. r.from \in Slots /\ r.to \in Slots /\ r.fromItem \in Items /\ r.toItem \in Items
    BY <2>3 DEF Request
  <2>5. local' \in Inventory
    BY <1>2, <2>4, RestoredType DEF ReceiveAnswer, TypeOK
  <2>6. heard' \in {"none", "ok", "rejected"}
    BY <1>2 DEF ReceiveAnswer, TypeOK
  <2> QED
    BY <1>2, <2>1, <2>5, <2>6 DEF ReceiveAnswer, TypeOK, bottomd, status, history
<1>3. CASE ReceiveUpdate
  <2>1. Head(answers) \in Answer \cup Update /\ answers' \in Seq(Answer \cup Update)
    BY <1>3, HeadTailType DEF ReceiveUpdate, TypeOK
  <2>2. Head(answers) \in Update
    BY <1>3, <2>1 DEF ReceiveUpdate, Answer, Update
  <2>3. Head(answers).slot \in Slots /\ Head(answers).item \in Items
    BY <2>2 DEF Update
  <2>4. local' \in Inventory
    BY <1>3, <2>3 DEF ReceiveUpdate, TypeOK, Inventory
  <2> QED
    BY <1>3, <2>1, <2>4 DEF ReceiveUpdate, TypeOK, bottomd, status, bridge, history
<1>4. CASE ServerChanges
  <2>1. PICK s \in Slots : \E x \in Items :
           /\ server' = [server EXCEPT ![s] = x]
           /\ answers' = Append(answers, [kind |-> "update", slot |-> s, item |-> x])
    BY <1>4 DEF ServerChanges
  <2>2. PICK x \in Items :
           /\ server' = [server EXCEPT ![s] = x]
           /\ answers' = Append(answers, [kind |-> "update", slot |-> s, item |-> x])
    BY <2>1
  <2>3. [kind |-> "update", slot |-> s, item |-> x] \in Answer \cup Update
    BY DEF Update
  <2>4. answers' \in Seq(Answer \cup Update) /\ server' \in Inventory
    BY <2>2, <2>3, AppendType DEF TypeOK, Inventory
  <2>5. changes' \in 0 .. MaxChanges
    BY <1>4, BoundsAssumption DEF ServerChanges, TypeOK
  <2> QED
    BY <1>4, <2>4, <2>5 DEF ServerChanges, TypeOK, bottomd, status, bridge, game
<1> QED
  BY <1>1, <1>2, <1>3, <1>4 DEF Network

LEMMA StutterType ==
    ASSUME TypeOK, UNCHANGED vars
    PROVE  TypeOK'
BY DEF TypeOK, vars, bottomd, status, bridge, game, net, history

(* Every variable keeps its type.                                          *)
THEOREM CompanionTypeCorrect == Spec => []TypeOK
<1>1. Init => TypeOK
  BY InitType
<1>2. TypeOK /\ [Next]_vars => TypeOK'
  BY BottomdType, HudType, ProcessCommandType, ContextType, TimeType, GameType, NetworkType,
     StutterType
  DEF Next, Player, Bottomd, Frame
<1> QED
  BY <1>1, <1>2, PTL DEF Spec

----------------------------------------------------------------------------
(* The handshake. *)

(* bottomd writes a command only when it has seen the last one answered,   *)
(* and an answered bridge is idle; so an unseen command finds it idle, and *)
(* the numbers last, ack and that of the move in hand tell who is to move. *)
Handshake ==
    /\ ctx = 0 => last = command.no /\ ~busy
    /\ ctx # 0 => ctx = command.no
    /\ last <= command.no
    /\ last # command.no => ~busy
    /\ ~(ready /\ conf.active)
    /\ busy <=> ready \/ conf.active
    /\ busy => ack < last
    /\ ~busy => ack = last
    /\ ready => pending.no = last
    /\ conf.active => conf.no = last

IInv == TypeOK /\ Handshake

LEMMA NumbersAreNaturals ==
    ASSUME TypeOK
    PROVE  /\ ctx \in Nat /\ ack \in Nat /\ last \in Nat /\ command.no \in Nat
           /\ pending.no \in Nat /\ (conf.active => conf.no \in Nat)
           /\ busy \in BOOLEAN /\ ready \in BOOLEAN /\ conf.active \in BOOLEAN
<1>1. conf.active \in BOOLEAN /\ (conf.active => conf \in Confirmation)
  BY ActiveIsRecord DEF TypeOK
<1>2. conf.active => conf.no \in Nat
  BY <1>1 DEF Confirmation, Moves
<1> QED
  BY <1>1, <1>2 DEF TypeOK, Moves, Command

(* Finishing the move in hand answers it and leaves the bridge idle.       *)
LEMMA FinishAnswers ==
    ASSUME IInv, NEW res, Finish(last, res), busy
    PROVE  ack' = last /\ ~busy'
BY NumbersAreNaturals DEF IInv, Handshake, Finish

(* Checking the confirmation keeps the handshake when nothing else in it   *)
(* changes: the move in hand is either kept or finished.                   *)
LEMMA CheckKeepsHandshake ==
    ASSUME IInv, NEW inv, CheckConfirmation(inv),
           UNCHANGED <<ctx, command, last, ready, pending>>
    PROVE  Handshake'
<1>1. conf.active => conf \in Confirmation
  BY ActiveIsRecord DEF IInv, TypeOK
<1>2. CASE ~conf.active /\ UNCHANGED <<conf, local, status>>
  BY <1>2 DEF IInv, Handshake, status
<1>3. CASE conf.active /\ (\E res : Finish(conf.no, res)) /\ conf' = NoConfirmation
  <2>1. ~conf'.active /\ conf.no = last /\ busy /\ ~ready
    BY <1>3 DEF NoConfirmation, IInv, Handshake
  <2>2. ack' = last /\ ~busy'
    BY <1>3, <2>1, FinishAnswers
  <2> QED
    BY <2>1, <2>2 DEF IInv, Handshake
<1>4. CASE conf.active /\ conf' = [conf EXCEPT !.matched = Matches(inv), !.held = @ /\ Matches(inv)]
           /\ UNCHANGED <<local, status>>
  <2>1. conf'.active = conf.active /\ conf'.no = conf.no
    BY <1>1, <1>4 DEF Confirmation
  <2> QED
    BY <1>4, <2>1 DEF IInv, Handshake, status
<1> QED
  BY <1>2, <1>3, <1>4 DEF CheckConfirmation

LEMMA TapKeepsHandshake ==
    ASSUME IInv, Tap
    PROVE  Handshake'
<1>1. PICK a \in Slots, b \in Slots : command' = [no |-> command.no + 1, from |-> a, to |-> b]
  BY DEF Tap
<1>2. command'.no = command.no + 1 /\ ctx' = command.no + 1
  BY <1>1 DEF Tap
<1>3. ctx = 0 /\ last = command.no /\ ~busy
  BY DEF Tap, MayTap, IInv, Handshake
<1>4. UNCHANGED <<status, bridge>>
  BY DEF Tap
<1> QED
  BY <1>2, <1>3, <1>4, NumbersAreNaturals DEF IInv, Handshake, status, bridge

LEMMA CloseKeepsHandshake ==
    ASSUME IInv, CloseContext
    PROVE  Handshake'
<1>1. ctx # 0 /\ ack >= ctx /\ ~busy
  BY DEF CloseContext, Answered
<1>2. ctx' = 0 /\ UNCHANGED <<command, status, bridge>>
  BY DEF CloseContext
<1>3. last = command.no
  BY <1>1, NumbersAreNaturals DEF IInv, Handshake
<1> QED
  BY <1>1, <1>2, <1>3 DEF IInv, Handshake, status, bridge

(* A new command finds the bridge idle.                                    *)
LEMMA NewCommandFindsIdle ==
    ASSUME IInv, NewCommand
    PROVE  ~ready /\ ~conf.active /\ ~busy /\ ack = last /\ last < command.no
BY NumbersAreNaturals DEF IInv, Handshake, NewCommand

LEMMA ProcessKeepsHandshake ==
    ASSUME IInv, ProcessCommand
    PROVE  Handshake'
<1>1. UNCHANGED <<ctx, command, conf>>
  BY DEF ProcessCommand, bottomd
<1>2. CASE NewCommand
  <2>1. QueueMove /\ last' = command.no
    BY <1>2, NewCommandFindsIdle DEF ProcessCommand, RefuseBusy
  <2>2. ready' /\ busy' /\ pending' = command /\ ack' = ack
    BY <2>1 DEF QueueMove
  <2>3. ctx # 0
    BY <1>2 DEF IInv, Handshake, NewCommand
  <2> QED
    BY <1>1, <1>2, <2>1, <2>2, <2>3, NewCommandFindsIdle, NumbersAreNaturals DEF IInv, Handshake
<1>3. CASE ~NewCommand
  BY <1>1, <1>3 DEF ProcessCommand, IInv, Handshake, status
<1> QED
  BY <1>2, <1>3

LEMMA TakeKeepsHandshake ==
    ASSUME IInv, TakePending
    PROVE  Handshake'
<1>1. ready /\ ~ready' /\ UNCHANGED <<ctx, command, last, pending>>
  BY DEF TakePending
<1>2. ~conf.active /\ busy /\ pending.no = last
  BY <1>1 DEF IInv, Handshake
<1>3. CASE MoveRefused
  <2>1. PICK res : Finish(last, res)
    BY <1>2, <1>3 DEF MoveRefused
  <2>2. ack' = last /\ ~busy' /\ conf' = conf
    BY <1>2, <1>3, <2>1, FinishAnswers DEF MoveRefused
  <2> QED
    BY <1>1, <1>2, <2>2 DEF IInv, Handshake
<1>4. CASE SubmitMove
  <2>1. conf'.active /\ conf'.no = last /\ UNCHANGED <<ack, busy>>
    BY <1>2, <1>4 DEF SubmitMove, status
  <2> QED
    BY <1>1, <1>2, <2>1 DEF IInv, Handshake
<1> QED
  BY <1>3, <1>4 DEF TakePending

(* Everything else leaves the handshake alone.                             *)
LEMMA RestKeepsHandshake ==
    ASSUME IInv,
           \/ OpenContext \/ OtherTick \/ NotQuiet \/ TopFrame \/ Time
           \/ KeyArrives \/ PlayerPresses \/ PlayerOpensRequest \/ PlayerSendsRequest
           \/ Network \/ ServerChanges \/ UNCHANGED vars
    PROVE  Handshake'
<1>1. conf.active => conf \in Confirmation
  BY ActiveIsRecord DEF IInv, TypeOK
<1>2. CASE MatchHeld \/ Deadline
  <2>1. conf'.active = conf.active /\ conf'.no = conf.no
    BY <1>1, <1>2 DEF MatchHeld, Deadline, Confirmation
  <2>2. UNCHANGED <<ctx, command, ack, busy, last, ready, pending>>
    BY <1>2 DEF MatchHeld, Deadline, bottomd, status
  <2> QED
    BY <2>1, <2>2 DEF IInv, Handshake
<1>3. CASE UNCHANGED <<ctx, command, ack, busy, last, ready, pending, conf>>
  BY <1>3 DEF IInv, Handshake
<1>4. OpenContext \/ OtherTick \/ NotQuiet \/ TopFrame \/ SilentHud \/ ReleaseDue
         => UNCHANGED <<ctx, command, ack, busy, last, ready, pending, conf>>
  BY DEF OpenContext, OtherTick, NotQuiet, TopFrame, SilentHud, ReleaseDue, bottomd, status, bridge
<1>5. KeyArrives \/ PlayerPresses \/ PlayerOpensRequest \/ PlayerSendsRequest
         => UNCHANGED <<ctx, command, ack, busy, last, ready, pending, conf>>
  BY DEF KeyArrives, PlayerPresses, PlayerOpensRequest, PlayerSendsRequest, bottomd, status, bridge
<1>6. ServerAnswers \/ ReceiveAnswer \/ ReceiveUpdate \/ ServerChanges \/ UNCHANGED vars
         => UNCHANGED <<ctx, command, ack, busy, last, ready, pending, conf>>
  BY DEF ServerAnswers, ReceiveAnswer, ReceiveUpdate, ServerChanges, vars, bottomd, status, bridge
<1> QED
  BY <1>2, <1>3, <1>4, <1>5, <1>6 DEF Time, Network

LEMMA HandshakeStep == IInv /\ [Next]_vars => Handshake'
<1> SUFFICES ASSUME IInv, [Next]_vars PROVE Handshake'
  OBVIOUS
<1>1. CASE HudTick
  BY <1>1, CheckKeepsHandshake DEF HudTick, bottomd
<1>2. CASE CheckInContext
  BY <1>2, CheckKeepsHandshake DEF CheckInContext
<1> QED
  BY <1>1, <1>2, TapKeepsHandshake, CloseKeepsHandshake, ProcessKeepsHandshake,
     TakeKeepsHandshake, RestKeepsHandshake
  DEF Next, Player, Bottomd, Frame

LEMMA HandshakeInvariant == Spec => []IInv
<1>1. Init => IInv
  <2> SUFFICES ASSUME Init PROVE Handshake
    BY InitType DEF IInv
  <2>1. command.no = 0 /\ ~conf.active
    BY DEF Init, NoConfirmation
  <2>2. ctx = 0 /\ last = 0 /\ ack = 0 /\ busy = FALSE /\ ready = FALSE
    BY DEF Init
  <2> QED
    BY <2>1, <2>2 DEF Handshake
<1>2. IInv /\ [Next]_vars => IInv'
  <2>1. TypeOK /\ [Next]_vars => TypeOK'
    BY BottomdType, HudType, ProcessCommandType, ContextType, TimeType, GameType, NetworkType,
       StutterType
    DEF Next, Player, Bottomd, Frame
  <2> QED
    BY <2>1, HandshakeStep DEF IInv
<1> QED
  BY <1>1, <1>2, PTL DEF Spec

(* Whatever fails, is late or is pressed, the bridge never gets a move     *)
(* while it still has one.                                                 *)
THEOREM MovesAreSerial == Spec => []OneMoveAtATime
<1>1. IInv => OneMoveAtATime
  BY NewCommandFindsIdle DEF IInv, Handshake, OneMoveAtATime
<1> QED
  BY <1>1, HandshakeInvariant, PTL

(* The busy flag is up exactly until the acknowledgement.                  *)
THEOREM BusyIsExact == Spec => []BusyUntilAcknowledged
<1>1. IInv => BusyUntilAcknowledged
  BY DEF IInv, Handshake, BusyUntilAcknowledged
<1> QED
  BY <1>1, HandshakeInvariant, PTL

----------------------------------------------------------------------------
(* The answers.                                                            *)
(*                                                                         *)
(* A server that answers within the deadline answers the move in hand and  *)
(* no other: the bridge waits for that answer before it submits another    *)
(* move, and while the player makes no move of his own nothing else is on  *)
(* its way.  So what was heard says what the server did.                   *)

IsAnswer(i) == answers[i].kind = "answer"

(* The move in hand is on its way to the server. *)
OnTheWire ==
    wire # <<>> =>
        /\ Len(wire) = 1
        /\ conf.active /\ heard = "none" /\ conf.no \notin accepted
        /\ Head(wire).by = "bridge" /\ Head(wire).no = conf.no
        /\ Head(wire).from = conf.from /\ Head(wire).to = conf.to
        /\ \A i \in 1 .. Len(answers) : ~IsAnswer(i)

(* Its answer is on the way back, and tells what the server did.  *)
OnTheWayBack ==
    \A i \in 1 .. Len(answers) : IsAnswer(i) =>
        /\ conf.active /\ heard = "none"
        /\ answers[i].request.by = "bridge"
        /\ answers[i].ok <=> conf.no \in accepted
        /\ \A j \in 1 .. Len(answers) : IsAnswer(j) => j = i

(* Its answer was heard; a prompt answer comes before the deadline. *)
Heard ==
    conf.active =>
        /\ heard = "ok" => conf.no \in accepted
        /\ heard = "rejected" => conf.no \notin accepted
        /\ conf.expired => heard = "ok"

(* The moves accepted and reported are the past ones. *)
Past ==
    /\ \A n \in accepted : n <= last
    /\ ready => last \notin accepted
    /\ reported \subseteq accepted
    /\ \A n \in reported : n <= ack

Prompt == ~own /\ OnTheWire /\ OnTheWayBack /\ Heard /\ Past
PromptAnswers == owns = 0 => Prompt

(* As long as the server changes nothing by itself and did nothing that    *)
(* was reported as failed, the two inventories differ at most by the       *)
(* prediction of the move in hand, which the saved stacks take back.       *)
InHand == IF conf.active THEN {conf.no} ELSE {}

Predicted ==
    /\ conf.from # conf.to
    /\ local[conf.from] = conf.oldTo /\ local[conf.to] = conf.oldFrom
    /\ IF conf.no \in accepted
       THEN local = server
       ELSE server = Restored(local, conf.from, conf.oldFrom, conf.to, conf.oldTo)

Same ==
    /\ \A i \in 1 .. Len(answers) : IsAnswer(i)
    /\ IF conf.active THEN Predicted ELSE local = server

Undisturbed == changes = 0 /\ owns = 0 /\ accepted \subseteq reported \cup InHand
SameInventory == Undisturbed => Same

(* The screen toggles with every press that arrives; the presses under way *)
(* and the one that closes the context give it back.                       *)
Opened == ctx # 0 /\ key # "wanted"
ScreenFollowsKeys ==
    presses = 0 =>
        /\ screen \in {"hud", "inventory"}
        /\ key = "wanted" => ctx # 0
        /\ screen = "inventory" <=> (keys + (IF Opened THEN 1 ELSE 0)) % 2 = 1

(* What is on its way only changes where something is sent or received.    *)
LEMMA NothingSent ==
    ASSUME Prompt, UNCHANGED <<wire, answers, accepted, own>>,
           conf'.active = conf.active, heard' = heard, conf.active => conf'.no = conf.no,
           conf.active => conf'.from = conf.from /\ conf'.to = conf.to
    PROVE  ~own' /\ OnTheWire' /\ OnTheWayBack'
BY DEF Prompt, OnTheWire, OnTheWayBack, IsAnswer

(* Once the answer was heard nothing is on its way. *)
LEMMA HeardIsAll ==
    ASSUME Prompt, ~conf.active \/ heard # "none"
    PROVE  wire = <<>> /\ \A i \in 1 .. Len(answers) : ~IsAnswer(i)
BY DEF Prompt, OnTheWire, OnTheWayBack

(* A finished confirmation was answered: reported as done only if accepted.*)
LEMMA CheckKeepsPrompt ==
    ASSUME IInv, Prompt, NEW inv, CheckConfirmation(inv),
           UNCHANGED <<last, ready, wire, answers, accepted, own>>
    PROVE  Prompt'
<1>1. conf.active => conf \in Confirmation
  BY ActiveIsRecord DEF IInv, TypeOK
<1>2. CASE ~conf.active /\ UNCHANGED <<conf, heard, local, status>>
  BY <1>2, NothingSent DEF Prompt, Heard, Past, status
<1>3. CASE conf.active /\ conf' = NoConfirmation /\ heard # "none"
           /\ (\/ Finish(conf.no, "invalid")
               \/ Finish(conf.no, "ok") /\ heard = "ok")
  <2>1. wire' = <<>> /\ \A i \in 1 .. Len(answers') : ~IsAnswer(i)'
    BY <1>3, HeardIsAll DEF IsAnswer
  <2>2. ~conf'.active
    BY <1>3 DEF NoConfirmation
  <2>3. ack < last /\ conf.no = last /\ ack \in Nat /\ last \in Nat /\ busy
    BY <1>3, NumbersAreNaturals DEF IInv, Handshake
  <2>4. ack' = last
    BY <1>3, <2>3, FinishAnswers
  <2>5. reported' \subseteq reported \cup {last} /\ (reported' # reported => heard = "ok")
    BY <1>3, <2>3 DEF Finish
  <2>6. heard = "ok" => last \in accepted
    BY <1>3, <2>3 DEF Prompt, Heard
  <2>7. \A n \in reported : n \in Nat /\ n <= ack
    BY DEF Prompt, Past, IInv, TypeOK, Moves
  <2>8. Past'
    BY <2>3, <2>4, <2>5, <2>6, <2>7 DEF Prompt, Past
  <2> QED
    BY <2>1, <2>2, <2>8 DEF Prompt, OnTheWire, OnTheWayBack, Heard
<1>4. CASE conf.active /\ conf' = [conf EXCEPT !.matched = Matches(inv), !.held = @ /\ Matches(inv)]
           /\ UNCHANGED <<heard, local, status>>
  <2>1. /\ conf'.active = conf.active /\ conf'.no = conf.no /\ conf'.expired = conf.expired
        /\ conf'.from = conf.from /\ conf'.to = conf.to
    BY <1>1, <1>4 DEF Confirmation
  <2>2. ~own' /\ OnTheWire' /\ OnTheWayBack'
    BY <1>4, <2>1, NothingSent
  <2> QED
    BY <1>4, <2>1, <2>2 DEF Prompt, Heard, Past, status
<1>5. conf.active /\ FailsConfirmation(inv) => heard # "none"
  BY DEF FailsConfirmation, Prompt, Heard
<1>6. Confirmable(inv) => heard = "ok"
  BY DEF Confirmable, Matches
<1> QED
  BY <1>2, <1>3, <1>4, <1>5, <1>6 DEF CheckConfirmation

LEMMA ProcessKeepsPrompt ==
    ASSUME IInv, Prompt, ProcessCommand
    PROVE  Prompt'
<1>1. UNCHANGED <<conf, heard, wire, answers, accepted, own>>
  BY DEF ProcessCommand, net
<1>2. CASE NewCommand
  <2>1. QueueMove /\ last' = command.no
    BY <1>2, NewCommandFindsIdle DEF ProcessCommand, RefuseBusy
  <2>2. last < last' /\ last \in Nat /\ last' \in Nat /\ UNCHANGED <<ack, reported>>
    <3>1. last < command.no
      BY <1>2, NewCommandFindsIdle
    <3>2. last \in Nat /\ command.no \in Nat
      BY NumbersAreNaturals DEF IInv
    <3>3. UNCHANGED <<ack, reported>>
      BY <2>1 DEF QueueMove
    <3> QED
      BY <2>1, <3>1, <3>2, <3>3
  <2>3. \A n \in accepted : n \in Nat /\ n <= last
    BY DEF Prompt, Past, IInv, TypeOK, Moves
  <2>4. Past'
    BY <1>1, <2>2, <2>3 DEF Prompt, Past
  <2> QED
    BY <1>1, <2>4, NothingSent DEF Prompt, Heard
<1>3. CASE ~NewCommand
  BY <1>1, <1>3, NothingSent DEF ProcessCommand, Prompt, Heard, Past, status
<1> QED
  BY <1>2, <1>3

(* A move is submitted when nothing is on its way, and never twice. *)
LEMMA TakeKeepsPrompt ==
    ASSUME IInv, Prompt, TakePending
    PROVE  Prompt'
<1>1. /\ ready /\ ~ready' /\ UNCHANGED <<last, own, answers, accepted>>
      /\ MoveRefused \/ SubmitMove
  BY DEF TakePending
<1>2. /\ ~conf.active /\ busy /\ pending.no = last /\ last \notin accepted
      /\ ack < last /\ ack \in Nat /\ last \in Nat
  BY <1>1, NumbersAreNaturals DEF IInv, Handshake, Prompt, Past
<1>3. wire = <<>> /\ \A i \in 1 .. Len(answers) : ~IsAnswer(i)
  BY <1>2, HeardIsAll
<1>4. CASE MoveRefused
  <2>1. PICK res \in {"busy", "invalid"} : Finish(last, res)
    BY <1>2, <1>4 DEF MoveRefused
  <2>2. ack' = last /\ reported' = reported /\ UNCHANGED <<conf, heard, wire>>
    BY <1>2, <1>4, <2>1, FinishAnswers DEF MoveRefused, Finish
  <2>3. \A n \in reported : n \in Nat /\ n <= ack
    BY DEF Prompt, Past, IInv, TypeOK, Moves
  <2>4. Past'
    BY <1>1, <1>2, <2>2, <2>3 DEF Prompt, Past
  <2> QED
    BY <1>1, <2>2, <2>4, NothingSent DEF Prompt, Heard
<1>5. CASE SubmitMove
  <2> DEFINE r == [by |-> "bridge", no |-> pending.no, from |-> pending.from, to |-> pending.to,
                   fromItem |-> local[pending.from], toItem |-> local[pending.to]]
  <2>1. wire' = Append(wire, r) /\ heard' = "none" /\ UNCHANGED status
    BY <1>5 DEF SubmitMove
  <2>2. /\ conf'.active /\ conf'.no = pending.no /\ ~conf'.expired
        /\ conf'.from = pending.from /\ conf'.to = pending.to
    BY <1>5 DEF SubmitMove
  <2>3. Len(wire') = 1 /\ Head(wire') = r
    <3> HIDE DEF r
    <3> QED
      BY <1>3, <2>1
  <2>4. OnTheWire'
    BY <1>1, <1>2, <1>3, <2>1, <2>2, <2>3 DEF OnTheWire, IsAnswer
  <2>5. OnTheWayBack'
    BY <1>1, <1>3 DEF OnTheWayBack, IsAnswer
  <2>6. Heard'
    BY <2>1, <2>2 DEF Heard
  <2>7. Past'
    BY <1>1, <2>1 DEF Prompt, Past, status
  <2> QED
    BY <1>1, <2>4, <2>5, <2>6, <2>7 DEF Prompt
<1> QED
  BY <1>1, <1>4, <1>5

(* The request leaves the wire and its only answer is appended. *)
LEMMA ServerAnswersPromptly ==
    ASSUME IInv, Prompt, ServerAnswers
    PROVE  Prompt'
<1> DEFINE r == Head(wire)
<1>1. /\ wire # <<>> /\ wire' = Tail(wire)
      /\ UNCHANGED <<conf, heard, own, last, ready, ack, reported>>
  BY DEF ServerAnswers, bridge, game, status
<1>2. /\ Len(wire) = 1 /\ conf.active /\ heard = "none" /\ conf.no \notin accepted
      /\ r.by = "bridge" /\ r.no = conf.no
      /\ \A i \in 1 .. Len(answers) : ~IsAnswer(i)
  BY <1>1 DEF Prompt, OnTheWire
<1>3. wire' = <<>>
  BY <1>1, <1>2 DEF IInv, TypeOK
<1>4. PICK ok \in BOOLEAN :
        /\ answers' = Append(answers, [kind |-> "answer", ok |-> ok, request |-> r])
        /\ accepted' = IF ok THEN accepted \cup {conf.no} ELSE accepted
  BY <1>2 DEF ServerAnswers
<1>5. answers \in Seq(Answer \cup Update) /\ Len(answers) \in Nat
  BY DEF IInv, TypeOK
<1>6. /\ Len(answers') = Len(answers) + 1
      /\ answers'[Len(answers) + 1] = [kind |-> "answer", ok |-> ok, request |-> r]
      /\ \A i \in 1 .. Len(answers) : answers'[i] = answers[i]
  <2> DEFINE x == [kind |-> "answer", ok |-> ok, request |-> r]
  <2>1. answers' = Append(answers, x)
    BY <1>4
  <2> HIDE DEF x
  <2>2. /\ Len(answers') = Len(answers) + 1
        /\ answers'[Len(answers) + 1] = x
        /\ \A i \in 1 .. Len(answers) : answers'[i] = answers[i]
    BY <1>5, <2>1
  <2> QED
    BY <2>2 DEF x
<1>7. \A i \in 1 .. Len(answers') : IsAnswer(i)' => i = Len(answers) + 1
  BY <1>2, <1>5, <1>6 DEF IsAnswer
<1>8. OnTheWayBack'
  <2> SUFFICES ASSUME NEW i \in 1 .. Len(answers'), IsAnswer(i)'
               PROVE  /\ conf'.active /\ heard' = "none"
                      /\ answers'[i].request.by = "bridge"
                      /\ answers'[i].ok <=> conf'.no \in accepted'
                      /\ \A j \in 1 .. Len(answers') : IsAnswer(j)' => j = i
    BY DEF OnTheWayBack
  <2>1. i = Len(answers) + 1
    BY <1>7
  <2>2. answers'[i] = [kind |-> "answer", ok |-> ok, request |-> r]
    BY <1>6, <2>1
  <2>3. ok <=> conf'.no \in accepted'
    BY <1>1, <1>2, <1>4
  <2> QED
    BY <1>1, <1>2, <1>7, <2>1, <2>2, <2>3
<1>9. Past'
  <2>1. conf.no = last /\ ~ready /\ last \in Nat
    BY <1>2, NumbersAreNaturals DEF IInv, Handshake
  <2> QED
    BY <1>1, <1>4, <2>1 DEF Prompt, Past
<1> QED
  BY <1>1, <1>2, <1>3, <1>8, <1>9 DEF Prompt, OnTheWire, Heard

(* Removing the head of a queue moves what is behind it forward. *)
LEMMA TailElements ==
    ASSUME NEW T, NEW q \in Seq(T), q # <<>>
    PROVE  /\ Len(q) \in Nat /\ Len(q) > 0 /\ Len(Tail(q)) = Len(q) - 1
           /\ \A i \in 1 .. Len(Tail(q)) : i + 1 \in 1 .. Len(q) /\ Tail(q)[i] = q[i + 1]
           /\ 1 \in 1 .. Len(q) /\ Head(q) = q[1]
OBVIOUS

LEMMA AppendElements ==
    ASSUME NEW T, NEW q \in Seq(T), NEW x
    PROVE  /\ Len(q) \in Nat /\ Len(Append(q, x)) = Len(q) + 1
           /\ Append(q, x)[Len(q) + 1] = x
           /\ \A i \in 1 .. Len(q) : Append(q, x)[i] = q[i]
OBVIOUS

(* The answer arrives: what was heard is what the server did. *)
LEMMA ReceiveAnswerKeepsPrompt ==
    ASSUME IInv, Prompt, ReceiveAnswer
    PROVE  Prompt'
<1>1. /\ answers # <<>> /\ Head(answers).kind = "answer" /\ answers' = Tail(answers)
      /\ UNCHANGED <<last, ready, conf, own, wire, accepted, status>>
  BY DEF ReceiveAnswer
<1>2. answers \in Seq(Answer \cup Update)
  BY DEF IInv, TypeOK
<1>3. 1 \in 1 .. Len(answers) /\ Head(answers) = answers[1] /\ IsAnswer(1)
  BY <1>1, <1>2, TailElements DEF IsAnswer
<1>4. /\ conf.active /\ heard = "none" /\ (answers[1].ok <=> conf.no \in accepted)
      /\ \A j \in 1 .. Len(answers) : IsAnswer(j) => j = 1
  BY <1>3 DEF Prompt, OnTheWayBack
<1>5. wire = <<>>
  BY <1>3 DEF Prompt, OnTheWire
<1>6. \A i \in 1 .. Len(answers') : ~IsAnswer(i)'
  <2> SUFFICES ASSUME NEW i \in 1 .. Len(answers'), IsAnswer(i)' PROVE FALSE
    OBVIOUS
  <2>1. i + 1 \in 1 .. Len(answers) /\ answers'[i] = answers[i + 1]
    BY <1>1, <1>2, TailElements
  <2>2. i + 1 = 1
    BY <1>4, <2>1 DEF IsAnswer
  <2> QED
    BY <2>2
<1>7. heard' = IF answers[1].ok THEN "ok" ELSE "rejected"
  BY <1>3, <1>4 DEF ReceiveAnswer
<1>8. Heard'
  BY <1>1, <1>4, <1>7 DEF Prompt, Heard
<1> QED
  BY <1>1, <1>5, <1>6, <1>8 DEF Prompt, OnTheWire, OnTheWayBack, Past, status

(* Updates come and go between the answers. *)
LEMMA ReceiveUpdateKeepsPrompt ==
    ASSUME IInv, Prompt, ReceiveUpdate
    PROVE  Prompt'
<1>1. /\ answers # <<>> /\ Head(answers).kind = "update" /\ answers' = Tail(answers)
      /\ UNCHANGED <<own, wire, accepted, status, bridge>>
  BY DEF ReceiveUpdate
<1>2. answers \in Seq(Answer \cup Update)
  BY DEF IInv, TypeOK
<1>3. \A i \in 1 .. Len(answers') : i + 1 \in 1 .. Len(answers) /\ answers'[i] = answers[i + 1]
  BY <1>1, <1>2, TailElements
<1>4. OnTheWayBack'
  <2> SUFFICES ASSUME NEW i \in 1 .. Len(answers'), IsAnswer(i)'
               PROVE  /\ conf'.active /\ heard' = "none"
                      /\ answers'[i].request.by = "bridge"
                      /\ answers'[i].ok <=> conf'.no \in accepted'
                      /\ \A j \in 1 .. Len(answers') : IsAnswer(j)' => j = i
    BY DEF OnTheWayBack
  <2>1. i + 1 \in 1 .. Len(answers) /\ IsAnswer(i + 1) /\ answers'[i] = answers[i + 1]
    BY <1>3 DEF IsAnswer
  <2>2. /\ conf.active /\ heard = "none"
        /\ answers[i + 1].request.by = "bridge"
        /\ answers[i + 1].ok <=> conf.no \in accepted
        /\ \A j \in 1 .. Len(answers) : IsAnswer(j) => j = i + 1
    BY <2>1 DEF Prompt, OnTheWayBack
  <2>3. \A j \in 1 .. Len(answers') : IsAnswer(j)' => j + 1 = i + 1
    BY <1>3, <2>2 DEF IsAnswer
  <2>4. Len(answers') \in Nat
    BY <1>1, <1>2, TailElements
  <2> QED
    BY <1>1, <2>1, <2>2, <2>3, <2>4 DEF bridge
<1>5. OnTheWire'
  BY <1>1, <1>3 DEF Prompt, OnTheWire, IsAnswer, bridge
<1> QED
  BY <1>1, <1>4, <1>5 DEF Prompt, Heard, Past, bridge, status

LEMMA ServerChangesKeepsPrompt ==
    ASSUME IInv, Prompt, ServerChanges
    PROVE  Prompt'
<1>1. PICK s \in Slots, x \in Items :
        answers' = Append(answers, [kind |-> "update", slot |-> s, item |-> x])
  BY DEF ServerChanges
<1>2. UNCHANGED <<own, wire, accepted, status, bridge>>
  BY DEF ServerChanges, game
<1>3. answers \in Seq(Answer \cup Update)
  BY DEF IInv, TypeOK
<1>4. /\ Len(answers) \in Nat /\ Len(answers') = Len(answers) + 1
      /\ answers'[Len(answers) + 1] = [kind |-> "update", slot |-> s, item |-> x]
      /\ \A i \in 1 .. Len(answers) : answers'[i] = answers[i]
  BY <1>1, <1>3, AppendElements
<1>5. \A i \in 1 .. Len(answers') :
         IsAnswer(i)' => i \in 1 .. Len(answers) /\ IsAnswer(i) /\ answers'[i] = answers[i]
  BY <1>4 DEF IsAnswer
<1>6. OnTheWayBack'
  BY <1>2, <1>5 DEF Prompt, OnTheWayBack, bridge
<1>7. OnTheWire'
  BY <1>2, <1>5 DEF Prompt, OnTheWire, bridge
<1> QED
  BY <1>2, <1>6, <1>7 DEF Prompt, Heard, Past, bridge, status

(* The deadline of a prompt server is one that comes after the answer. *)
LEMMA TimeKeepsPrompt ==
    ASSUME IInv, Prompt, ~SlowServer, Time
    PROVE  Prompt'
<1>1. conf.active => conf \in Confirmation
  BY ActiveIsRecord DEF IInv, TypeOK
<1>2. CASE Deadline
  <2>1. heard = "ok" /\ conf.active
    BY <1>2 DEF Deadline
  <2>2. /\ conf'.active = conf.active /\ conf'.no = conf.no
        /\ conf'.from = conf.from /\ conf'.to = conf.to
    BY <1>1, <1>2, <2>1 DEF Deadline, Confirmation
  <2>3. UNCHANGED <<wire, answers, accepted, own, heard, last, ready, ack, reported>>
    BY <1>2 DEF Deadline, game, net, status
  <2> QED
    BY <2>1, <2>2, <2>3, NothingSent DEF Prompt, Heard, Past
<1>3. CASE MatchHeld
  <2>1. /\ conf'.active = conf.active /\ conf'.no = conf.no /\ conf'.expired = conf.expired
        /\ conf'.from = conf.from /\ conf'.to = conf.to
    BY <1>1, <1>3 DEF MatchHeld, Confirmation
  <2>2. UNCHANGED <<wire, answers, accepted, own, heard, last, ready, ack, reported>>
    BY <1>3 DEF MatchHeld, game, net, status
  <2> QED
    BY <2>1, <2>2, NothingSent DEF Prompt, Heard, Past
<1>4. CASE SilentHud \/ ReleaseDue
  <2>1. UNCHANGED <<conf, wire, answers, accepted, own, heard, last, ready, ack, reported>>
    BY <1>4 DEF SilentHud, ReleaseDue, game, net, status
  <2> QED
    BY <2>1, NothingSent DEF Prompt, Heard, Past
<1> QED
  BY <1>2, <1>3, <1>4 DEF Time

LEMMA RestKeepsPrompt ==
    ASSUME Prompt,
           \/ Tap \/ OpenContext \/ CloseContext \/ OtherTick \/ NotQuiet \/ TopFrame
           \/ KeyArrives \/ PlayerPresses \/ UNCHANGED vars
    PROVE  Prompt'
<1>1. UNCHANGED <<conf, wire, answers, accepted, own, heard, last, ready, ack, reported>>
  <2>1. Tap \/ OpenContext \/ CloseContext
           => UNCHANGED <<conf, wire, answers, accepted, own, heard, last, ready, ack, reported>>
    BY DEF Tap, OpenContext, CloseContext, game, net, bridge, status
  <2>2. OtherTick \/ NotQuiet \/ TopFrame \/ KeyArrives \/ PlayerPresses \/ UNCHANGED vars
           => UNCHANGED <<conf, wire, answers, accepted, own, heard, last, ready, ack, reported>>
    BY DEF OtherTick, NotQuiet, TopFrame, KeyArrives, PlayerPresses, vars, game, net, bridge, status
  <2> QED
    BY <2>1, <2>2
<1> QED
  BY <1>1, NothingSent DEF Prompt, Heard, Past

(* The player's own requests are counted. *)
LEMMA OwnRequestsAreCounted ==
    ASSUME TypeOK, [Next]_vars, owns' = 0
    PROVE  owns = 0 /\ ~PlayerOpensRequest
<1>1. owns \in Nat
  BY DEF TypeOK
<1>2. ~PlayerOpensRequest
  BY <1>1 DEF PlayerOpensRequest
<1>3. Tap \/ Bottomd \/ PlayerPresses \/ KeyArrives \/ PlayerSendsRequest \/ UNCHANGED vars => owns' = owns
  BY DEF Tap, Bottomd, OpenContext, CloseContext, PlayerPresses, KeyArrives, PlayerSendsRequest,
         vars, history
<1>4. Frame => owns' = owns
  BY DEF Frame, HudTick, OtherTick, ProcessCommand, NotQuiet, TakePending, CheckInContext, TopFrame, history
<1>5. Time \/ Network \/ ServerChanges => owns' = owns
  BY DEF Time, SilentHud, MatchHeld, Deadline, ReleaseDue, Network, ServerAnswers, ReceiveAnswer,
         ReceiveUpdate, ServerChanges, history
<1> QED
  BY <1>2, <1>3, <1>4, <1>5 DEF Next, Player

LEMMA PromptStep ==
    ASSUME IInv, Prompt, ~SlowServer, [Next]_vars, ~PlayerOpensRequest
    PROVE  Prompt'
<1>1. CASE HudTick
  BY <1>1, CheckKeepsPrompt DEF HudTick, net
<1>2. CASE CheckInContext
  BY <1>2, CheckKeepsPrompt DEF CheckInContext, net
<1>3. ~PlayerSendsRequest
  BY DEF PlayerSendsRequest, Prompt
<1> QED
  BY <1>1, <1>2, <1>3, ProcessKeepsPrompt, TakeKeepsPrompt, ServerAnswersPromptly,
     ReceiveAnswerKeepsPrompt, ReceiveUpdateKeepsPrompt, ServerChangesKeepsPrompt, TimeKeepsPrompt,
     RestKeepsPrompt
  DEF Next, Player, Bottomd, Frame, Network

LEMMA PromptAnswersInvariant ==
    ASSUME ~SlowServer
    PROVE  Spec => []PromptAnswers
<1>1. Init => PromptAnswers
  BY DEF Init, PromptAnswers, Prompt, OnTheWire, OnTheWayBack, Heard, Past, NoConfirmation
<1>2. IInv /\ PromptAnswers /\ [Next]_vars => PromptAnswers'
  BY OwnRequestsAreCounted, PromptStep DEF IInv, PromptAnswers
<1> QED
  BY <1>1, <1>2, HandshakeInvariant, PTL DEF Spec

(* With a server that answers within the deadline, a move acknowledged as  *)
(* done is one the server did, for any number of moves and of changes the  *)
(* server makes by itself.                                                 *)
THEOREM ReportsAreTrue ==
    ASSUME ~SlowServer
    PROVE  Spec => []AckedOkIsOnServer
<1>1. PromptAnswers => AckedOkIsOnServer
  BY DEF PromptAnswers, Prompt, Past, AckedOkIsOnServer
<1> QED
  BY <1>1, PromptAnswersInvariant, PTL

----------------------------------------------------------------------------
(* The two inventories. *)

(* Taking the prediction back, and predicting, are inverse to one another. *)
LEMMA RestoredIsBefore ==
    ASSUME NEW inv \in Inventory, NEW a \in Slots, NEW b \in Slots
    PROVE  Restored(Swapped(inv, a, b), a, inv[a], b, inv[b]) = inv
BY DEF Restored, Swapped, Inventory

LEMMA SwapAfterRestore ==
    ASSUME NEW inv \in Inventory, NEW a \in Slots, NEW b \in Slots, a # b,
           NEW x \in Items, NEW y \in Items, inv[a] = y, inv[b] = x
    PROVE  Swapped(Restored(inv, a, x, b, y), a, b) = inv
BY DEF Restored, Swapped, Inventory

LEMMA PredictedInventory ==
    ASSUME NEW inv \in Inventory, NEW a \in Slots, NEW b \in Slots, a # b
    PROVE  Swapped(inv, a, b)[a] = inv[b] /\ Swapped(inv, a, b)[b] = inv[a]
BY DEF Swapped, Inventory

(* Nothing the inventories depend on changes. *)
LEMMA SameStays ==
    ASSUME SameInventory, UNCHANGED <<answers, local, server, accepted, reported>>,
           conf'.active = conf.active,
           conf.active => /\ conf'.no = conf.no /\ conf'.from = conf.from /\ conf'.to = conf.to
                          /\ conf'.oldFrom = conf.oldFrom /\ conf'.oldTo = conf.oldTo,
           changes' = 0 /\ owns' = 0 => changes = 0 /\ owns = 0
    PROVE  SameInventory'
<1> SUFFICES ASSUME Undisturbed' PROVE Same'
  BY DEF SameInventory
<1>1. Undisturbed
  BY DEF Undisturbed, InHand
<1>2. Same
  BY <1>1 DEF SameInventory
<1> QED
  BY <1>2 DEF Same, Predicted, IsAnswer

(* A rejected move is taken back and a confirmed one has happened; a move  *)
(* given up after it was accepted disturbs.                                *)
LEMMA CheckKeepsSame ==
    ASSUME IInv, PromptAnswers, SameInventory, NEW inv, CheckConfirmation(inv),
           UNCHANGED <<answers, server, accepted, changes, owns>>
    PROVE  SameInventory'
<1>1. conf.active => conf \in Confirmation
  BY ActiveIsRecord DEF IInv, TypeOK
<1>2. CASE ~conf.active /\ UNCHANGED <<conf, heard, local, status>>
  BY <1>2, SameStays DEF status
<1>3. CASE conf.active /\ conf' = NoConfirmation
           /\ \/ FailsConfirmation(inv) /\ Rollback /\ Finish(conf.no, "invalid")
              \/ Confirmable(inv) /\ Finish(conf.no, "ok") /\ UNCHANGED local
  <2> SUFFICES ASSUME Undisturbed' PROVE Same'
    BY DEF SameInventory
  <2>1. ~conf'.active /\ InHand' = {} /\ changes = 0 /\ owns = 0 /\ accepted \subseteq reported'
    BY <1>3 DEF NoConfirmation, InHand, Undisturbed
  <2>2. reported' \subseteq reported \cup {conf.no}
    BY <1>3 DEF Finish
  <2>3. Same /\ Predicted
    BY <1>3, <2>1, <2>2 DEF SameInventory, Undisturbed, InHand, Same
  <2>4. ack < last /\ conf.no = last /\ ack \in Nat /\ last \in Nat
    BY <1>3, NumbersAreNaturals DEF IInv, Handshake
  <2>5. Heard /\ conf.no \notin reported
    BY <2>1, <2>4 DEF PromptAnswers, Prompt, Past
  <2>6. CASE FailsConfirmation(inv) /\ Rollback /\ Finish(conf.no, "invalid")
    <3>1. conf.no \notin accepted
      BY <2>1, <2>5, <2>6 DEF Finish
    <3>2. local' = server
      BY <2>3, <2>6, <3>1 DEF Predicted, Rollback
    <3> QED
      BY <2>1, <2>3, <3>2 DEF Same, IsAnswer
  <2>7. CASE Confirmable(inv) /\ UNCHANGED local
    <3>1. conf.no \in accepted
      BY <1>3, <2>5, <2>7 DEF Confirmable, Matches, Heard
    <3> QED
      BY <2>1, <2>3, <2>7, <3>1 DEF Same, Predicted, IsAnswer
  <2> QED
    BY <1>3, <2>6, <2>7
<1>4. CASE conf.active /\ conf' = [conf EXCEPT !.matched = Matches(inv), !.held = @ /\ Matches(inv)]
           /\ UNCHANGED <<heard, local, status>>
  <2>1. /\ conf'.active = conf.active /\ conf'.no = conf.no
        /\ conf'.from = conf.from /\ conf'.to = conf.to
        /\ conf'.oldFrom = conf.oldFrom /\ conf'.oldTo = conf.oldTo
    BY <1>1, <1>4 DEF Confirmation
  <2> QED
    BY <1>4, <2>1, SameStays DEF status
<1> QED
  BY <1>2, <1>3, <1>4 DEF CheckConfirmation

(* The prediction of a submitted move starts from equal inventories. *)
LEMMA TakeKeepsSame ==
    ASSUME IInv, PromptAnswers, SameInventory, TakePending
    PROVE  SameInventory'
<1>1. /\ ready /\ UNCHANGED <<answers, server, accepted, changes, owns>>
      /\ MoveRefused \/ SubmitMove
  BY DEF TakePending
<1>2. ~conf.active /\ pending.no = last
  BY <1>1 DEF IInv, Handshake
<1>3. CASE MoveRefused
  <2>1. UNCHANGED <<conf, local, reported>>
    BY <1>3 DEF MoveRefused, Finish
  <2> QED
    BY <1>1, <2>1, SameStays
<1>4. CASE SubmitMove
  <2> DEFINE a == pending.from
             b == pending.to
  <2> SUFFICES ASSUME Undisturbed' PROVE Same'
    BY DEF SameInventory
  <2>1. /\ a \in Slots /\ b \in Slots /\ a # b
        /\ local \in Inventory /\ local' = Swapped(local, a, b)
    BY <1>4 DEF SubmitMove, IInv, TypeOK, Command
  <2>2. /\ conf'.active /\ conf'.no = last /\ conf'.from = a /\ conf'.to = b
        /\ conf'.oldFrom = local[a] /\ conf'.oldTo = local[b]
        /\ UNCHANGED status
    BY <1>2, <1>4 DEF SubmitMove
  <2>3. changes = 0 /\ owns = 0 /\ accepted \subseteq reported \cup {last}
    BY <1>1, <2>2 DEF Undisturbed, InHand, status
  <2>4. last \notin accepted
    BY <1>1, <2>3 DEF PromptAnswers, Prompt, Past
  <2>5. Same /\ local = server
    BY <1>2, <2>3, <2>4 DEF SameInventory, Undisturbed, InHand, Same
  <2>6. Predicted'
    BY <1>1, <2>1, <2>2, <2>4, <2>5, RestoredIsBefore, PredictedInventory DEF Predicted
  <2> QED
    BY <1>1, <2>2, <2>5, <2>6 DEF Same, IsAnswer
<1> QED
  BY <1>1, <1>3, <1>4

(* What the server does with the move is what was predicted. *)
LEMMA ServerAnswersKeepsSame ==
    ASSUME IInv, PromptAnswers, SameInventory, ServerAnswers
    PROVE  SameInventory'
<1> DEFINE r == Head(wire)
<1> SUFFICES ASSUME Undisturbed' PROVE Same'
  BY DEF SameInventory
<1>1. wire # <<>> /\ UNCHANGED <<conf, reported, local, changes, owns>>
  BY DEF ServerAnswers, bridge, status, game, history
<1>2. changes = 0 /\ owns = 0
  BY <1>1 DEF Undisturbed
<1>3. /\ conf.active /\ conf.no \notin accepted
      /\ r.by = "bridge" /\ r.no = conf.no /\ r.from = conf.from /\ r.to = conf.to
  BY <1>1, <1>2 DEF PromptAnswers, Prompt, OnTheWire
<1>4. accepted \subseteq accepted'
  BY DEF ServerAnswers
<1>5. Same /\ Predicted
  BY <1>1, <1>2, <1>3, <1>4 DEF SameInventory, Undisturbed, InHand, Same
<1>6. /\ conf.from \in Slots /\ conf.to \in Slots /\ conf.oldFrom \in Items /\ conf.oldTo \in Items
      /\ local \in Inventory
  BY <1>3, ActiveIsRecord, ConfirmationFields DEF IInv, TypeOK
<1>7. PICK ok \in BOOLEAN :
        /\ answers' = Append(answers, [kind |-> "answer", ok |-> ok, request |-> r])
        /\ IF ok THEN server' = Swapped(server, r.from, r.to) /\ accepted' = accepted \cup {r.no}
                 ELSE UNCHANGED <<server, accepted>>
  BY <1>3 DEF ServerAnswers
<1>8. Predicted'
  <2>1. CASE ok
    <3>1. server' = Swapped(Restored(local, conf.from, conf.oldFrom, conf.to, conf.oldTo),
                            conf.from, conf.to)
      BY <1>3, <1>5, <1>7, <2>1 DEF Predicted
    <3>2. server' = local
      BY <1>5, <1>6, <3>1, SwapAfterRestore DEF Predicted
    <3> QED
      BY <1>1, <1>3, <1>5, <1>7, <2>1, <3>2 DEF Predicted
  <2>2. CASE ~ok
    BY <1>1, <1>5, <1>7, <2>2 DEF Predicted
  <2> QED
    BY <2>1, <2>2
<1>9. \A i \in 1 .. Len(answers') : IsAnswer(i)'
  <2> DEFINE x == [kind |-> "answer", ok |-> ok, request |-> r]
  <2>1. answers \in Seq(Answer \cup Update) /\ answers' = Append(answers, x)
    BY <1>7 DEF IInv, TypeOK
  <2>2. x.kind = "answer"
    OBVIOUS
  <2> HIDE DEF x
  <2>3. /\ Len(answers) \in Nat /\ Len(answers') = Len(answers) + 1
        /\ answers'[Len(answers) + 1] = x
        /\ \A i \in 1 .. Len(answers) : answers'[i] = answers[i]
    BY <2>1, AppendElements
  <2> QED
    BY <1>5, <2>2, <2>3 DEF Same, IsAnswer
<1> QED
  BY <1>1, <1>3, <1>8, <1>9 DEF Same

(* The answer to the move in hand leaves the inventory to the prediction. *)
LEMMA ReceiveKeepsSame ==
    ASSUME IInv, PromptAnswers, SameInventory, ReceiveAnswer \/ ReceiveUpdate
    PROVE  SameInventory'
<1> SUFFICES ASSUME Undisturbed' PROVE Same'
  BY DEF SameInventory
<1>1. /\ answers # <<>> /\ answers' = Tail(answers)
      /\ UNCHANGED <<conf, server, accepted, reported, changes, owns>>
  BY DEF ReceiveAnswer, ReceiveUpdate, bridge, status, history
<1>2. Undisturbed
  BY <1>1 DEF Undisturbed, InHand
<1>3. Same
  BY <1>2 DEF SameInventory
<1>4. answers \in Seq(Answer \cup Update)
  BY DEF IInv, TypeOK
<1>5. 1 \in 1 .. Len(answers) /\ Head(answers) = answers[1]
  BY <1>1, <1>4, TailElements
<1>6. ReceiveAnswer /\ answers[1].request.by = "bridge"
  BY <1>2, <1>3, <1>5
  DEF Same, IsAnswer, ReceiveUpdate, Undisturbed, PromptAnswers, Prompt, OnTheWayBack
<1>7. local' = local
  BY <1>5, <1>6 DEF ReceiveAnswer
<1>8. \A i \in 1 .. Len(answers') : IsAnswer(i)'
  BY <1>1, <1>3, <1>4, TailElements DEF Same, IsAnswer
<1> QED
  BY <1>1, <1>3, <1>7, <1>8 DEF Same, Predicted

LEMMA RestKeepsSame ==
    ASSUME IInv, PromptAnswers, SameInventory,
           \/ Tap \/ Bottomd \/ OtherTick \/ ProcessCommand \/ NotQuiet \/ TopFrame \/ Time
           \/ KeyArrives \/ PlayerPresses \/ PlayerOpensRequest \/ PlayerSendsRequest
           \/ ServerChanges \/ UNCHANGED vars
    PROVE  SameInventory'
<1>0. conf.active => conf \in Confirmation
  BY ActiveIsRecord DEF IInv, TypeOK
<1>1. CASE MatchHeld \/ Deadline
  <2>1. UNCHANGED <<answers, local, server, accepted, reported, changes, owns>>
    BY <1>1 DEF MatchHeld, Deadline, game, net, status, history
  <2>2. /\ conf'.active = conf.active /\ conf'.no = conf.no
        /\ conf'.from = conf.from /\ conf'.to = conf.to
        /\ conf'.oldFrom = conf.oldFrom /\ conf'.oldTo = conf.oldTo
    BY <1>0, <1>1 DEF MatchHeld, Deadline, Confirmation
  <2> QED
    BY <2>1, <2>2, SameStays
<1>2. CASE UNCHANGED <<answers, local, server, accepted, reported, conf, changes, owns>>
  BY <1>2, SameStays
<1>3. Tap \/ OpenContext \/ CloseContext \/ OtherTick \/ NotQuiet \/ TopFrame
         => UNCHANGED <<answers, local, server, accepted, reported, conf, changes, owns>>
  BY DEF Tap, OpenContext, CloseContext, OtherTick, NotQuiet, TopFrame, game, net, bridge, status, history
<1>4. SilentHud \/ ReleaseDue \/ KeyArrives \/ PlayerPresses \/ UNCHANGED vars
         => UNCHANGED <<answers, local, server, accepted, reported, conf, changes, owns>>
  BY DEF SilentHud, ReleaseDue, KeyArrives, PlayerPresses, vars, game, net, bridge, status, history
<1>5. CASE ProcessCommand
  <2>1. UNCHANGED <<answers, local, server, accepted, conf, changes, owns>>
    BY <1>5 DEF ProcessCommand, net, history
  <2>2. reported' = reported
    BY <1>5 DEF ProcessCommand, RefuseBusy, QueueMove, status
  <2> QED
    BY <2>1, <2>2, SameStays
<1>6. CASE PlayerSendsRequest
  <2>1. own /\ owns' = owns
    BY <1>6 DEF PlayerSendsRequest, history
  <2> QED
    BY <2>1 DEF SameInventory, Undisturbed, PromptAnswers, Prompt
<1>7. CASE PlayerOpensRequest \/ ServerChanges
  <2>1. changes \in Nat /\ owns \in Nat
    BY DEF IInv, TypeOK
  <2>2. owns' = owns + 1 \/ changes' = changes + 1
    BY <1>7 DEF PlayerOpensRequest, ServerChanges
  <2> QED
    BY <2>1, <2>2 DEF SameInventory, Undisturbed
<1> QED
  BY <1>1, <1>2, <1>3, <1>4, <1>5, <1>6, <1>7 DEF Bottomd, Time

LEMMA SameStep == IInv /\ PromptAnswers /\ SameInventory /\ [Next]_vars => SameInventory'
<1> SUFFICES ASSUME IInv, PromptAnswers, SameInventory, [Next]_vars PROVE SameInventory'
  OBVIOUS
<1>1. CASE HudTick
  BY <1>1, CheckKeepsSame DEF HudTick, net, history
<1>2. CASE CheckInContext
  BY <1>2, CheckKeepsSame DEF CheckInContext, net, history
<1> QED
  BY <1>1, <1>2, TakeKeepsSame, ServerAnswersKeepsSame, ReceiveKeepsSame, RestKeepsSame
  DEF Next, Player, Frame, Network

(* At rest the client and the server agree, whatever the slots published   *)
(* when a move was submitted, unless the server disturbs: a rollback only  *)
(* ever takes back what the server did not do, or did unreported.          *)
THEOREM AgreeAtRest ==
    ASSUME ~SlowServer
    PROVE  Spec => []InSyncAtRest
<1>1. Init => SameInventory
  <2> SUFFICES ASSUME Init PROVE Same
    BY DEF SameInventory
  <2>1. local = server /\ ~conf.active
    BY DEF Init, NoConfirmation
  <2>2. Len(answers) = 0
    BY DEF Init
  <2> QED
    BY <2>1, <2>2 DEF Same
<1>2. SameInventory => InSyncAtRest
  BY DEF SameInventory, InSyncAtRest, AtRest, Undisturbed, Same, InHand
<1> QED
  BY <1>1, <1>2, SameStep, HandshakeInvariant, PromptAnswersInvariant, PTL DEF Spec

----------------------------------------------------------------------------
(* The screen. *)

LEMMA ToggleFollows ==
    ASSUME screen \in {"hud", "inventory"}, KeyArrives
    PROVE  screen' \in {"hud", "inventory"} /\ (screen' = "inventory" <=> screen = "hud")
BY DEF KeyArrives, ToggledScreen

LEMMA PressIsSent ==
    ASSUME ~KeyCanFail, PressKey
    PROVE  keys' = keys + 1
BY DEF PressKey

LEMMA ScreenStep ==
    ASSUME IInv, ScreenFollowsKeys, ~KeyCanFail, [Next]_vars
    PROVE  ScreenFollowsKeys'
<1> SUFFICES ASSUME presses' = 0
             PROVE  /\ screen' \in {"hud", "inventory"}
                    /\ key' = "wanted" => ctx' # 0
                    /\ screen' = "inventory" <=> (keys' + (IF Opened' THEN 1 ELSE 0)) % 2 = 1
  BY DEF ScreenFollowsKeys
<1>0. keys \in Nat /\ ctx \in Nat /\ key \in {"free", "wanted", "held"} /\ presses \in Nat
  BY NumbersAreNaturals DEF IInv, TypeOK
<1>a. ASSUME presses = 0
      PROVE  /\ screen \in {"hud", "inventory"}
             /\ key = "wanted" => ctx # 0
             /\ screen = "inventory" <=> (keys + (IF Opened THEN 1 ELSE 0)) % 2 = 1
  BY <1>a DEF ScreenFollowsKeys
<1>1. CASE Tap
  <2>1. command.no + 1 # 0
    BY NumbersAreNaturals DEF IInv
  <2>2. ctx = 0 /\ ctx' # 0 /\ key' = "wanted" /\ UNCHANGED <<keys, screen, presses>>
    BY <1>1, <2>1 DEF Tap, MayTap, game, history
  <2> QED
    BY <1>a, <2>2 DEF Opened
<1>2. CASE OpenContext
  <2>1. /\ key = "wanted" /\ key' = "free" /\ keys' = keys + 1
        /\ UNCHANGED <<ctx, screen, presses>>
    BY <1>2, PressIsSent DEF OpenContext, history
  <2> QED
    BY <1>0, <1>a, <2>1 DEF Opened
<1>3. CASE CloseContext
  <2>1. /\ ctx # 0 /\ key # "wanted" /\ ctx' = 0 /\ key' = "held" /\ keys' = keys + 1
        /\ UNCHANGED <<screen, presses>>
    BY <1>3, PressIsSent DEF CloseContext, history
  <2> QED
    BY <1>0, <1>a, <2>1 DEF Opened
<1>4. CASE KeyArrives
  <2>1. keys > 0 /\ keys' = keys - 1 /\ UNCHANGED <<ctx, key, presses>>
    BY <1>4 DEF KeyArrives, bottomd, history
  <2>2. screen' \in {"hud", "inventory"} /\ (screen' = "inventory" <=> screen = "hud")
    BY <1>4, <1>a, <2>1, ToggleFollows
  <2> QED
    BY <1>0, <1>a, <2>1, <2>2 DEF Opened
<1>5. CASE PlayerPresses
  BY <1>0, <1>5 DEF PlayerPresses
<1>6. CASE /\ UNCHANGED <<ctx, keys, screen, presses>>
           /\ key' = key \/ (key = "held" /\ key' = "free")
  BY <1>6, <1>a DEF Opened
<1>7. NotQuiet \/ TakePending \/ CheckInContext
         => /\ UNCHANGED <<ctx, keys, screen, presses>>
            /\ key' = key \/ (key = "held" /\ key' = "free")
  BY DEF NotQuiet, TakePending, CheckInContext, KeyIsUp, history
<1>8. HudTick \/ OtherTick \/ ProcessCommand \/ TopFrame \/ UNCHANGED vars
         => UNCHANGED <<ctx, key, keys, screen, presses>>
  BY DEF HudTick, OtherTick, ProcessCommand, TopFrame, vars, bottomd, game, history
<1>9. Time \/ PlayerOpensRequest \/ PlayerSendsRequest \/ Network \/ ServerChanges
         => UNCHANGED <<ctx, key, keys, screen, presses>>
  BY DEF Time, SilentHud, MatchHeld, Deadline, ReleaseDue, PlayerOpensRequest, PlayerSendsRequest,
         Network, ServerAnswers, ReceiveAnswer, ReceiveUpdate, ServerChanges, bottomd, game, history
<1> QED
  BY <1>1, <1>2, <1>3, <1>4, <1>5, <1>6, <1>7, <1>8, <1>9 DEF Next, Player, Bottomd, Frame

(* Whatever the bridge and the server do, and however late the presses     *)
(* arrive, bottomd leaves the game in the screen it found, if no press is  *)
(* lost and the player presses nothing.                                    *)
THEOREM ScreenIsGivenBack ==
    ASSUME ~KeyCanFail
    PROVE  Spec => []GameLeftAsFound
<1>1. Init => ScreenFollowsKeys
  BY DEF Init, ScreenFollowsKeys, Opened
<1>2. IInv /\ ScreenFollowsKeys => GameLeftAsFound
  BY DEF ScreenFollowsKeys, GameLeftAsFound, Opened
<1>3. IInv /\ ScreenFollowsKeys /\ [Next]_vars => ScreenFollowsKeys'
  BY ScreenStep
<1> QED
  BY <1>1, <1>2, <1>3, HandshakeInvariant, PTL DEF Spec

=============================================================================
