--------------------------- MODULE LaunchSession ---------------------------
(***************************************************************************)
(* One game session on the 64-bit path: weston_launch.sh with the startup  *)
(* watchdog of lib/watchdog.sh and its own shutdown watchdog.              *)
(*                                                                         *)
(* The script takes the device over (frontend, CPU policies, framebuffer   *)
(* mode), starts the game behind a wrapper, waits, and gives everything    *)
(* back; HUP, INT and TERM end it between two commands, through the same   *)
(* cleanup.  Two loops of their own look at the client once a second and   *)
(* end it when it makes no progress or does not come out of its shutdown.  *)
(*                                                                         *)
(* A policy's governor and frequency ceiling are one knob, and so is the   *)
(* GPU's minimum frequency.  `Second` is one second of every clock; the    *)
(* five and three seconds between a TERM and a KILL have no length.        *)
(* A wrapper that never starts the client, a client that only spins, and   *)
(* clients of other sessions are left out.                                 *)
(* Definitions ending in Bug are mutations, used by nothing here.          *)
(***************************************************************************)
EXTENDS Naturals

CONSTANTS
    Policies,         \* the tuned knobs under /sys
    SignalsAt,        \* the points of the script where a signal may arrive
    MaxSignals,       \* bound: signals in one session
    STALL_SECONDS,    \* MCPE_STALL_SECONDS, 90
    STARTUP_TIMEOUT,  \* MCPE_STARTUP_TIMEOUT where it is set
    GRACE_SECONDS     \* MCPE_SHUTDOWN_GRACE_SECONDS, 15

CleanupPoints == {"reap", "restore mode", "restore policies", "restart frontend"}
Points == {"check", "note frontend", "stop frontend", "tune", "mount", "mode", "read back",
           "launch", "wait", "cleanup", "exit"} \cup CleanupPoints

ASSUME SignalsAssumption == SignalsAt \subseteq Points \ {"exit"} /\ MaxSignals \in Nat
ASSUME SecondsAssumption ==
    {STALL_SECONDS, STARTUP_TIMEOUT, GRACE_SECONDS} \subseteq Nat \ {0}

VARIABLES
    settings,    \* MCPE_MANAGE_FRONTEND, MCPE_PERFORMANCE_MODE, MCPE_UI_ZOOM,
                 \* MCPE_MEASURE_FPS and MCPE_STARTUP_TIMEOUT
    (* the device *)
    frontend, governor, mode,
    (* the script *)
    pc, wasRunning, saved, active, modeChanged, cleaned, status,
    (* the game *)
    pipe,        \* the launch pipeline, which both loops call their supervisor
    client, drew,
    stuck,       \* the client does nothing
    progressed,  \* it did something since the last second
    sent,        \* the strongest signal sent to it
    (* the loops *)
    watch, stalled, elapsed,
    stopper, grace,
    (* history *)
    still,       \* seconds since the client last did something
    signals

device == <<frontend, governor, mode>>
script == <<pc, wasRunning, saved, active, modeChanged, cleaned, status>>
game == <<pipe, client, drew, stuck, progressed, sent>>
loops == <<watch, stalled, elapsed, stopper, grace>>
history == <<still, signals>>
vars == <<settings, device, script, game, loops, history>>

Settings == [frontend : BOOLEAN, tune : BOOLEAN, zoom : BOOLEAN, fps : BOOLEAN, cap : BOOLEAN]
Alive == client \in {"starting", "drawing", "stopping"}

DeviceType ==
    /\ settings \in Settings
    /\ frontend \in {"up", "down"}
    /\ governor \in [Policies -> {"own", "performance"}]
    /\ mode \in {"panel", "zoomed"}

ScriptType ==
    /\ pc \in Points
    /\ wasRunning \in BOOLEAN /\ saved \in SUBSET Policies
    /\ active \in BOOLEAN /\ modeChanged \in BOOLEAN /\ cleaned \in BOOLEAN
    /\ status \in {"ok", "bad"}

GameType ==
    /\ pipe \in {"none", "alive", "gone"}
    /\ client \in {"none", "starting", "drawing", "stopping", "gone"}
    /\ drew \in BOOLEAN /\ stuck \in BOOLEAN /\ progressed \in BOOLEAN
    /\ sent \in {"none", "term", "kill"}

LoopsType ==
    /\ watch \in {"off", "seeking", "watching", "killing", "done"}
    /\ stalled \in 0 .. STALL_SECONDS /\ elapsed \in 0 .. STARTUP_TIMEOUT
    /\ stopper \in {"off", "scanning", "grace", "killing", "done"}
    /\ grace \in 0 .. GRACE_SECONDS

HistoryType ==
    /\ still \in 0 .. STALL_SECONDS /\ signals \in 0 .. MaxSignals

TypeOK == DeviceType /\ ScriptType /\ GameType /\ LoopsType /\ HistoryType

Init ==
    /\ settings \in Settings
    /\ frontend = "up" /\ governor = [p \in Policies |-> "own"] /\ mode = "panel"
    /\ pc = "check"
    /\ wasRunning = FALSE /\ saved = {} /\ active = FALSE /\ modeChanged = FALSE
    /\ cleaned = FALSE /\ status = "ok"
    /\ pipe = "none" /\ client = "none" /\ drew = FALSE /\ stuck = FALSE
    /\ progressed = FALSE /\ sent = "none"
    /\ watch = "off" /\ stalled = 0 /\ elapsed = 0 /\ stopper = "off" /\ grace = 0
    /\ still = 0 /\ signals = 0

----------------------------------------------------------------------------
(* Taking the device over. *)

Fail == pc' = "cleanup" /\ status' = "bad"

Check ==
    /\ pc = "check"
    /\ \/ pc' = "note frontend" /\ UNCHANGED status
       \/ Fail
    /\ UNCHANGED <<settings, device, wasRunning, saved, active, modeChanged, cleaned, game, loops, history>>

(* stop_emulationstation: the flag comes before the stop. *)
NoteFrontend ==
    /\ pc = "note frontend"
    /\ IF settings.frontend
       THEN wasRunning' = TRUE /\ pc' = "stop frontend"
       ELSE pc' = "tune" /\ UNCHANGED wasRunning
    /\ UNCHANGED <<settings, device, saved, active, modeChanged, cleaned, status, game, loops, history>>

StopFrontend ==
    /\ pc = "stop frontend"
    /\ frontend' = "down"
    /\ pc' = "tune"
    /\ UNCHANGED <<settings, governor, mode, wasRunning, saved, active, modeChanged, cleaned, status,
                   game, loops, history>>

(* enable_performance_mode: a policy may not offer the governor. *)
Tune(p) ==
    /\ pc = "tune" /\ settings.tune /\ p \notin saved
    /\ saved' = saved \cup {p}
    /\ \/ governor' = [governor EXCEPT ![p] = "performance"]
       \/ UNCHANGED governor
    /\ UNCHANGED <<settings, frontend, mode, pc, wasRunning, active, modeChanged, cleaned, status,
                   game, loops, history>>

Tuned ==
    /\ pc = "tune" /\ (settings.tune => saved = Policies)
    /\ active' = settings.tune
    /\ pc' = "mount"
    /\ UNCHANGED <<settings, device, wasRunning, saved, modeChanged, cleaned, status, game, loops, history>>

Mount ==
    /\ pc = "mount"
    /\ \/ pc' = "mode" /\ UNCHANGED status
       \/ Fail
    /\ UNCHANGED <<settings, device, wasRunning, saved, active, modeChanged, cleaned, game, loops, history>>

(* The panel may take the mode or keep its own, whatever fbset says. *)
SetMode ==
    /\ pc = "mode"
    /\ IF settings.zoom
       THEN mode' \in {"panel", "zoomed"} /\ pc' = "read back"
       ELSE pc' = "launch" /\ UNCHANGED mode
    /\ UNCHANGED <<settings, frontend, governor, wasRunning, saved, active, modeChanged, cleaned, status,
                   game, loops, history>>

ReadBack ==
    /\ pc = "read back"
    /\ modeChanged' = (mode = "zoomed")
    /\ pc' = "launch"
    /\ UNCHANGED <<settings, device, wasRunning, saved, active, cleaned, status, game, loops, history>>

Launch ==
    /\ pc = "launch"
    /\ pipe' = "alive" /\ stopper' = "scanning" /\ watch' = "seeking"
    /\ pc' = "wait"
    /\ UNCHANGED <<settings, device, wasRunning, saved, active, modeChanged, cleaned, status,
                   client, drew, stuck, progressed, sent, stalled, elapsed, grace, history>>

(* `wait` returns; both loops are stopped. *)
WaitReturns ==
    /\ pc = "wait" /\ pipe = "gone"
    /\ watch' = "off" /\ stopper' = "off"
    /\ pc' = "cleanup"
    /\ UNCHANGED <<settings, device, wasRunning, saved, active, modeChanged, cleaned, status,
                   game, stalled, elapsed, grace, history>>

----------------------------------------------------------------------------
(* cleanup, and the signals that lead to it. *)

NoTrapBug ==
    /\ pc \in SignalsAt /\ signals < MaxSignals
    /\ signals' = signals + 1
    /\ pc' = "exit" /\ status' = "bad"
    /\ UNCHANGED <<settings, device, wasRunning, saved, active, modeChanged, cleaned, game, loops,
                   still>>

Signal ==
    /\ pc \in SignalsAt /\ signals < MaxSignals
    /\ signals' = signals + 1
    /\ pc' = IF cleaned THEN "exit" ELSE "cleanup"
    /\ status' = "bad"
    /\ UNCHANGED <<settings, device, wasRunning, saved, active, modeChanged, cleaned, game, loops,
                   still>>

Cleanup ==
    /\ pc = "cleanup"
    /\ cleaned' = TRUE
    /\ stopper' = "off"
    /\ pipe' = "gone"
    /\ sent' = IF Alive /\ sent = "none" THEN "term" ELSE sent
    /\ pc' = "reap"
    /\ UNCHANGED <<settings, device, wasRunning, saved, active, modeChanged, status,
                   client, drew, stuck, progressed, watch, stalled, elapsed, grace, history>>

(* terminate_session_clients *)
Reap ==
    /\ pc = "reap"
    /\ sent' = IF Alive THEN "kill" ELSE sent
    /\ pc' = "restore mode"
    /\ UNCHANGED <<settings, device, wasRunning, saved, active, modeChanged, cleaned, status,
                   pipe, client, drew, stuck, progressed, loops, history>>

RestoreMode ==
    /\ pc = "restore mode"
    /\ mode' = IF modeChanged THEN "panel" ELSE mode
    /\ pc' = "restore policies"
    /\ UNCHANGED <<settings, frontend, governor, wasRunning, saved, active, modeChanged, cleaned, status,
                   game, loops, history>>

(* restore_performance_mode *)
RestorePolicies ==
    /\ pc = "restore policies"
    /\ governor' = IF active THEN [p \in Policies |-> IF p \in saved THEN "own" ELSE governor[p]]
                   ELSE governor
    /\ active' = FALSE
    /\ pc' = "restart frontend"
    /\ UNCHANGED <<settings, frontend, mode, wasRunning, saved, modeChanged, cleaned, status,
                   game, loops, history>>

(* start_emulationstation *)
RestartFrontend ==
    /\ pc = "restart frontend"
    /\ frontend' = IF wasRunning THEN "up" ELSE frontend
    /\ wasRunning' = FALSE
    /\ pc' = "exit"
    /\ UNCHANGED <<settings, governor, mode, saved, active, modeChanged, cleaned, status,
                   game, loops, history>>

Exited == pc = "exit" /\ UNCHANGED vars

----------------------------------------------------------------------------
(* The wrapper and the client. *)

GameOnly == <<settings, device, script, loops, history>>

StartClient ==
    /\ pipe = "alive" /\ client = "none"
    /\ client' = "starting" /\ progressed' = TRUE
    /\ UNCHANGED <<pipe, drew, stuck, sent, GameOnly>>

Draw ==
    /\ client = "starting" /\ ~stuck
    /\ client' = "drawing" /\ drew' = TRUE /\ progressed' = TRUE
    /\ UNCHANGED <<pipe, stuck, sent, GameOnly>>

(* The player leaves: the stop marker appears in the log. *)
Quit ==
    /\ client = "drawing" /\ ~stuck
    /\ client' = "stopping" /\ progressed' = TRUE
    /\ UNCHANGED <<pipe, drew, stuck, sent, GameOnly>>

(* A slow card, or a deadlock. *)
Stick ==
    /\ Alive /\ ~stuck
    /\ stuck' = TRUE
    /\ UNCHANGED <<pipe, client, drew, progressed, sent, GameOnly>>

Resume ==
    /\ Alive /\ stuck
    /\ stuck' = FALSE /\ progressed' = TRUE
    /\ UNCHANGED <<pipe, client, drew, sent, GameOnly>>

Ends(how) ==
    /\ client' = "gone" /\ pipe' = "gone"
    /\ status' = IF cleaned THEN status ELSE how
    /\ UNCHANGED <<drew, stuck, progressed, sent, settings, device, pc, wasRunning, saved, active,
                   modeChanged, cleaned, loops, history>>

Stops == client = "stopping" /\ ~stuck /\ Ends("ok")
Crashes == Alive /\ ~stuck /\ Ends("bad")
WrapperFails == pipe = "alive" /\ client = "none" /\ Ends("bad")
Terminated == Alive /\ sent = "term" /\ Ends("bad")
Killed == Alive /\ sent = "kill" /\ Ends("bad")

----------------------------------------------------------------------------
(* mcpe_watchdog_body. *)

WatchOnly == <<settings, device, script, pipe, client, drew, stuck, progressed, stopper, grace>>

FindClient ==
    /\ watch = "seeking" /\ pipe = "alive" /\ Alive
    /\ watch' = "watching" /\ stalled' = 0
    /\ UNCHANGED <<sent, elapsed, history, WatchOnly>>

SupervisorGone ==
    /\ \/ watch \in {"seeking", "watching"} /\ pipe = "gone"
       \/ watch = "watching" /\ ~Alive
    /\ watch' = "done"
    /\ UNCHANGED <<sent, stalled, elapsed, history, WatchOnly>>

(* A frame-metrics row disarms the watchdog for the rest of the session. *)
SeesFrame == settings.fps /\ drew

FirstFrame ==
    /\ watch = "watching" /\ pipe = "alive" /\ Alive /\ SeesFrame
    /\ watch' = "done"
    /\ UNCHANGED <<sent, stalled, elapsed, history, WatchOnly>>

Hang == stalled >= STALL_SECONDS
Overdue == settings.cap /\ elapsed >= STARTUP_TIMEOUT

HangKill ==
    /\ watch = "watching" /\ pipe = "alive" /\ Alive /\ ~SeesFrame
    /\ Hang \/ Overdue
    /\ watch' = "killing"
    /\ sent' = IF sent = "none" THEN "term" ELSE sent
    /\ UNCHANGED <<stalled, elapsed, history, WatchOnly>>

TermOnlyBug ==
    /\ watch = "killing"
    /\ watch' = "done"
    /\ UNCHANGED <<sent, stalled, elapsed, history, WatchOnly>>

HangFinish ==
    /\ watch = "killing"
    /\ watch' = "done"
    /\ sent' = IF Alive THEN "kill" ELSE sent
    /\ UNCHANGED <<stalled, elapsed, history, WatchOnly>>

Watchdog == FindClient \/ SupervisorGone \/ FirstFrame \/ HangKill \/ HangFinish

(* shutdown_watchdog. *)

StopOnly == <<settings, device, script, pipe, client, drew, stuck, progressed, watch, stalled, elapsed, history>>

SeesStop ==
    /\ stopper = "scanning" /\ pipe = "alive" /\ client = "stopping"
    /\ stopper' = "grace"
    /\ UNCHANGED <<sent, grace, StopOnly>>

StoppedInTime ==
    /\ stopper \in {"scanning", "grace"} /\ pipe = "gone"
    /\ stopper' = "done"
    /\ UNCHANGED <<sent, grace, StopOnly>>

GraceIsOver == grace >= GRACE_SECONDS

StopKill ==
    /\ stopper = "grace" /\ pipe = "alive" /\ GraceIsOver
    /\ stopper' = "killing"
    /\ sent' = IF Alive /\ sent = "none" THEN "term" ELSE sent
    /\ UNCHANGED <<grace, StopOnly>>

StopFinish ==
    /\ stopper = "killing"
    /\ stopper' = "done"
    /\ sent' = IF Alive THEN "kill" ELSE sent
    /\ UNCHANGED <<grace, StopOnly>>

Stopper == SeesStop \/ StoppedInTime \/ StopKill \/ StopFinish

----------------------------------------------------------------------------
(* A loop that has something to do does it within its second. *)
Due ==
    \/ watch = "watching" /\ pipe = "alive" /\ Alive /\ (SeesFrame \/ Hang \/ Overdue)
    \/ stopper = "grace" /\ pipe = "alive" /\ GraceIsOver

Capped(n, cap) == IF n < cap THEN n + 1 ELSE cap

StallKeptBug(n) == IF stuck /\ ~progressed THEN n + 1 ELSE n
Stalled(n) == IF stuck /\ ~progressed THEN n + 1 ELSE 0

Second ==
    /\ ~Due
    /\ still' = IF stuck /\ ~progressed THEN Capped(still, STALL_SECONDS) ELSE 0
    /\ stalled' = IF watch = "watching" /\ pipe = "alive" /\ Alive THEN Stalled(stalled) ELSE stalled
    /\ elapsed' = IF settings.cap /\ watch \in {"seeking", "watching"} THEN Capped(elapsed, STARTUP_TIMEOUT) ELSE elapsed
    /\ grace' = IF stopper = "grace" THEN Capped(grace, GRACE_SECONDS) ELSE grace
    /\ progressed' = FALSE
    /\ UNCHANGED <<settings, device, script, pipe, client, drew, stuck, sent, watch, stopper, signals>>

Script ==
    \/ Check \/ NoteFrontend \/ StopFrontend \/ (\E p \in Policies : Tune(p)) \/ Tuned
    \/ Mount \/ SetMode \/ ReadBack \/ Launch \/ WaitReturns
    \/ Cleanup \/ Reap \/ RestoreMode \/ RestorePolicies \/ RestartFrontend

Client == StartClient \/ Draw \/ Quit \/ Stick \/ Resume \/ Stops \/ Crashes \/ WrapperFails

Next == Script \/ Signal \/ Client \/ Terminated \/ Killed \/ Watchdog \/ Stopper \/ Second \/ Exited

Spec == Init /\ [][Next]_vars

(* The script and its two loops run on, time passes, and no client         *)
(* survives KILL.  Nothing is asked of the client, nor of the player.      *)
FairSpec ==
    Spec /\ WF_vars(Script) /\ WF_vars(Killed) /\ WF_vars(Watchdog) /\ WF_vars(Stopper)
         /\ WF_vars(Second)

----------------------------------------------------------------------------
(* Properties. *)

(* However the session ends, the device is as it was found: its frontend   *)
(* up, its governors its own, its panel in its own mode ("restored on      *)
(* exit", weston_launch.sh:171).                                           *)
RestoredOnExit ==
    pc = "exit" =>
        /\ frontend = "up"
        /\ \A p \in Policies : governor[p] = "own"
        /\ mode = "panel"

(* Before the script cleans up, a client is only ended when it did nothing *)
(* for the whole of STALL_SECONDS, or had its grace after the stop marker, *)
(* or an absolute cap was asked for: a slow start is not a hang.           *)
OnlyTheStuckAreEnded ==
    [][sent = "none" /\ sent' # "none" /\ ~cleaned' =>
          \/ still >= STALL_SECONDS
          \/ client = "stopping" /\ grace >= GRACE_SECONDS
          \/ settings.cap /\ elapsed >= STARTUP_TIMEOUT]_vars

(* A client that is stuck for good does not strand the device: the session *)
(* ends, in its startup, in its shutdown, and during play where the        *)
(* watchdog has not been disarmed by a frame.                              *)
Supervised == ~SeesFrame \/ client = "stopping"
HungSessionEnds == Alive /\ stuck /\ Supervised ~> ~stuck \/ pc = "exit"
=============================================================================
