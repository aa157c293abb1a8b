------------------------------ MODULE OskCover ------------------------------
(***************************************************************************)
(* The keyboard that covers the lower screen of the RG DS, and the scripts *)
(* that put it up and take it down.                                        *)
(*                                                                         *)
(* The game and bottomd run osk_show.sh, the game runs osk_hide.sh, both   *)
(* without waiting for them; osk_supervisor.py runs osk_hide.sh when the   *)
(* keyboard's window has been up for too long, and the end of the session  *)
(* runs it once more.  All of them go through thor-keyboard.sh and share a *)
(* claim (OSK_STATE), a pid file and a log.  A mapped window is a cover,   *)
(* whether the keyboard draws on it or not.                                *)
(*                                                                         *)
(* One action per command that reads or changes what is shared.  Commands  *)
(* take any time, also the waits with a limit.  The keyboard itself is not *)
(* in this repository: it starts, and at times of its own maps its window, *)
(* prints "Running" when its signal handlers are there, crashes, or hangs. *)
(* Definitions ending in Bug are mutations, used by nothing here.          *)
(***************************************************************************)
EXTENDS Naturals

CONSTANTS
    Shows,      \* calls of osk_show.sh
    Hides,      \* calls of osk_hide.sh by the game
    Keyboards   \* bound: keyboards started, 1 .. Keyboards; a show starts at most one

ASSUME OskAssumption ==
    /\ Keyboards \in Nat \ {0}
    /\ "supervisor" \notin Hides /\ "session" \notin Hides

K == 1 .. Keyboards
Hiders == Hides \cup {"supervisor", "session"}

VARIABLES
    (* shared files *)
    claim,      \* OSK_STATE is there
    pidfile,    \* PIDFILE, 0 when there is none
    running,    \* "Running" is in the log
    (* keyboards *)
    started,    \* how many there have been
    alive, covering, ready, hung,     \* of each: process, window, handlers
    (* processes *)
    show,       \* where each osk_show.sh is
    new,        \* the keyboard it has started and not yet registered, 0 if none
    hide,       \* where each osk_hide.sh is
    supervisor, \* "poll", "hide" or "off"
    since,      \* covering_since: "none", "new", past --grace, past --claim-grace
    (* history *)
    stray       \* when the session ended, a keyboard was not the registered one

oskFiles == <<claim, pidfile, running>>
keyboards == <<started, alive, covering, ready, hung>>
scripts == <<show, new, hide>>
watch == <<supervisor, since>>
oskVars == <<oskFiles, keyboards, scripts, watch, stray>>

Wrapped == {"check", "spawn", "register"}
Showing == {"ready", "signal"}
Stopping == {"stop", "kill", "unlink"}

OskTypeOK ==
    /\ claim \in BOOLEAN /\ pidfile \in K \cup {0} /\ running \in BOOLEAN
    /\ started \in 0 .. Keyboards
    /\ alive \in SUBSET K /\ covering \in SUBSET alive /\ ready \in SUBSET alive /\ hung \in SUBSET alive
    /\ show \in [Shows -> {"idle", "window", "done"} \cup Wrapped \cup Showing]
    /\ new \in [Shows -> K \cup {0}]
    /\ hide \in [Hiders -> {"idle", "claim", "tree", "braces", "done"} \cup Stopping]
    /\ supervisor \in {"poll", "hide", "off"} /\ since \in {"none", "new", "grace", "long"}
    /\ stray \in BOOLEAN

OskInit ==
    /\ claim = FALSE /\ pidfile = 0 /\ running = FALSE
    /\ started = 0 /\ alive = {} /\ covering = {} /\ ready = {} /\ hung = {}
    /\ show = [s \in Shows |-> "idle"] /\ new = [s \in Shows |-> 0]
    /\ hide = [h \in Hiders |-> "idle"]
    /\ supervisor = "poll" /\ since = "none" /\ stray = FALSE

(***************************************************************************)
(* The keyboard.                                                           *)
(***************************************************************************)

Gone(dead) ==
    /\ alive' = alive \ dead /\ covering' = covering \ dead
    /\ ready' = ready \ dead /\ hung' = hung \ dead
    /\ UNCHANGED started

(* Its start takes seconds; the wrapper writes the pid file at once. *)
Starting(k) == \E s \in Shows : new[s] = k

Map(k) ==
    /\ k \in alive \ (covering \cup hung) /\ ~Starting(k)
    /\ covering' = covering \cup {k}
    /\ UNCHANGED <<oskFiles, started, alive, ready, hung, scripts, watch, stray>>

Handlers(k) ==
    /\ k \in alive \ (ready \cup hung) /\ ~Starting(k)
    /\ ready' = ready \cup {k} /\ running' = TRUE
    /\ UNCHANGED <<claim, pidfile, started, alive, covering, hung, scripts, watch, stray>>

Crash(k) ==
    /\ k \in alive /\ Gone({k})
    /\ UNCHANGED <<oskFiles, scripts, watch, stray>>

Hang(k) ==
    /\ k \in ready \ hung
    /\ hung' = hung \cup {k}
    /\ UNCHANGED <<oskFiles, started, alive, covering, ready, scripts, watch, stray>>

(***************************************************************************)
(* osk_show.sh, with start and show of thor-keyboard.sh                    *)
(***************************************************************************)

ShowStep(s, from, to) == show[s] = from /\ show' = [show EXCEPT ![s] = to] /\ UNCHANGED <<hide, watch>>

ShowCall(s) ==
    /\ ShowStep(s, "idle", "check")
    /\ supervisor # "off"
    /\ claim' = TRUE
    /\ UNCHANGED <<pidfile, running, keyboards, new, stray>>

Check(s) ==
    /\ ShowStep(s, "check", IF pidfile \in alive THEN "window" ELSE "spawn")
    /\ UNCHANGED <<oskFiles, keyboards, new, stray>>

Spawn(s) ==
    /\ ShowStep(s, "spawn", "register")
    /\ started < Keyboards /\ started' = started + 1
    /\ alive' = alive \cup {started'} /\ new' = [new EXCEPT ![s] = started'] /\ running' = FALSE
    /\ UNCHANGED <<claim, pidfile, covering, ready, hung, stray>>

Register(s) ==
    /\ ShowStep(s, "register", "window")
    /\ pidfile' = new[s] /\ new' = [new EXCEPT ![s] = 0]
    /\ UNCHANGED <<claim, running, keyboards, stray>>

Window(s) ==
    /\ ShowStep(s, "window", IF pidfile \in alive THEN "ready" ELSE "done")
    /\ UNCHANGED <<oskFiles, keyboards, new, stray>>

WaitReady(s) ==
    /\ \/ running /\ ShowStep(s, "ready", "signal")
       \/ ShowStep(s, "ready", "done")
    /\ UNCHANGED <<oskFiles, keyboards, new, stray>>

Signal(s) ==
    /\ ShowStep(s, "signal", "done")
    /\ Gone({pidfile} \ ready)    \* a SIGUSR2 without a handler kills
    /\ UNCHANGED <<oskFiles, new, stray>>

ShowScript == \E s \in Shows :
    Check(s) \/ Spawn(s) \/ Register(s) \/ Window(s) \/ WaitReady(s) \/ Signal(s)

(***************************************************************************)
(* osk_hide.sh, with stop of thor-keyboard.sh                              *)
(***************************************************************************)

HideStep(h, from, to) == hide[h] = from /\ hide' = [hide EXCEPT ![h] = to] /\ UNCHANGED <<watch, stray>>

HideCall(h) ==
    /\ HideStep(h, "idle", "claim")
    /\ supervisor # "off"
    /\ UNCHANGED <<oskFiles, keyboards, show, new>>

Unclaim(h) ==
    /\ HideStep(h, "claim", "stop")
    /\ claim' = FALSE
    /\ UNCHANGED <<pidfile, running, keyboards, show, new>>

Stop(h) ==
    /\ HideStep(h, "stop", IF pidfile # 0 THEN "kill" ELSE "tree")
    /\ Gone((IF pidfile # 0 THEN {pidfile} ELSE alive) \ hung)
    /\ UNCHANGED <<oskFiles, show, new>>

KillBug(h) ==
    /\ HideStep(h, "kill", "unlink")
    /\ UNCHANGED <<oskFiles, keyboards, show, new>>
Kill(h) ==
    /\ HideStep(h, "kill", "unlink")
    /\ Gone({pidfile})
    /\ UNCHANGED <<oskFiles, show, new>>

Unlink(h) ==
    /\ HideStep(h, "unlink", "tree")
    /\ pidfile' = 0
    /\ UNCHANGED <<claim, running, keyboards, show, new>>

Tree(h) ==
    /\ HideStep(h, "tree", IF covering # {} THEN "braces" ELSE "done")
    /\ UNCHANGED <<oskFiles, keyboards, show, new>>

(* pkill -f thor-keyboard: every keyboard, and every run of the wrapper *)
Braces(h) ==
    /\ hide[h] = "braces"
    /\ Gone(alive \ hung)
    /\ show' = [s \in Shows |-> CASE show[s] \in Wrapped -> "window"
                                  [] show[s] \in Showing -> "done"
                                  [] OTHER -> show[s]]
    /\ new' = [s \in Shows |-> 0]
    /\ hide' = [g \in Hiders |-> IF g = h THEN "done" ELSE IF hide[g] \in Stopping THEN "tree" ELSE hide[g]]
    /\ UNCHANGED <<oskFiles, watch, stray>>

HideScript(h) == Unclaim(h) \/ Stop(h) \/ Kill(h) \/ Unlink(h) \/ Tree(h) \/ Braces(h)

(***************************************************************************)
(* osk_supervisor.py                                                       *)
(***************************************************************************)

Age ==
    /\ since \in {"new", "grace"}
    /\ since' = IF since = "new" THEN "grace" ELSE "long"
    /\ UNCHANGED <<oskFiles, keyboards, scripts, supervisor, stray>>

LimitBug == IF claim THEN {} ELSE {"grace", "long"}
Limit == IF claim THEN {"long"} ELSE {"grace", "long"}

Supervise ==
    /\ supervisor = "poll"
    /\ IF covering = {} THEN since' = "none" /\ UNCHANGED <<supervisor, hide>>
       ELSE IF since \in Limit
       THEN supervisor' = "hide" /\ hide' = [hide EXCEPT !["supervisor"] = "claim"] /\ UNCHANGED since
       ELSE since' = (IF since = "none" THEN "new" ELSE since) /\ UNCHANGED <<supervisor, hide>>
    /\ UNCHANGED <<oskFiles, keyboards, show, new, stray>>

Resume ==
    /\ supervisor = "hide" /\ hide["supervisor"] = "done"
    /\ supervisor' = "poll" /\ since' = "none" /\ hide' = [hide EXCEPT !["supervisor"] = "idle"]
    /\ UNCHANGED <<oskFiles, keyboards, show, new, stray>>

(***************************************************************************)
(* The end of the session: mcpe_rgds_stop ends the game, bottomd and the   *)
(* supervisor with all they have started, and then hides the keyboard.     *)
(***************************************************************************)

End ==
    /\ supervisor # "off"
    /\ supervisor' = "off" /\ since' = "none"
    /\ show' = [s \in Shows |-> "done"] /\ new' = [s \in Shows |-> 0]
    /\ hide' = [h \in Hiders |-> IF h = "session" THEN "claim" ELSE "done"]
    /\ Gone({k \in K : Starting(k)})
    /\ stray' = (alive' \ {pidfile} # {})
    /\ UNCHANGED oskFiles

OskNext ==
    \/ ShowScript \/ Age \/ Supervise \/ Resume \/ End
    \/ \E s \in Shows : ShowCall(s)
    \/ \E h \in Hides : HideCall(h)
    \/ \E h \in Hiders : HideScript(h)
    \/ \E k \in K : Map(k) \/ Handlers(k) \/ Crash(k) \/ Hang(k)

OskSpec == OskInit /\ [][OskNext]_oskVars

(* Scripts that were called go on, the supervisor polls, and a keyboard    *)
(* that is not hung starts up.                                             *)
OskFairness ==
    /\ WF_oskVars(Age) /\ WF_oskVars(Supervise) /\ WF_oskVars(Resume)
    /\ \A s \in Shows : WF_oskVars(Check(s) \/ Spawn(s) \/ Register(s) \/ Window(s) \/ WaitReady(s) \/ Signal(s))
    /\ \A h \in Hiders : WF_oskVars(HideScript(h))
    /\ \A k \in K : WF_oskVars(Map(k)) /\ WF_oskVars(Handlers(k))

(***************************************************************************)
(* Properties                                                              *)
(***************************************************************************)

(* Whatever calls of show and hide overlap, whether the game ever hides it *)
(* or not, in the end no keyboard covers the lower screen, but one that    *)
(* hangs and is not in the pid file (osk_supervisor.py:22-23).             *)
CoverEnds == <>[](covering \subseteq hung \ {pidfile}) \/ <>(supervisor = "off")

(* A session leaves no keyboard behind, if at its end no keyboard ran but  *)
(* the one in the pid file: the supervisor is gone by then, and this hide  *)
(* is the last.                                                            *)
EndLeavesNothing == hide["session"] = "done" /\ ~stray => alive = {}
=============================================================================
