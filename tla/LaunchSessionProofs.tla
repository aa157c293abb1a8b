------------------------ MODULE LaunchSessionProofs ------------------------
(***************************************************************************)
(* A session gives the device back as it found it, for any number of       *)
(* tuned knobs, any durations and any number of signals, as long as the    *)
(* signals come at points where the script has recorded what it changed.   *)
(*                                                                         *)
(* RestoredOnExit speaks of the exit only; Restorable says at every point  *)
(* what is changed and that the script still knows of it.                  *)
(* Wherever signals come, nobody ends a client that is not stuck, slow to  *)
(* stop or over an asked-for cap.                                          *)
(***************************************************************************)
EXTENDS LaunchSession, TLAPS

LEMMA CappedType ==
    ASSUME NEW cap \in Nat, NEW n \in 0 .. cap
    PROVE  Capped(n, cap) \in 0 .. cap
BY DEF Capped

LEMMA Durations ==
    /\ STALL_SECONDS \in Nat \ {0} /\ STARTUP_TIMEOUT \in Nat \ {0}
    /\ GRACE_SECONDS \in Nat \ {0} /\ MaxSignals \in Nat
BY SecondsAssumption, SignalsAssumption

LEMMA InitType == Init => TypeOK
<1> SUFFICES ASSUME Init PROVE TypeOK
  OBVIOUS
<1>1. DeviceType
  BY DEF Init, DeviceType
<1>2. ScriptType
  BY DEF Init, ScriptType, Points
<1>3. GameType
  BY DEF Init, GameType
<1>4. LoopsType
  BY Durations DEF Init, LoopsType
<1>5. HistoryType
  <2>1. 0 \in 0 .. STALL_SECONDS /\ 0 \in 0 .. MaxSignals
    BY Durations
  <2>2. still = 0 /\ signals = 0
    BY DEF Init
  <2> QED
    BY <2>1, <2>2 DEF HistoryType
<1> QED
  BY <1>1, <1>2, <1>3, <1>4, <1>5 DEF TypeOK

(* What leaves a group of variables alone keeps its type. *)
LEMMA Unchanged ==
    /\ DeviceType /\ UNCHANGED <<settings, device>> => DeviceType'
    /\ ScriptType /\ UNCHANGED script => ScriptType'
    /\ GameType /\ UNCHANGED game => GameType'
    /\ LoopsType /\ UNCHANGED loops => LoopsType'
    /\ HistoryType /\ UNCHANGED history => HistoryType'
<1>1. DeviceType /\ UNCHANGED <<settings, device>> => DeviceType'
  BY DEF DeviceType, device
<1>2. ScriptType /\ UNCHANGED script => ScriptType'
  BY DEF ScriptType, script
<1>3. GameType /\ UNCHANGED game => GameType'
  BY DEF GameType, game
<1>4. LoopsType /\ UNCHANGED loops => LoopsType'
  BY DEF LoopsType, loops
<1>5. HistoryType /\ UNCHANGED history => HistoryType'
  BY DEF HistoryType, history
<1> QED
  BY <1>1, <1>2, <1>3, <1>4, <1>5

Setup == Check \/ NoteFrontend \/ StopFrontend \/ Tuned \/ Mount \/ SetMode \/ ReadBack
GiveBack == Signal \/ Reap \/ RestoreMode \/ RestorePolicies \/ RestartFrontend

(* The script. *)
LEMMA SetupType ==
    ASSUME TypeOK, Setup
    PROVE  TypeOK'
<1>1. DeviceType'
  BY DEF TypeOK, DeviceType, Settings, Setup, Check, NoteFrontend, StopFrontend, Tuned, Mount, SetMode, ReadBack, device
<1>2. ScriptType'
  <2>1. CASE Check \/ NoteFrontend \/ StopFrontend
    BY <2>1 DEF TypeOK, ScriptType, Check, NoteFrontend, StopFrontend, Fail, Points
  <2>2. CASE Tuned
    BY <2>2 DEF TypeOK, DeviceType, Settings, ScriptType, Tuned, Points
  <2>3. CASE Mount \/ SetMode
    BY <2>3 DEF TypeOK, ScriptType, Mount, SetMode, Fail, Points
  <2>4. CASE ReadBack
    BY <2>4 DEF TypeOK, ScriptType, ReadBack, Points
  <2> QED
    BY <2>1, <2>2, <2>3, <2>4 DEF Setup
<1>3. UNCHANGED <<game, loops, history>>
  BY DEF Setup, Check, NoteFrontend, StopFrontend, Tuned, Mount, SetMode, ReadBack
<1> QED
  BY <1>1, <1>2, <1>3, Unchanged DEF TypeOK

LEMMA TuneType ==
    ASSUME TypeOK, NEW p \in Policies, Tune(p)
    PROVE  TypeOK'
<1>1. DeviceType'
  BY DEF Tune, TypeOK, DeviceType
<1>2. ScriptType'
  BY DEF Tune, TypeOK, ScriptType
<1>3. UNCHANGED <<game, loops, history>>
  BY DEF Tune
<1> QED
  BY <1>1, <1>2, <1>3, Unchanged DEF TypeOK

LEMMA LaunchType ==
    ASSUME TypeOK, Launch \/ WaitReturns \/ Cleanup
    PROVE  TypeOK'
<1>1. UNCHANGED <<settings, device, history>>
  BY DEF Launch, WaitReturns, Cleanup
<1>2. ScriptType'
  BY DEF TypeOK, ScriptType, Launch, WaitReturns, Cleanup, Points, CleanupPoints
<1>3. GameType'
  BY DEF TypeOK, GameType, Launch, WaitReturns, Cleanup, game
<1>4. LoopsType'
  BY DEF TypeOK, LoopsType, Launch, WaitReturns, Cleanup
<1> QED
  BY <1>1, <1>2, <1>3, <1>4, Unchanged DEF TypeOK

LEMMA GiveBackType ==
    ASSUME TypeOK, GiveBack
    PROVE  TypeOK'
<1>1. DeviceType'
  BY DEF TypeOK, DeviceType, GiveBack, Signal, Reap, RestoreMode, RestorePolicies, RestartFrontend, device
<1>2. ScriptType'
  BY DEF TypeOK, ScriptType, GiveBack, Signal, Reap, RestoreMode, RestorePolicies, RestartFrontend,
         Points, CleanupPoints
<1>3. GameType'
  BY DEF TypeOK, GameType, GiveBack, Signal, Reap, RestoreMode, RestorePolicies, RestartFrontend, game
<1>4. HistoryType'
  <2>1. CASE Signal
    <3>1. signals \in 0 .. MaxSignals /\ signals < MaxSignals /\ signals' = signals + 1
      BY <2>1 DEF Signal, TypeOK, HistoryType
    <3>2. signals' \in 0 .. MaxSignals
      BY <3>1, Durations
    <3>3. UNCHANGED still
      BY <2>1 DEF Signal
    <3> QED
      BY <3>2, <3>3 DEF TypeOK, HistoryType
  <2>2. CASE ~Signal
    <3>1. UNCHANGED history
      BY <2>2 DEF GiveBack, Reap, RestoreMode, RestorePolicies, RestartFrontend
    <3> QED
      BY <3>1, Unchanged DEF TypeOK
  <2> QED
    BY <2>1, <2>2
<1>5. UNCHANGED loops
  BY DEF GiveBack, Signal, Reap, RestoreMode, RestorePolicies, RestartFrontend
<1> QED
  BY <1>1, <1>2, <1>3, <1>4, <1>5, Unchanged DEF TypeOK

(* The client and the loops leave the device and the script alone, but for *)
(* the status.                                                             *)
Untouched == UNCHANGED <<settings, device, pc, wasRunning, saved, active, modeChanged, cleaned>>

GameSteps == Client \/ Terminated \/ Killed \/ Watchdog \/ Stopper \/ Second

LEMMA GameStep ==
    ASSUME GameSteps
    PROVE  Untouched
<1>1. CASE Client \/ Terminated \/ Killed
  BY <1>1 DEF Client, StartClient, Draw, Quit, Stick, Resume, Stops, Crashes, WrapperFails, Terminated,
              Killed, Ends, GameOnly, Untouched, device, script
<1>2. CASE Watchdog
  BY <1>2 DEF Watchdog, FindClient, SupervisorGone, FirstFrame, HangKill, HangFinish, WatchOnly,
              Untouched, device, script
<1>3. CASE Stopper
  BY <1>3 DEF Stopper, SeesStop, StoppedInTime, StopKill, StopFinish, StopOnly, Untouched, device, script
<1>4. CASE Second
  BY <1>4 DEF Second, Untouched, device, script
<1> QED
  BY <1>1, <1>2, <1>3, <1>4 DEF GameSteps

LEMMA UntouchedType ==
    ASSUME TypeOK, Untouched, status' \in {"ok", "bad"}
    PROVE  DeviceType' /\ ScriptType'
BY Unchanged DEF TypeOK, ScriptType, Untouched

LEMMA ClientType ==
    ASSUME TypeOK, Client \/ Terminated \/ Killed
    PROVE  TypeOK'
<1>1. Untouched
  BY GameStep DEF GameSteps
<1>2. status' \in {"ok", "bad"}
  BY DEF TypeOK, ScriptType, script, Client, StartClient, Draw, Quit, Stick, Resume, Stops, Crashes,
         WrapperFails, Terminated, Killed, Ends, GameOnly
<1>3. GameType'
  BY DEF TypeOK, GameType, Client, StartClient, Draw, Quit, Stick, Resume, Stops, Crashes,
         WrapperFails, Terminated, Killed, Ends
<1>4. UNCHANGED <<loops, history>>
  BY DEF Client, StartClient, Draw, Quit, Stick, Resume, Stops, Crashes,
         WrapperFails, Terminated, Killed, Ends, GameOnly
<1> QED
  BY <1>1, <1>2, <1>3, <1>4, UntouchedType, Unchanged DEF TypeOK

LEMMA LoopType ==
    ASSUME TypeOK, Watchdog \/ Stopper
    PROVE  TypeOK'
<1>1. Untouched /\ UNCHANGED status
  BY GameStep DEF GameSteps, Watchdog, FindClient, SupervisorGone, FirstFrame, HangKill, HangFinish,
         WatchOnly, Stopper, SeesStop, StoppedInTime, StopKill, StopFinish, StopOnly, script
<1>2. GameType'
  <2>1. CASE Watchdog
    BY <2>1 DEF TypeOK, GameType, Watchdog, FindClient, SupervisorGone, FirstFrame, HangKill, HangFinish, WatchOnly
  <2>2. CASE Stopper
    BY <2>2 DEF TypeOK, GameType, Stopper, SeesStop, StoppedInTime, StopKill, StopFinish, StopOnly
  <2> QED
    BY <2>1, <2>2
<1>3. LoopsType'
  <2>1. CASE Watchdog
    BY <2>1, Durations DEF TypeOK, LoopsType, Watchdog, FindClient, SupervisorGone, FirstFrame, HangKill,
           HangFinish, WatchOnly
  <2>2. CASE Stopper
    BY <2>2 DEF TypeOK, LoopsType, Stopper, SeesStop, StoppedInTime, StopKill, StopFinish, StopOnly
  <2> QED
    BY <2>1, <2>2
<1>4. HistoryType'
  <2>1. CASE HangKill
    BY <2>1 DEF TypeOK, HistoryType, HangKill, history
  <2>2. CASE UNCHANGED history
    BY <2>2, Unchanged DEF TypeOK
  <2> QED
    BY <2>1, <2>2 DEF Watchdog, FindClient, SupervisorGone, FirstFrame, HangFinish,
           Stopper, SeesStop, StoppedInTime, StopKill, StopFinish, StopOnly
<1>5. status' \in {"ok", "bad"}
  BY <1>1 DEF TypeOK, ScriptType
<1> QED
  BY <1>1, <1>2, <1>3, <1>4, <1>5, UntouchedType DEF TypeOK

LEMMA SecondType ==
    ASSUME TypeOK, Second
    PROVE  TypeOK'
<1>1. Untouched /\ UNCHANGED status
  BY GameStep DEF GameSteps, Second, script
<1>2. GameType'
  BY DEF TypeOK, GameType, Second
<1>3. stalled' \in 0 .. STALL_SECONDS
  <2>1. stalled \in 0 .. STALL_SECONDS
    BY DEF TypeOK, LoopsType
  <2>2. CASE watch = "watching" /\ pipe = "alive" /\ Alive
    <3>1. stalled < STALL_SECONDS
      BY <2>1, <2>2, Durations DEF Second, Due, Hang
    <3>2. stalled' = Stalled(stalled)
      BY <2>2 DEF Second
    <3> QED
      BY <2>1, <3>1, <3>2, Durations DEF Stalled
  <2>3. CASE ~(watch = "watching" /\ pipe = "alive" /\ Alive)
    BY <2>1, <2>3 DEF Second
  <2> QED
    BY <2>2, <2>3
<1>4. LoopsType'
  <2>1. /\ Capped(elapsed, STARTUP_TIMEOUT) \in 0 .. STARTUP_TIMEOUT
        /\ Capped(grace, GRACE_SECONDS) \in 0 .. GRACE_SECONDS
    BY CappedType, Durations DEF TypeOK, LoopsType
  <2> QED
    BY <1>3, <2>1 DEF TypeOK, LoopsType, Second
<1>5. HistoryType'
  <2>1. Capped(still, STALL_SECONDS) \in 0 .. STALL_SECONDS
    BY CappedType, Durations DEF TypeOK, HistoryType
  <2> QED
    BY <2>1, Durations DEF TypeOK, HistoryType, Second
<1>6. status' \in {"ok", "bad"}
  BY <1>1 DEF TypeOK, ScriptType
<1> QED
  BY <1>1, <1>2, <1>4, <1>5, <1>6, UntouchedType DEF TypeOK

(* A step of the session, by who takes it. *)
LEMMA Steps ==
    ASSUME [Next]_vars
    PROVE  \/ Setup \/ (\E p \in Policies : Tune(p)) \/ Launch \/ WaitReturns \/ Cleanup
           \/ GiveBack \/ GameSteps \/ UNCHANGED vars
BY DEF Next, Script, Exited, Setup, GiveBack, GameSteps

LEMMA NextType == TypeOK /\ [Next]_vars => TypeOK'
<1> SUFFICES ASSUME TypeOK, [Next]_vars PROVE TypeOK'
  OBVIOUS
<1>1. CASE UNCHANGED vars
  BY <1>1, Unchanged DEF vars, TypeOK
<1>2. CASE GameSteps
  BY <1>2, ClientType, LoopType, SecondType DEF GameSteps
<1> QED
  BY <1>1, <1>2, Steps, SetupType, TuneType, LaunchType, GiveBackType

(* Every variable of the session keeps its type; the watchdog's counters    *)
(* stop at their limits.                                                   *)
THEOREM SessionTypeCorrect == Spec => []TypeOK
<1>1. Init => TypeOK
  BY InitType
<1>2. TypeOK /\ [Next]_vars => TypeOK'
  BY NextType
<1> QED
  BY <1>1, <1>2, PTL DEF Spec

----------------------------------------------------------------------------
(* Giving the device back. *)

Recorded == Points \ ({"tune", "read back", "exit"} \cup CleanupPoints)

KnobsKnown == \A p \in Policies : governor[p] = "performance" =>
    /\ p \in saved /\ settings.tune
    /\ active \/ pc = "tune"
    /\ pc \notin {"restart frontend", "exit"}
ModeKnown == mode = "zoomed" =>
    /\ modeChanged \/ pc = "read back"
    /\ pc \notin {"restore policies", "restart frontend", "exit"}
FrontendKnown == frontend = "down" \/ pc = "stop frontend" => wasRunning /\ pc # "exit"
CleanedOnce == cleaned => pc \in CleanupPoints \cup {"exit"}

Restorable == KnobsKnown /\ ModeKnown /\ FrontendKnown /\ CleanedOnce

Known == TypeOK /\ Restorable

LEMMA InitRestorable == Init => Restorable
BY DEF Init, Restorable, KnobsKnown, ModeKnown, FrontendKnown, CleanedOnce

(* Where a signal may come, the cleanup has not been entered.              *)
LEMMA SignalToCleanup ==
    ASSUME SignalsAt \subseteq Recorded, Known, Signal
    PROVE  /\ pc \notin {"tune", "read back", "exit"} \cup CleanupPoints
           /\ pc' = "cleanup"
BY DEF Signal, Recorded, Known, Restorable, CleanedOnce

LEMMA KnobsStep ==
    ASSUME SignalsAt \subseteq Recorded, Known, [Next]_vars
    PROVE  KnobsKnown'
<1> USE DEF Known, Restorable
<1>1. ASSUME UNCHANGED <<settings, governor, saved>>,
             (active \/ pc = "tune") => (active' \/ pc' = "tune"),
             pc' \in {"restart frontend", "exit"} => pc \in {"restart frontend", "exit"}
      PROVE  KnobsKnown'
  BY <1>1 DEF KnobsKnown
<1>2. CASE Check \/ NoteFrontend \/ StopFrontend \/ Mount
  BY <1>1, <1>2 DEF Check, NoteFrontend, StopFrontend, Mount, Fail, device
<1>3. CASE SetMode \/ ReadBack \/ Launch \/ WaitReturns
  BY <1>1, <1>3 DEF SetMode, ReadBack, Launch, WaitReturns, device
<1>4. CASE Cleanup \/ Reap \/ RestoreMode
  BY <1>1, <1>4 DEF Cleanup, Reap, RestoreMode, device
<1>5. CASE Signal
  <2>1. pc # "tune" /\ pc' = "cleanup"
    BY <1>5, SignalToCleanup
  <2> QED
    BY <1>1, <1>5, <2>1 DEF Signal, device
<1>6. CASE Untouched \/ UNCHANGED vars
  <2>1. UNCHANGED <<settings, governor, saved, active, pc>>
    BY <1>6 DEF Untouched, vars, device, script
  <2> QED
    BY <2>1, <1>1
<1>7. CASE Tuned
  BY <1>7 DEF Tuned, KnobsKnown, device
<1>8. ASSUME NEW p \in Policies, Tune(p) PROVE KnobsKnown'
  <2>1. ASSUME NEW q \in Policies, governor'[q] = "performance"
        PROVE  q \in saved' /\ settings'.tune
    BY <1>8, <2>1 DEF Tune, KnobsKnown, TypeOK, DeviceType
  <2>2. pc' = "tune"
    BY <1>8 DEF Tune
  <2> QED
    BY <2>1, <2>2 DEF KnobsKnown
<1>9. CASE RestorePolicies
  <2>1. ASSUME NEW q \in Policies PROVE governor'[q] # "performance"
    BY <1>9 DEF RestorePolicies, KnobsKnown
  <2> QED
    BY <2>1 DEF KnobsKnown
<1>10. CASE RestartFrontend
  BY <1>10 DEF RestartFrontend, KnobsKnown
<1> QED
  BY <1>2, <1>3, <1>4, <1>5, <1>6, <1>7, <1>8, <1>9, <1>10, Steps, GameStep DEF Setup, GiveBack

LEMMA ModeStep ==
    ASSUME SignalsAt \subseteq Recorded, Known, [Next]_vars
    PROVE  ModeKnown'
<1> USE DEF Known, Restorable
<1>1. CASE Setup
  BY <1>1 DEF Setup, Check, NoteFrontend, StopFrontend, Tuned, Mount, SetMode, ReadBack, Fail, device, ModeKnown
<1>2. CASE (\E p \in Policies : Tune(p)) \/ Launch \/ WaitReturns \/ Cleanup
  BY <1>2 DEF Tune, Launch, WaitReturns, Cleanup, device, ModeKnown
<1>3. CASE Signal
  BY <1>3, SignalToCleanup DEF Signal, device, ModeKnown
<1>4. CASE Reap \/ RestoreMode \/ RestorePolicies \/ RestartFrontend
  BY <1>4 DEF Reap, RestoreMode, RestorePolicies, RestartFrontend, device, ModeKnown
<1>5. CASE Untouched \/ UNCHANGED vars
  BY <1>5 DEF Untouched, vars, device, script, ModeKnown
<1> QED
  BY <1>1, <1>2, <1>3, <1>4, <1>5, Steps, GameStep DEF GiveBack

LEMMA FrontendStep ==
    ASSUME SignalsAt \subseteq Recorded, Known, [Next]_vars
    PROVE  FrontendKnown'
<1> USE DEF Known, Restorable
<1>1. CASE Setup
  BY <1>1 DEF Setup, Check, NoteFrontend, StopFrontend, Tuned, Mount, SetMode, ReadBack, Fail, device, FrontendKnown
<1>2. CASE (\E p \in Policies : Tune(p)) \/ Launch \/ WaitReturns \/ Cleanup
  BY <1>2 DEF Tune, Launch, WaitReturns, Cleanup, device, FrontendKnown
<1>3. CASE Signal
  BY <1>3, SignalToCleanup DEF Signal, device, FrontendKnown
<1>4. CASE Reap \/ RestoreMode \/ RestorePolicies \/ RestartFrontend
  BY <1>4 DEF Reap, RestoreMode, RestorePolicies, RestartFrontend, device, FrontendKnown
<1>5. CASE Untouched \/ UNCHANGED vars
  BY <1>5 DEF Untouched, vars, device, script, FrontendKnown
<1> QED
  BY <1>1, <1>2, <1>3, <1>4, <1>5, Steps, GameStep DEF GiveBack

LEMMA CleanedStep ==
    ASSUME SignalsAt \subseteq Recorded, Known, [Next]_vars
    PROVE  CleanedOnce'
<1> USE DEF Known, Restorable
<1>1. CASE Setup
  BY <1>1 DEF Setup, Check, NoteFrontend, StopFrontend, Tuned, Mount, SetMode, ReadBack, CleanupPoints, CleanedOnce
<1>2. CASE (\E p \in Policies : Tune(p)) \/ Launch \/ WaitReturns \/ Cleanup
  BY <1>2 DEF Tune, Launch, WaitReturns, Cleanup, CleanupPoints, CleanedOnce
<1>3. CASE Signal
  BY <1>3, SignalToCleanup DEF Signal, CleanupPoints, CleanedOnce
<1>4. CASE Reap \/ RestoreMode \/ RestorePolicies \/ RestartFrontend
  BY <1>4 DEF Reap, RestoreMode, RestorePolicies, RestartFrontend, CleanupPoints, CleanedOnce
<1>5. CASE Untouched \/ UNCHANGED vars
  BY <1>5 DEF Untouched, vars, script, CleanupPoints, CleanedOnce
<1> QED
  BY <1>1, <1>2, <1>3, <1>4, <1>5, Steps, GameStep DEF GiveBack

LEMMA NextRestorable ==
    ASSUME SignalsAt \subseteq Recorded, Known, [Next]_vars
    PROVE  Known'
<1>1. TypeOK'
  BY NextType DEF Known
<1> QED
  BY <1>1, KnobsStep, ModeStep, FrontendStep, CleanedStep DEF Known, Restorable

LEMMA KnownRestores == Known => RestoredOnExit
<1> SUFFICES ASSUME Known, pc = "exit"
             PROVE  frontend = "up" /\ (\A p \in Policies : governor[p] = "own") /\ mode = "panel"
  BY DEF RestoredOnExit
<1>1. frontend = "up" /\ mode = "panel"
  BY DEF Known, Restorable, FrontendKnown, ModeKnown, TypeOK, DeviceType
<1>2. ASSUME NEW p \in Policies PROVE governor[p] = "own"
  BY DEF Known, Restorable, KnobsKnown, TypeOK, DeviceType
<1> QED
  BY <1>1, <1>2

(* A session whose signals arrive where the script has recorded what it    *)
(* changed - not inside the tuning loop, not before the mode is read back, *)
(* not inside cleanup - leaves the frontend up, every governor its own and *)
(* the panel in its own mode, whatever fails, hangs or is killed.          *)
THEOREM DeviceRestored ==
    ASSUME SignalsAt \subseteq Recorded
    PROVE  Spec => []RestoredOnExit
<1>1. Init => Known
  BY InitType, InitRestorable DEF Known
<1>2. Known /\ [Next]_vars => Known'
  BY NextRestorable
<1>3. Known => RestoredOnExit
  BY KnownRestores
<1> QED
  BY <1>1, <1>2, <1>3, PTL DEF Spec

----------------------------------------------------------------------------
(* Ending the client.  What the loops know of it: the watchdog's count of  *)
(* stalled seconds is never ahead of the client's own, the shutdown        *)
(* watchdog gives its grace to a client that stops, and a loop that kills  *)
(* has sent its TERM.                                                      *)
CleanupKnown == pc \in CleanupPoints => cleaned
WatchKnown ==
    /\ watch \in {"watching", "killing"} => client # "none"
    /\ watch = "watching" /\ pipe = "alive" /\ Alive => stalled <= still
    /\ watch = "killing" => sent # "none"
StopperKnown ==
    /\ stopper \in {"grace", "killing"} => client \in {"stopping", "gone"}
    /\ stopper = "killing" => sent # "none" \/ client = "gone"

Patient == TypeOK /\ CleanupKnown /\ WatchKnown /\ StopperKnown

LEMMA InitPatient == Init => Patient
<1> SUFFICES ASSUME Init PROVE Patient
  OBVIOUS
<1>1. pc = "check" /\ watch = "off" /\ stopper = "off"
  BY DEF Init
<1> QED
  BY <1>1, InitType DEF Patient, CleanupKnown, CleanupPoints, WatchKnown, StopperKnown

LEMMA CleanupStep ==
    ASSUME Patient, [Next]_vars
    PROVE  CleanupKnown'
<1> USE DEF Patient
<1>1. CASE Setup
  BY <1>1 DEF Setup, Check, NoteFrontend, StopFrontend, Tuned, Mount, SetMode, ReadBack, Fail, CleanupPoints, CleanupKnown
<1>2. CASE (\E p \in Policies : Tune(p)) \/ Launch \/ WaitReturns \/ Cleanup
  BY <1>2 DEF Tune, Launch, WaitReturns, Cleanup, CleanupPoints, CleanupKnown
<1>3. CASE GiveBack
  BY <1>3 DEF GiveBack, Signal, Reap, RestoreMode, RestorePolicies, RestartFrontend, CleanupPoints, CleanupKnown
<1>4. CASE GameSteps \/ UNCHANGED vars
  <2>1. UNCHANGED <<pc, cleaned>>
    BY <1>4, GameStep DEF Untouched, vars, script
  <2> QED
    BY <2>1 DEF CleanupKnown
<1> QED
  BY <1>1, <1>2, <1>3, <1>4, Steps

(* The script, without the cleanup, leaves the game alone but starts it.   *)
LEMMA ScriptLeavesGame ==
    ASSUME Setup \/ (\E p \in Policies : Tune(p)) \/ Launch \/ WaitReturns \/ GiveBack
    PROVE  /\ UNCHANGED <<client, stalled, still>>
           /\ pipe' = pipe \/ watch' = "seeking"
           /\ watch' = watch \/ watch' \in {"seeking", "off"}
           /\ stopper' = stopper \/ stopper' \in {"scanning", "off"}
           /\ sent' = sent \/ (Reap /\ sent' = "kill")
<1>1. CASE Setup
  BY <1>1 DEF Setup, Check, NoteFrontend, StopFrontend, Tuned, Mount, SetMode, ReadBack, game, loops, history
<1>2. CASE (\E p \in Policies : Tune(p)) \/ Launch \/ WaitReturns
  BY <1>2 DEF Tune, Launch, WaitReturns, game, loops, history
<1>3. CASE GiveBack
  BY <1>3 DEF GiveBack, Signal, Reap, RestoreMode, RestorePolicies, RestartFrontend, game, loops, history
<1> QED
  BY <1>1, <1>2, <1>3

LEMMA LoopsKnownStep ==
    ASSUME Patient, [Next]_vars
    PROVE  WatchKnown' /\ StopperKnown'
<1> USE DEF Patient
<1>0. /\ stalled \in Nat /\ still \in Nat
      /\ client \in {"none", "starting", "drawing", "stopping", "gone"}
      /\ sent \in {"none", "term", "kill"}
  BY Durations DEF TypeOK, LoopsType, HistoryType, GameType
<1>1. CASE Setup \/ (\E p \in Policies : Tune(p)) \/ Launch \/ WaitReturns \/ GiveBack
  <2>1. /\ UNCHANGED <<client, stalled, still>>
        /\ pipe' = pipe \/ watch' = "seeking"
        /\ watch' = watch \/ watch' \in {"seeking", "off"}
        /\ stopper' = stopper \/ stopper' \in {"scanning", "off"}
        /\ sent' = sent \/ sent' = "kill"
    BY <1>1, ScriptLeavesGame
  <2> QED
    BY <1>0, <2>1 DEF WatchKnown, StopperKnown, Alive
<1>2. CASE Cleanup
  BY <1>0, <1>2 DEF Cleanup, WatchKnown, StopperKnown, Alive, history
<1>3. CASE Client \/ Terminated \/ Killed
  <2>1. UNCHANGED <<watch, stopper, stalled, still, sent>>
    BY <1>3 DEF Client, StartClient, Draw, Quit, Stick, Resume, Stops, Crashes, WrapperFails, Terminated,
                Killed, Ends, GameOnly, loops, history
  <2>2. /\ client' # "none" \/ client' = client
        /\ client \in {"stopping", "gone"} => client' \in {"stopping", "gone"}
        /\ client = "gone" => client' = "gone"
        /\ pipe' = pipe \/ pipe' = "gone"
        /\ Alive' => Alive \/ client = "none"
    BY <1>0, <1>3 DEF Client, StartClient, Draw, Quit, Stick, Resume, Stops, Crashes, WrapperFails, Terminated,
                Killed, Ends, GameOnly, Alive
  <2> QED
    BY <1>0, <2>1, <2>2 DEF WatchKnown, StopperKnown, Alive
<1>4. CASE Watchdog
  <2>1. UNCHANGED <<client, pipe, stopper, still>>
    BY <1>4 DEF Watchdog, FindClient, SupervisorGone, FirstFrame, HangKill, HangFinish, WatchOnly, history
  <2>2. /\ sent' = sent \/ sent' # "none"
        /\ \/ watch' = "watching" /\ stalled' = 0 /\ Alive
           \/ watch' = "done"
           \/ watch' = "killing" /\ Alive /\ sent' # "none"
    BY <1>0, <1>4 DEF Watchdog, FindClient, SupervisorGone, FirstFrame, HangKill, HangFinish
  <2> QED
    BY <1>0, <2>1, <2>2 DEF WatchKnown, StopperKnown, Alive
<1>5. CASE Stopper
  <2>1. UNCHANGED <<client, pipe, watch, stalled, still>>
    BY <1>5 DEF Stopper, SeesStop, StoppedInTime, StopKill, StopFinish, StopOnly, history
  <2>2. /\ sent' = sent \/ sent' # "none"
        /\ \/ stopper' = "grace" /\ client = "stopping"
           \/ stopper' = "done"
           \/ stopper' = "killing" /\ stopper = "grace" /\ (Alive => sent' # "none")
    BY <1>0, <1>5 DEF Stopper, SeesStop, StoppedInTime, StopKill, StopFinish
  <2> QED
    BY <1>0, <2>1, <2>2 DEF WatchKnown, StopperKnown, Alive
<1>6. CASE Second
  <2>1. UNCHANGED <<client, pipe, watch, stopper, sent>>
    BY <1>6 DEF Second
  <2>2. ASSUME watch = "watching", pipe = "alive", Alive PROVE stalled' <= still'
    <3>1. stalled < STALL_SECONDS /\ stalled <= still
      BY <1>0, <1>6, <2>2, Durations DEF Second, Due, Hang, WatchKnown
    <3>2. stalled' = Stalled(stalled)
      BY <1>6, <2>2 DEF Second
    <3>3. still' = IF stuck /\ ~progressed THEN Capped(still, STALL_SECONDS) ELSE 0
      BY <1>6 DEF Second
    <3> QED
      BY <1>0, <3>1, <3>2, <3>3, Durations DEF Stalled, Capped
  <2> QED
    BY <2>1, <2>2 DEF WatchKnown, StopperKnown, Alive
<1>7. CASE UNCHANGED vars
  BY <1>7 DEF vars, game, loops, history, WatchKnown, StopperKnown, Alive
<1> QED
  BY <1>1, <1>2, <1>3, <1>4, <1>5, <1>6, <1>7, Steps DEF GameSteps

(* Who sends the first signal, and what he knows when he does. *)
LEMMA FirstSignal ==
    ASSUME Patient, [Next]_vars, sent = "none", sent' # "none", ~cleaned'
    PROVE  \/ still >= STALL_SECONDS
           \/ client = "stopping" /\ grace >= GRACE_SECONDS
           \/ settings.cap /\ elapsed >= STARTUP_TIMEOUT
<1> USE DEF Patient
<1>1. stalled \in Nat /\ still \in Nat
  BY Durations DEF TypeOK, LoopsType, HistoryType
<1>2. CASE HangKill
  <2>1. Overdue \/ (Hang /\ stalled <= still)
    BY <1>2 DEF HangKill, WatchKnown
  <2> QED
    BY <1>1, <2>1, Durations DEF Hang, Overdue
<1>3. CASE StopKill
  <2>1. Alive /\ GraceIsOver
    BY <1>3 DEF StopKill
  <2> QED
    BY <1>3, <2>1 DEF StopKill, StopperKnown, Alive, GraceIsOver
<1>4. CASE HangFinish \/ StopFinish
  BY <1>4 DEF HangFinish, StopFinish, WatchKnown, StopperKnown, Alive
<1>5. CASE Reap
  BY <1>5 DEF Reap, CleanupKnown, CleanupPoints
<1>6. CASE Cleanup
  BY <1>6 DEF Cleanup
<1>7. CASE Setup \/ (\E p \in Policies : Tune(p)) \/ Launch \/ WaitReturns \/ GiveBack
  BY <1>5, <1>7, ScriptLeavesGame
<1>8. CASE Client \/ Terminated \/ Killed \/ Second \/ UNCHANGED vars
  BY <1>8 DEF Client, StartClient, Draw, Quit, Stick, Resume, Stops, Crashes, WrapperFails, Terminated,
              Killed, Ends, Second, vars, game
<1>9. CASE FindClient \/ SupervisorGone \/ FirstFrame \/ SeesStop \/ StoppedInTime
  BY <1>9 DEF FindClient, SupervisorGone, FirstFrame, SeesStop, StoppedInTime
<1> QED
  BY <1>2, <1>3, <1>4, <1>6, <1>7, <1>8, <1>9, Steps DEF GameSteps, Watchdog, Stopper

(* Before the script cleans up, a client is only ended when it did nothing *)
(* for the whole of STALL_SECONDS, or had its grace after the stop marker, *)
(* or an absolute cap was asked for: for any durations, however its steps, *)
(* the two loops and the clock interleave.                                 *)
THEOREM OnlyStuckClientsEnd == Spec => OnlyTheStuckAreEnded
<1>1. Init => Patient
  BY InitPatient
<1>2. Patient /\ [Next]_vars => Patient'
  BY NextType, CleanupStep, LoopsKnownStep DEF Patient
<1>3. Patient /\ [Next]_vars =>
        [sent = "none" /\ sent' # "none" /\ ~cleaned' =>
          \/ still >= STALL_SECONDS
          \/ client = "stopping" /\ grace >= GRACE_SECONDS
          \/ settings.cap /\ elapsed >= STARTUP_TIMEOUT]_vars
  BY FirstSignal
<1> QED
  BY <1>1, <1>2, <1>3, PTL DEF Spec, OnlyTheStuckAreEnded
=============================================================================
