--------------------------- MODULE FailsafeLadder ---------------------------
(***************************************************************************)
(* The failsafe ladder across launches, power cuts and quits.              *)
(*                                                                         *)
(* Durable state: launch_state.json (`ladder`, one entry per key, replaced *)
(* by an atomic rename) and stage.txt (`crumb`, truncated and rewritten in *)
(* place by mcpe_stage).  The rest belongs to one run of the launcher and  *)
(* is gone when it ends.  One run is: begin the breadcrumb, pass the setup *)
(* stages, choose a version (which completes the key), plan, start the     *)
(* game at the planned rung, record, shut down.                            *)
(*                                                                         *)
(* What the client does between its start and its return is here only the  *)
(* breadcrumb it leaves and the status it returns; LaunchSession has the   *)
(* processes.                                                              *)
(***************************************************************************)
EXTENDS FailsafeState

CONSTANTS
    Keys,      \* (port build | CFW | Bedrock version | ABI preference)
    NoKey,     \* no version has been chosen yet
    Pins,      \* the values of MCPE_SAFE_MODE the player may set
    StateCanFail \* whether failsafe_state.py may fail to run

ASSUME KeysAssumption == NoKey \notin Keys
ASSUME PinsAssumption == Pins \subseteq Rungs
ASSUME StateCanFailAssumption == StateCanFail \in BOOLEAN

VARIABLES
    ladder,    \* launch_state.json: "entries"
    crumb,     \* logs/stage.txt
    pc,        \* where the launcher is; "off" when none runs
    prev,      \* MCPE_STAGE_PREV
    key,       \* mcpe_failsafe_key of the chosen version
    pin,       \* MCPE_SAFE_MODE
    rung,      \* MCPE_FAILSAFE_RUNG
    outcome,   \* how the game returned, until it is recorded
    (* History variables: the launches as an observer sees them. *)
    failed,    \* per key: the rungs at which a startup failure was observed
    proven,    \* per key: how many of its last returns in a row were clean
               \* at the same rung, and which rung
    overridden,\* per key: some launch ran at a rung the ladder did not choose
    died,      \* per key: the breadcrumb of its attempt that never returned
    lastKey    \* the key the previous run launched; NoKey when it launched none

durable == <<ladder, crumb>>
launcher == <<pc, prev, key, pin, rung, outcome>>
history == <<failed, proven, overridden, died, lastKey>>
vars == <<durable, launcher, history>>

Phases == {"off", "setup", "version", "running", "diagnostic", "returned", "ending"}
NoOutcome == "none"
Proof == [rung : Rungs, count : 0 .. 2]      \* the count saturates at 2

TypeOK ==
    /\ ladder \in [Keys -> Entry]
    /\ crumb \in Stages \cup {NoStage}
    /\ pc \in Phases
    /\ prev \in Stages \cup {NoStage}
    /\ key \in Keys \cup {NoKey}
    /\ pin \in Pins \cup {NoPin}
    /\ rung \in Rungs
    /\ outcome \in Outcomes \cup {NoOutcome}
    /\ failed \in [Keys -> SUBSET Rungs]
    /\ proven \in [Keys -> Proof]
    /\ overridden \in [Keys -> BOOLEAN]
    /\ died \in [Keys -> Stages \cup {NoStage}]
    /\ lastKey \in Keys \cup {NoKey}

Init ==
    /\ ladder = [k \in Keys |-> NewEntry]
    /\ crumb = NoStage
    /\ pc = "off"
    /\ prev = NoStage /\ key = NoKey /\ pin = NoPin /\ rung = 0 /\ outcome = NoOutcome
    /\ failed = [k \in Keys |-> {}]
    /\ proven = [k \in Keys |-> [rung |-> 0, count |-> 0]]
    /\ overridden = [k \in Keys |-> FALSE]
    /\ died = [k \in Keys |-> NoStage]
    /\ lastKey = NoKey

----------------------------------------------------------------------------
(* Setup. *)

(* mcpe_stage_begin: remember where the previous run stopped, start anew.  *)
Boot ==
    /\ pc = "off"
    /\ pc' = "setup" /\ prev' = crumb /\ crumb' = "boot"
    /\ UNCHANGED <<ladder, key, pin, rung, outcome, history>>

AfterSetupStage == [boot |-> "payload", payload |-> "migrate",
                    migrate |-> "probe", probe |-> "menu"]

EnterSetupStage ==
    /\ pc = "setup" /\ crumb \in DOMAIN AfterSetupStage
    /\ crumb' = AfterSetupStage[crumb]
    /\ UNCHANGED <<ladder, launcher, history>>

(* A version is chosen, in the menu or, where no menu runtime exists,      *)
(* without one.  apply_settings has read the pin and the ABI preference.   *)
ChooseVersion ==
    /\ pc = "setup" /\ crumb \in {"probe", "menu"}
    /\ \E k \in Keys, p \in Pins \cup {NoPin} : key' = k /\ pin' = p
    /\ pc' = "version" /\ crumb' = "version"
    /\ UNCHANGED <<ladder, prev, rung, outcome, history>>

(* An attempt to play is under way. *)
Attempting == pc \notin {"off", "setup", "version"}

(* What a run leaves behind when its process is gone. *)
LauncherGone ==
    /\ pc' = "off" /\ prev' = NoStage /\ key' = NoKey /\ pin' = NoPin
    /\ rung' = 0 /\ outcome' = NoOutcome
    /\ lastKey' = IF Attempting THEN key ELSE NoKey
    /\ died' = IF Attempting /\ ladder[key].pending
               THEN [died EXCEPT ![key] = crumb'] ELSE died
    /\ UNCHANGED <<ladder, failed, proven, overridden>>

(* The player quits the menu, or a setup step fails: the launcher exits    *)
(* and leaves the breadcrumb where it is.                                  *)
LeaveBeforePlan ==
    /\ pc \in {"setup", "version"}
    /\ crumb' = crumb
    /\ LauncherGone

----------------------------------------------------------------------------
(* The ladder's two entry points and the game between them. *)

Launch(r) == rung' = r /\ pc' = IF r >= MAX_RUNG THEN "diagnostic" ELSE "running"

Plan ==
    /\ pc = "version"
    /\ ladder' = [ladder EXCEPT ![key] = PlanEntry(@, prev)]
    /\ Launch(PlanRung(ladder[key], prev, pin))
    /\ prev' = NoStage
    /\ died' = [died EXCEPT ![key] = NoStage]
    /\ overridden' = [overridden EXCEPT ![key] = @ \/ pin # NoPin]
    /\ UNCHANGED <<crumb, key, pin, outcome, failed, proven, lastKey>>

(* failsafe_state.py cannot run, and the game starts at the tuned profile; *)
(* or it cannot save, and the game starts at a rung nobody will remember.  *)
PlanFails ==
    /\ StateCanFail
    /\ pc = "version"
    /\ \/ Launch(0)
       \/ Launch(PlanRung(ladder[key], prev, pin))
    /\ prev' = NoStage
    /\ overridden' = [overridden EXCEPT ![key] = TRUE]
    /\ UNCHANGED <<durable, key, pin, outcome, failed, proven, died, lastKey>>

(* run_bedrock.sh, or run_bedrock32.sh, which has no runtime stage; then   *)
(* the watchdog, which sees the window, or a frame before it saw a window. *)
AfterLaunchStage == [version |-> {"abi"}, abi |-> {"runtime", "client-exec"},
                     runtime |-> {"client-exec"}]

EnterLaunchStage ==
    /\ pc = "running"
    /\ \/ crumb \in DOMAIN AfterLaunchStage /\ crumb' \in AfterLaunchStage[crumb]
       \/ crumb = "client-exec" /\ crumb' \in {"window", "first-frame"}
       \/ crumb = "window" /\ crumb' = "first-frame"
    /\ UNCHANGED <<ladder, launcher, history>>

(* run_bedrock.sh returns: with an error at any time; cleanly once the     *)
(* client has been started, and at abi, where run_bedrock32.sh refuses a   *)
(* duplicate of a client that outlived its launcher with status 0.         *)
GameReturns ==
    /\ pc = "running"
    /\ \E clean, late \in BOOLEAN :
          /\ clean => crumb \in {"abi", "client-exec", "window", "first-frame"}
          /\ outcome' = ClassifyRecorded(clean, late)
    /\ pc' = "returned"
    /\ UNCHANGED <<durable, prev, key, pin, rung, history>>

Proven(p, r, o) ==
    IF o # "success" THEN [rung |-> r, count |-> 0]
    ELSE [rung |-> r, count |-> IF p.rung = r /\ p.count > 0 THEN 2 ELSE 1]

Record ==
    /\ pc = "returned"
    /\ ladder' = [ladder EXCEPT ![key] = RecordEntry(@, rung, outcome)]
    /\ pc' = "ending"
    /\ failed' = [failed EXCEPT ![key] =
                     IF outcome = "startup_failure" THEN @ \cup {rung} ELSE @]
    /\ proven' = [proven EXCEPT ![key] = Proven(@, rung, outcome)]
    /\ died' = [died EXCEPT ![key] = NoStage]
    /\ UNCHANGED <<crumb, prev, key, pin, rung, outcome, overridden, lastKey>>

(* failsafe_state.py cannot run or cannot save.                            *)
RecordFails ==
    /\ StateCanFail
    /\ pc = "returned"
    /\ pc' = "ending"
    /\ UNCHANGED <<durable, prev, key, pin, rung, outcome, history>>

----------------------------------------------------------------------------
(* The end of a run. *)

(* After the record, and after the diagnostic rung, which records nothing. *)
Shutdown ==
    /\ pc \in {"ending", "diagnostic"} /\ crumb # "shutdown"
    /\ crumb' = "shutdown"
    /\ UNCHANGED <<ladder, launcher, history>>

Done ==
    /\ pc \in {"ending", "diagnostic"} /\ crumb = "shutdown"
    /\ crumb' = "done"
    /\ LauncherGone

(* The power goes, or the launcher is killed.  The state file is whole     *)
(* either way; a breadcrumb caught between its truncation and its write is *)
(* empty.                                                                  *)
PowerLoss ==
    /\ pc # "off"
    /\ crumb' \in {crumb, NoStage}
    /\ LauncherGone

Next ==
    \/ Boot \/ EnterSetupStage \/ ChooseVersion \/ LeaveBeforePlan
    \/ Plan \/ PlanFails \/ EnterLaunchStage \/ GameReturns
    \/ Record \/ RecordFails \/ Shutdown \/ Done \/ PowerLoss

Spec == Init /\ [][Next]_vars

----------------------------------------------------------------------------
(* Properties. *)

(* The floor is exactly what observed startup failures justify: it is the  *)
(* rung above the highest one that was seen to fail, and an inferred       *)
(* failure never moves it (failsafe_state.py, `record` and `plan`).        *)
FloorIsEvidence ==
    \A k \in Keys :
        /\ \A r \in failed[k] : NextRung(r) <= ladder[k].floor
        /\ ladder[k].floor # 0 => \E r \in failed[k] : ladder[k].floor = NextRung(r)

(* As long as the ladder chooses the rungs of a key itself, neither its    *)
(* entry nor a running game is ever below the floor.                       *)
NeverBelowFloor ==
    \A k \in Keys : ~overridden[k] =>
        /\ ladder[k].floor <= ladder[k].rung
        /\ Attempting /\ key = k => ladder[k].floor <= rung \/ pc = "ending"

(* A key's rung comes down one step at a time, and only after its last two *)
(* returns were clean at the very rung it leaves.                          *)
ClimbsAfterTwoClean ==
    [][\A k \in Keys :
         ladder'[k].rung < ladder[k].rung /\ ~overridden[k] =>
            /\ ladder'[k].rung = ladder[k].rung - 1
            /\ proven'[k] = [rung |-> ladder[k].rung, count |-> 2]]_vars

(* When the previous run was an attempt at the same key, plan() spends a   *)
(* rung on it only if that attempt never reported and stopped between abi  *)
(* and window; one that was recorded is never counted a second time.       *)
EscalatesOnOwnEvidence ==
    [][\A k \in Keys :
         Plan /\ key = k /\ lastKey = k /\ ladder'[k].rung > ladder[k].rung =>
               died[k] \in LAUNCH_STAGES]_vars

(* The other way round: an attempt that stopped there is not forgotten by  *)
(* the run that follows it, and the failure cannot be cleared by a streak. *)
HangIsCounted ==
    [][\A k \in Keys :
         Plan /\ key = k /\ lastKey = k /\ died[k] \in LAUNCH_STAGES =>
               /\ ladder'[k].rung = NextRung(ladder[k].rung)
               /\ ladder'[k].streak = 0]_vars
=============================================================================
