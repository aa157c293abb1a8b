--------------------------- MODULE FailsafeState ---------------------------
(***************************************************************************)
(* The pure part of failsafe_state.py: what one call of `plan` and one     *)
(* call of `record` make of the ladder entry of a key, and how an exit is  *)
(* classified.  An entry is the record that launch_state.json keeps for a  *)
(* (port build, CFW, Bedrock version, ABI preference) key; last_outcome,   *)
(* the timestamps and the rung stored inside "pending" are left out, since *)
(* the code writes them for the ledger and never reads them back.          *)
(*                                                                         *)
(* The operators named ...Bug are slips this code could contain; each one  *)
(* stands before the definition it would replace and nothing else uses it. *)
(* README.md says which property notices which.                            *)
(***************************************************************************)
EXTENDS Integers, FiniteSets

MAX_RUNG == 3
Rungs == 0 .. MAX_RUNG

(* No MCPE_SAFE_MODE.  apply_settings accepts only 0..3 as a pin.          *)
NoPin == -1

LAUNCH_STAGES == {"abi", "runtime", "client-exec", "window"}
STARTED_STAGES == {"first-frame"}

(* The breadcrumb tokens in launch order; NoStage is an absent or empty    *)
(* stage file.                                                             *)
SetupStages == {"boot", "payload", "migrate", "probe", "menu", "version"}
FinalStages == {"shutdown", "done"}
NoStage == ""
Stages == SetupStages \cup LAUNCH_STAGES \cup STARTED_STAGES \cup FinalStages

(* A stored streak can be MAX_RUNG + 1: record() increments the loaded     *)
(* value before it saves it, and only the next load range-checks it.       *)
Entry == [rung : Rungs, floor : Rungs, streak : 0 .. MAX_RUNG + 1, pending : BOOLEAN]

NewEntry == [rung |-> 0, floor |-> 0, streak |-> 0, pending |-> FALSE]

----------------------------------------------------------------------------
(* entry_for: a field outside 0..MAX_RUNG is read as zero. *)
InRange(n) == IF n \in Rungs THEN n ELSE 0

EntryFor(e) == [rung |-> InRange(e.rung), floor |-> InRange(e.floor),
                streak |-> InRange(e.streak), pending |-> e.pending]

NextRung(r) == IF r < MAX_RUNG THEN r + 1 ELSE MAX_RUNG

PendingIgnoredBug(e, previous_stage) ==
    IF previous_stage \in LAUNCH_STAGES
    THEN [e EXCEPT !.streak = 0, !.rung = NextRung(e.rung)]
    ELSE e

StreakSurvivesBug(e, previous_stage) ==
    IF e.pending /\ previous_stage \in LAUNCH_STAGES
    THEN [e EXCEPT !.rung = NextRung(e.rung)]
    ELSE e

(* What plan() infers from an attempt that never reported back. *)
Infer(e, previous_stage) ==
    IF e.pending /\ previous_stage \in LAUNCH_STAGES
    THEN [e EXCEPT !.streak = 0, !.rung = NextRung(e.rung)]
    ELSE e

PlanEntry(e, previous_stage) ==
    [Infer(EntryFor(e), previous_stage) EXCEPT !.pending = TRUE]

PlanRung(e, previous_stage, pinned) ==
    IF pinned = NoPin THEN PlanEntry(e, previous_stage).rung ELSE pinned

----------------------------------------------------------------------------
Outcomes == {"success", "startup_failure", "late_failure"}

(* classify_recorded: `late` says that duration >= startup_seconds. *)
ClassifyRecorded(clean, late) ==
    IF clean THEN "success" ELSE IF late THEN "late_failure" ELSE "startup_failure"

FloorUncheckedBug(e, rung) ==
    IF e.streak + 1 >= 2 /\ rung > 0
    THEN [e EXCEPT !.rung = rung - 1, !.streak = 0]
    ELSE [e EXCEPT !.rung = rung, !.streak = @ + 1]

RecordSuccess(e, rung) ==
    IF e.streak + 1 >= 2 /\ rung > e.floor
    THEN [e EXCEPT !.rung = rung - 1, !.streak = 0]
    ELSE [e EXCEPT !.rung = rung, !.streak = @ + 1]

FloorFollowsRungBug(e, rung) ==
    [e EXCEPT !.streak = 0, !.floor = NextRung(rung), !.rung = NextRung(rung)]

RecordStartupFailure(e, rung) ==
    [e EXCEPT !.streak = 0,
              !.floor = IF @ < NextRung(rung) THEN NextRung(rung) ELSE @,
              !.rung = NextRung(rung)]

StreakKeptBug(e, rung) == [e EXCEPT !.rung = rung]

RecordLateFailure(e, rung) == [e EXCEPT !.streak = 0, !.rung = rung]

RecordEntry(e, rung, outcome) ==
    LET loaded == [EntryFor(e) EXCEPT !.pending = FALSE]
    IN CASE outcome = "success" -> RecordSuccess(loaded, rung)
         [] outcome = "startup_failure" -> RecordStartupFailure(loaded, rung)
         [] outcome = "late_failure" -> RecordLateFailure(loaded, rung)
=============================================================================
