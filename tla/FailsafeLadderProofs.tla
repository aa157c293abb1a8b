------------------------ MODULE FailsafeLadderProofs ------------------------
(***************************************************************************)
(* Theorems about FailsafeLadder for every set of keys and of pins.  The   *)
(* lemmas of the first section are about the entry operators of            *)
(* FailsafeState; the invariants of the second need no other fact about    *)
(* them.                                                                   *)
(***************************************************************************)
EXTENDS FailsafeLadder, TLAPS

----------------------------------------------------------------------------
(* Replacing fields by values of their ranges gives an entry again. *)
LEMMA PendingUpdate ==
    ASSUME NEW e \in Entry
    PROVE  [e EXCEPT !.pending = TRUE] \in Entry /\ [e EXCEPT !.pending = FALSE] \in Entry
BY DEF Entry

LEMMA RungUpdate ==
    ASSUME NEW e \in Entry, NEW r \in Rungs, NEW s \in 0 .. MAX_RUNG + 1
    PROVE  /\ [e EXCEPT !.streak = s, !.rung = r] \in Entry
           /\ [e EXCEPT !.rung = r, !.streak = s] \in Entry
<1>1. [e EXCEPT !.streak = s, !.rung = r] \in Entry
  BY DEF Entry
<1>2. [e EXCEPT !.rung = r, !.streak = s] \in Entry
  BY DEF Entry
<1> QED BY <1>1, <1>2

LEMMA FloorUpdate ==
    ASSUME NEW e \in Entry, NEW r \in Rungs, NEW f \in Rungs,
           NEW s \in 0 .. MAX_RUNG + 1
    PROVE  [e EXCEPT !.streak = s, !.floor = f, !.rung = r] \in Entry
BY DEF Entry

LEMMA ZeroStreak == 0 \in 0 .. MAX_RUNG + 1
BY DEF MAX_RUNG

(* entry_for reads back a rung and a floor as they are, and a streak as it *)
(* is or as zero.                                                          *)
LEMMA EntryForFacts ==
    ASSUME NEW e \in Entry
    PROVE  /\ EntryFor(e) \in Entry
           /\ EntryFor(e).rung = e.rung
           /\ EntryFor(e).floor = e.floor
           /\ EntryFor(e).streak \in {0, e.streak}
           /\ EntryFor(e).pending = e.pending
BY DEF Entry, EntryFor, InRange, Rungs, MAX_RUNG

LEMMA NextRungFacts ==
    ASSUME NEW r \in Rungs
    PROVE  NextRung(r) \in Rungs /\ r <= NextRung(r)
BY DEF NextRung, Rungs, MAX_RUNG

(* What plan() does to an entry: it keeps the floor and marks the attempt; *)
(* the rung moves only for a pending entry whose breadcrumb stopped in a   *)
(* launch stage, one step up, and then the streak is gone.                 *)
LEMMA PlanEntryFacts ==
    ASSUME NEW e \in Entry, NEW s
    PROVE  /\ PlanEntry(e, s) \in Entry
           /\ PlanEntry(e, s).floor = e.floor
           /\ PlanEntry(e, s).pending = TRUE
           /\ IF e.pending /\ s \in LAUNCH_STAGES
              THEN /\ PlanEntry(e, s).rung = NextRung(e.rung)
                   /\ PlanEntry(e, s).streak = 0
              ELSE /\ PlanEntry(e, s).rung = e.rung
                   /\ PlanEntry(e, s).streak \in {0, e.streak}
<1> DEFINE l == EntryFor(e)
           i == Infer(l, s)
<1>1. /\ l \in Entry /\ l.rung = e.rung /\ l.floor = e.floor
      /\ l.streak \in {0, e.streak} /\ l.pending = e.pending
  BY EntryForFacts
<1> HIDE DEF l
<1>2. CASE e.pending /\ s \in LAUNCH_STAGES
  <2>1. i = [l EXCEPT !.streak = 0, !.rung = NextRung(l.rung)]
    BY <1>1, <1>2 DEF Infer
  <2>2. NextRung(l.rung) \in Rungs
    BY <1>1, NextRungFacts DEF Entry
  <2> HIDE DEF i
  <2>3. i \in Entry
    BY <1>1, <2>1, <2>2, RungUpdate, ZeroStreak
  <2>4. i.rung = NextRung(e.rung) /\ i.streak = 0 /\ i.floor = e.floor
    BY <1>1, <2>1, <2>2 DEF Entry
  <2> QED BY <1>2, <2>3, <2>4, PendingUpdate DEF PlanEntry, Entry, i, l
<1>3. CASE ~(e.pending /\ s \in LAUNCH_STAGES)
  <2>1. i = l
    BY <1>1, <1>3 DEF Infer
  <2> QED BY <1>1, <1>3, <2>1 DEF PlanEntry, Entry, l
<1> QED BY <1>2, <1>3

(* record() starts from the entry as entry_for reads it, no longer pending. *)
Loaded(e) == [EntryFor(e) EXCEPT !.pending = FALSE]

LEMMA LoadedFacts ==
    ASSUME NEW e \in Entry
    PROVE  /\ Loaded(e) \in Entry
           /\ Loaded(e).rung = e.rung
           /\ Loaded(e).floor = e.floor
           /\ Loaded(e).streak \in {0, e.streak}
           /\ Loaded(e).streak <= MAX_RUNG
           /\ Loaded(e).pending = FALSE
<1>1. EntryFor(e).streak <= MAX_RUNG
  BY DEF Entry, EntryFor, InRange, Rungs, MAX_RUNG
<1>2. Loaded(e) \in Entry
  BY EntryForFacts, PendingUpdate DEF Loaded
<1>3. /\ Loaded(e).rung = e.rung /\ Loaded(e).floor = e.floor
      /\ Loaded(e).streak = EntryFor(e).streak
  BY EntryForFacts DEF Entry, Loaded
<1>4. Loaded(e).pending = FALSE
  BY EntryForFacts DEF Entry, Loaded
<1> QED BY <1>1, <1>2, <1>3, <1>4, EntryForFacts

LEMMA RecordEntryCases ==
    ASSUME NEW e, NEW r
    PROVE  /\ RecordEntry(e, r, "success") = RecordSuccess(Loaded(e), r)
           /\ RecordEntry(e, r, "startup_failure") = RecordStartupFailure(Loaded(e), r)
           /\ RecordEntry(e, r, "late_failure") = RecordLateFailure(Loaded(e), r)
<1>1. RecordEntry(e, r, "success") = RecordSuccess(Loaded(e), r)
  BY DEF RecordEntry, Loaded
<1>2. RecordEntry(e, r, "startup_failure") = RecordStartupFailure(Loaded(e), r)
  BY DEF RecordEntry, Loaded
<1>3. RecordEntry(e, r, "late_failure") = RecordLateFailure(Loaded(e), r)
  BY DEF RecordEntry, Loaded
<1> QED BY <1>1, <1>2, <1>3

(* A success at a rung keeps it, or, with one success already in the       *)
(* streak and the floor below, leaves it for the next lower one.           *)
LEMMA RecordSuccessFacts ==
    ASSUME NEW e \in Entry, NEW r \in Rungs
    PROVE  LET f == RecordEntry(e, r, "success")
           IN /\ f \in Entry
              /\ f.floor = e.floor
              /\ f.pending = FALSE
              /\ \/ f.rung = r
                 \/ /\ f.rung = r - 1 /\ e.floor < r
                    /\ e.streak >= 1 /\ f.streak = 0
<1> DEFINE l == Loaded(e)
<1>1. /\ l \in Entry /\ l.rung = e.rung /\ l.floor = e.floor /\ l.pending = FALSE
      /\ l.streak \in {0, e.streak} /\ l.streak <= MAX_RUNG
  BY LoadedFacts
<1>2. RecordEntry(e, r, "success") = RecordSuccess(l, r)
  BY RecordEntryCases
<1> HIDE DEF l
<1>3. CASE l.streak + 1 >= 2 /\ r > l.floor
  <2>1. RecordSuccess(l, r) = [l EXCEPT !.rung = r - 1, !.streak = 0]
    BY <1>3 DEF RecordSuccess
  <2>2. r - 1 \in Rungs /\ l.streak >= 1 /\ e.streak = l.streak
    BY <1>1, <1>3 DEF Entry, Rungs, MAX_RUNG
  <2>3. [l EXCEPT !.rung = r - 1, !.streak = 0] \in Entry
    BY <1>1, <2>2, ZeroStreak, RungUpdate
  <2>4. /\ RecordSuccess(l, r).rung = r - 1 /\ RecordSuccess(l, r).streak = 0
        /\ RecordSuccess(l, r).floor = l.floor
    BY <1>1, <2>1 DEF Entry
  <2>5. RecordSuccess(l, r).pending = FALSE
    BY <1>1, <2>1 DEF Entry
  <2>6. l.floor < r
    BY <1>1, <1>3 DEF Entry, Rungs, MAX_RUNG
  <2> QED BY <1>1, <1>2, <2>1, <2>2, <2>3, <2>4, <2>5, <2>6
<1>4. CASE ~(l.streak + 1 >= 2 /\ r > l.floor)
  <2>1. RecordSuccess(l, r) = [l EXCEPT !.rung = r, !.streak = l.streak + 1]
    BY <1>4 DEF RecordSuccess
  <2>2. l.streak + 1 \in 0 .. MAX_RUNG + 1
    BY <1>1 DEF Entry, MAX_RUNG
  <2>3. [l EXCEPT !.rung = r, !.streak = l.streak + 1] \in Entry
    BY <1>1, <2>2, RungUpdate
  <2>4. RecordSuccess(l, r).rung = r /\ RecordSuccess(l, r).floor = l.floor
    BY <1>1, <2>1 DEF Entry
  <2>5. RecordSuccess(l, r).pending = FALSE
    BY <1>1, <2>1 DEF Entry
  <2> QED BY <1>1, <1>2, <2>1, <2>3, <2>4, <2>5
<1> QED BY <1>3, <1>4

(* A startup failure moves to the next rung and lifts the floor to it.     *)
LEMMA RecordStartupFailureFacts ==
    ASSUME NEW e \in Entry, NEW r \in Rungs
    PROVE  LET f == RecordEntry(e, r, "startup_failure")
           IN /\ f \in Entry
              /\ f.floor = IF e.floor < NextRung(r) THEN NextRung(r) ELSE e.floor
              /\ f.rung = NextRung(r)
              /\ f.streak = 0
              /\ f.pending = FALSE
<1> DEFINE l == Loaded(e)
<1>1. /\ l \in Entry /\ l.floor = e.floor /\ l.pending = FALSE
  BY LoadedFacts
<1>2. RecordEntry(e, r, "startup_failure") = RecordStartupFailure(l, r)
  BY RecordEntryCases
<1> HIDE DEF l
<1>3. NextRung(r) \in Rungs
  BY NextRungFacts
<1> DEFINE g == IF l.floor < NextRung(r) THEN NextRung(r) ELSE l.floor
           f == RecordStartupFailure(l, r)
<1>4. g \in Rungs
  BY <1>1, <1>3 DEF Entry
<1>5. f = [l EXCEPT !.streak = 0, !.floor = g, !.rung = NextRung(r)]
  BY <1>1 DEF RecordStartupFailure, Entry
<1> HIDE DEF g, f
<1>6. f \in Entry
  BY <1>1, <1>3, <1>4, <1>5, FloorUpdate, ZeroStreak
<1>7. f.floor = g /\ f.rung = NextRung(r) /\ f.streak = 0
  BY <1>1, <1>5 DEF Entry
<1>8. f.pending = FALSE
  BY <1>1, <1>5 DEF Entry
<1> QED BY <1>1, <1>2, <1>6, <1>7, <1>8 DEF f, g

LEMMA RecordLateFailureFacts ==
    ASSUME NEW e \in Entry, NEW r \in Rungs
    PROVE  LET f == RecordEntry(e, r, "late_failure")
           IN /\ f \in Entry
              /\ f.floor = e.floor
              /\ f.rung = r
              /\ f.streak = 0
              /\ f.pending = FALSE
<1> DEFINE l == Loaded(e)
<1>1. /\ l \in Entry /\ l.floor = e.floor /\ l.pending = FALSE
  BY LoadedFacts
<1>2. RecordEntry(e, r, "late_failure") = RecordLateFailure(l, r)
  BY RecordEntryCases
<1> HIDE DEF l
<1> DEFINE f == RecordLateFailure(l, r)
<1>3. f = [l EXCEPT !.streak = 0, !.rung = r]
  BY DEF RecordLateFailure
<1> HIDE DEF f
<1>4. f \in Entry
  BY <1>1, <1>3, RungUpdate, ZeroStreak
<1>5. f.floor = l.floor /\ f.rung = r /\ f.streak = 0
  BY <1>1, <1>3 DEF Entry
<1>6. f.pending = FALSE
  BY <1>1, <1>3 DEF Entry
<1> QED BY <1>1, <1>2, <1>4, <1>5, <1>6 DEF f

----------------------------------------------------------------------------
(* Type correctness.  It is inductive once it is known that a run past the *)
(* choice of a version has a key and that a returned one has an outcome.   *)
RunOK ==
    /\ pc \notin {"off", "setup"} => key \in Keys
    /\ pc = "returned" => outcome \in Outcomes

LEMMA NewEntryType == NewEntry \in Entry
BY DEF NewEntry, Entry, Rungs, MAX_RUNG

LEMMA RecordEntryType ==
    ASSUME NEW e \in Entry, NEW r \in Rungs, NEW o \in Outcomes
    PROVE  RecordEntry(e, r, o) \in Entry
BY RecordSuccessFacts, RecordStartupFailureFacts, RecordLateFailureFacts DEF Outcomes

LEMMA LauncherGoneType ==
    ASSUME TypeOK, RunOK, LauncherGone, crumb' \in Stages \cup {NoStage}
    PROVE  TypeOK' /\ RunOK'
<1>1. died' \in [Keys -> Stages \cup {NoStage}]
  BY DEF TypeOK, LauncherGone
<1>2. lastKey' \in Keys \cup {NoKey}
  BY DEF TypeOK, RunOK, LauncherGone, Attempting
<1> QED
  BY <1>1, <1>2 DEF TypeOK, RunOK, LauncherGone, Phases, Rungs, MAX_RUNG

(* The rung a run is planned at is a rung. *)
LEMMA PlanRungType ==
    ASSUME NEW e \in Entry, NEW s, NEW p \in Pins \cup {NoPin}
    PROVE  PlanRung(e, s, p) \in Rungs
<1>1. PlanEntry(e, s).rung \in Rungs
  BY PlanEntryFacts DEF Entry
<1> QED BY <1>1, PinsAssumption DEF PlanRung

LEMMA TypeStep == TypeOK /\ RunOK /\ [Next]_vars => TypeOK' /\ RunOK'
<1> SUFFICES ASSUME TypeOK, RunOK, [Next]_vars PROVE TypeOK' /\ RunOK'
  OBVIOUS
<1>1. CASE Boot
  BY <1>1 DEF Boot, TypeOK, RunOK, Phases, Stages, SetupStages, launcher, history
<1>2. CASE EnterSetupStage
  <2>1. crumb' \in Stages
    BY <1>2 DEF EnterSetupStage, AfterSetupStage, Stages, SetupStages
  <2> QED BY <1>2, <2>1 DEF EnterSetupStage, TypeOK, RunOK, launcher, history
<1>3. CASE ChooseVersion
  BY <1>3 DEF ChooseVersion, TypeOK, RunOK, Phases, Stages, SetupStages, history
<1>4. CASE LeaveBeforePlan
  BY <1>4, LauncherGoneType DEF LeaveBeforePlan, TypeOK
<1>5. CASE Plan
  <2>1. key \in Keys /\ ladder[key] \in Entry
    BY <1>5 DEF Plan, TypeOK, RunOK
  <2>2. ladder' \in [Keys -> Entry]
    BY <1>5, <2>1, PlanEntryFacts DEF Plan, TypeOK
  <2>3. rung' \in Rungs /\ pc' \in Phases /\ pc' # "returned"
    BY <1>5, <2>1, PlanRungType DEF Plan, TypeOK, Launch, Phases
  <2>4. overridden' \in [Keys -> BOOLEAN] /\ died' \in [Keys -> Stages \cup {NoStage}]
    BY <1>5 DEF Plan, TypeOK
  <2> QED BY <1>5, <2>1, <2>2, <2>3, <2>4 DEF Plan, TypeOK, RunOK
<1>6. CASE PlanFails
  <2>1. key \in Keys /\ ladder[key] \in Entry /\ 0 \in Rungs
    BY <1>6 DEF PlanFails, TypeOK, RunOK, Rungs, MAX_RUNG
  <2>2. rung' \in Rungs /\ pc' \in Phases /\ pc' # "returned"
    BY <1>6, <2>1, PlanRungType DEF PlanFails, TypeOK, Launch, Phases
  <2>3. overridden' \in [Keys -> BOOLEAN]
    BY <1>6 DEF PlanFails, TypeOK
  <2> QED BY <1>6, <2>1, <2>2, <2>3 DEF PlanFails, TypeOK, RunOK, Phases, durable
<1>7. CASE EnterLaunchStage
  <2>1. crumb' \in Stages
    BY <1>7 DEF EnterLaunchStage, AfterLaunchStage, Stages, LAUNCH_STAGES, STARTED_STAGES
  <2> QED BY <1>7, <2>1 DEF EnterLaunchStage, TypeOK, RunOK, launcher, history
<1>8. CASE GameReturns
  <2>1. outcome' \in Outcomes
    BY <1>8 DEF GameReturns, ClassifyRecorded, Outcomes
  <2> QED BY <1>8, <2>1 DEF GameReturns, TypeOK, RunOK, Phases, durable, history
<1>9. CASE Record
  <2>1. key \in Keys /\ ladder[key] \in Entry /\ outcome \in Outcomes /\ rung \in Rungs
    BY <1>9 DEF Record, TypeOK, RunOK
  <2>2. ladder' \in [Keys -> Entry]
    BY <1>9, <2>1, RecordEntryType DEF Record, TypeOK
  <2>3. failed' \in [Keys -> SUBSET Rungs]
    BY <1>9, <2>1 DEF Record, TypeOK
  <2>4. Proven(proven[key], rung, outcome) \in Proof
    BY <2>1 DEF Proven, Proof
  <2>5. proven' \in [Keys -> Proof] /\ died' \in [Keys -> Stages \cup {NoStage}]
    BY <1>9, <2>4 DEF Record, TypeOK
  <2> QED BY <1>9, <2>1, <2>2, <2>3, <2>5 DEF Record, TypeOK, RunOK, Phases
<1>10. CASE RecordFails
  BY <1>10 DEF RecordFails, TypeOK, RunOK, Phases, durable, history
<1>11. CASE Shutdown
  BY <1>11 DEF Shutdown, TypeOK, RunOK, Stages, FinalStages, launcher, history
<1>12. CASE Done
  BY <1>12, LauncherGoneType DEF Done, Stages, FinalStages
<1>13. CASE PowerLoss
  BY <1>13, LauncherGoneType DEF PowerLoss, TypeOK
<1>14. CASE UNCHANGED vars
  BY <1>14 DEF vars, durable, launcher, history, TypeOK, RunOK
<1> QED
  BY <1>1, <1>2, <1>3, <1>4, <1>5, <1>6, <1>7, <1>8, <1>9, <1>10, <1>11, <1>12,
     <1>13, <1>14 DEF Next

LEMMA TypeInit == Init => TypeOK /\ RunOK
BY NewEntryType DEF Init, TypeOK, RunOK, Phases, Proof, Rungs, MAX_RUNG

(* Every variable keeps its type, whatever the player, the device and the  *)
(* power do: in particular rung and floor never leave 0..MAX_RUNG and the  *)
(* stored streak never exceeds MAX_RUNG + 1.                               *)
THEOREM TypeCorrect == Spec => [](TypeOK /\ RunOK)
BY TypeInit, TypeStep, PTL DEF Spec

----------------------------------------------------------------------------
(* The floor.  Only Record touches floors and the observed failures.       *)

(* A step other than Record leaves each floor, and the observed failures,  *)
(* alone; a Record changes them for its own key.                           *)
LEMMA FloorStep ==
    ASSUME TypeOK, RunOK, [Next]_vars, ~Record, NEW k \in Keys
    PROVE  ladder'[k].floor = ladder[k].floor /\ failed' = failed /\ proven' = proven
<1>1. CASE Plan
  <2>1. key \in Keys /\ ladder[key] \in Entry
    BY <1>1 DEF Plan, TypeOK, RunOK
  <2>2. PlanEntry(ladder[key], prev).floor = ladder[key].floor
    BY <2>1, PlanEntryFacts
  <2>3. ladder'[k] = IF k = key THEN PlanEntry(ladder[key], prev) ELSE ladder[k]
    BY <1>1, <2>1 DEF Plan, TypeOK
  <2> QED BY <1>1, <2>2, <2>3 DEF Plan
<1>2. CASE ~Plan
  BY <1>2 DEF Next, Boot, EnterSetupStage, ChooseVersion, LeaveBeforePlan, PlanFails,
     EnterLaunchStage, GameReturns, RecordFails, Shutdown, Done, PowerLoss,
     LauncherGone, vars, durable, launcher, history
<1> QED BY <1>1, <1>2

LEMMA FloorRecord ==
    ASSUME TypeOK, RunOK, FloorIsEvidence, Record
    PROVE  FloorIsEvidence'
<1> USE DEF FloorIsEvidence
<1>1. key \in Keys /\ ladder[key] \in Entry /\ outcome \in Outcomes /\ rung \in Rungs
  BY DEF Record, TypeOK, RunOK
<1> DEFINE f == RecordEntry(ladder[key], rung, outcome)
<1>2. \A k \in Keys : ladder'[k] = IF k = key THEN f ELSE ladder[k]
  BY <1>1 DEF Record, TypeOK
<1>3. \A k \in Keys : failed'[k] = IF k = key /\ outcome = "startup_failure"
                                    THEN failed[k] \cup {rung} ELSE failed[k]
  BY <1>1 DEF Record, TypeOK
<1>4. CASE outcome = "startup_failure"
  <2>1. f.floor = IF ladder[key].floor < NextRung(rung)
                  THEN NextRung(rung) ELSE ladder[key].floor
    BY <1>1, <1>4, RecordStartupFailureFacts
  <2>2. NextRung(rung) \in Rungs /\ ladder[key].floor \in Rungs
    BY <1>1, NextRungFacts DEF Entry
  <2>3. \A r \in failed[key] : NextRung(r) \in Rungs
    BY <1>1, NextRungFacts DEF TypeOK
  <2> HIDE DEF f
  <2>4. \A r \in failed[key] \cup {rung} : NextRung(r) <= f.floor
    BY <1>1, <2>1, <2>2, <2>3 DEF Rungs
  <2>5. f.floor # 0 => \E r \in failed[key] \cup {rung} : f.floor = NextRung(r)
    BY <1>1, <2>1, <2>2
  <2> QED BY <1>1, <1>2, <1>3, <1>4, <2>4, <2>5
<1>5. CASE outcome # "startup_failure"
  <2>1. f.floor = ladder[key].floor
    <3>1. CASE outcome = "success"
      BY <1>1, <3>1, RecordSuccessFacts
    <3>2. CASE outcome = "late_failure"
      BY <1>1, <3>2, RecordLateFailureFacts
    <3> QED BY <1>1, <1>5, <3>1, <3>2 DEF Outcomes
  <2> HIDE DEF f
  <2> QED BY <1>2, <1>3, <1>5, <2>1
<1> QED BY <1>4, <1>5

(* The floor of a key is the rung above the highest at which a startup     *)
(* failure was observed: no inferred failure, quit or power cut moves it.  *)
THEOREM FloorFromObservedFailures == Spec => []FloorIsEvidence
<1>1. Init => FloorIsEvidence
  BY DEF Init, FloorIsEvidence, NewEntry
<1>2. TypeOK /\ RunOK /\ FloorIsEvidence /\ [Next]_vars => FloorIsEvidence'
  <2> SUFFICES ASSUME TypeOK, RunOK, FloorIsEvidence, [Next]_vars
               PROVE  FloorIsEvidence'
    OBVIOUS
  <2>1. CASE Record
    BY <2>1, FloorRecord
  <2>2. CASE ~Record
    <3>1. \A k \in Keys : ladder'[k].floor = ladder[k].floor /\ failed' = failed
      BY <2>2, FloorStep
    <3> QED BY <3>1 DEF FloorIsEvidence
  <2> QED BY <2>1, <2>2
<1> QED BY <1>1, <1>2, TypeCorrect, PTL DEF Spec

----------------------------------------------------------------------------
(* Climbing.  For a key whose rungs the ladder has always chosen itself,   *)
(* the running rung is the entry's, and a streak in the entry stands for   *)
(* returns that were clean at the entry's own rung.                        *)
Launched == pc \in {"running", "diagnostic", "returned"}

OwnChoice ==
    \A k \in Keys : ~overridden[k] =>
        /\ ladder[k].floor <= ladder[k].rung
        /\ Launched /\ key = k => rung = ladder[k].rung
        /\ ladder[k].streak >= 1 =>
              proven[k].rung = ladder[k].rung /\ proven[k].count >= 1

LEMMA OwnChoicePlan ==
    ASSUME TypeOK, RunOK, OwnChoice, Plan
    PROVE  OwnChoice'
<1> DEFINE f == PlanEntry(ladder[key], prev)
<1>1. key \in Keys /\ ladder[key] \in Entry /\ key' = key /\ proven' = proven
  BY DEF Plan, TypeOK, RunOK
<1>2. \A k \in Keys : ladder'[k] = IF k = key THEN f ELSE ladder[k]
  BY <1>1 DEF Plan, TypeOK
<1>3. \A k \in Keys : ~overridden'[k] => ~overridden[k] /\ (k = key => pin = NoPin)
  BY <1>1 DEF Plan, TypeOK
<1>4. pin = NoPin => rung' = f.rung
  BY DEF Plan, Launch, PlanRung
<1>5. /\ f.floor = ladder[key].floor
      /\ \/ f.rung = NextRung(ladder[key].rung) /\ f.streak = 0
         \/ f.rung = ladder[key].rung /\ f.streak \in {0, ladder[key].streak}
  BY <1>1, PlanEntryFacts
<1>6. /\ ladder[key].rung \in Rungs /\ ladder[key].floor \in Rungs
      /\ NextRung(ladder[key].rung) \in Rungs
      /\ ladder[key].rung <= NextRung(ladder[key].rung)
  BY <1>1, NextRungFacts DEF Entry
<1> HIDE DEF f
<1> SUFFICES ASSUME NEW k \in Keys, ~overridden'[k]
             PROVE  /\ ladder'[k].floor <= ladder'[k].rung
                    /\ Launched' /\ key' = k => rung' = ladder'[k].rung
                    /\ ladder'[k].streak >= 1 =>
                         proven'[k].rung = ladder'[k].rung /\ proven'[k].count >= 1
  BY DEF OwnChoice
<1>7. CASE k = key
  <2>1. f.floor <= f.rung
    BY <1>3, <1>5, <1>6, <1>7 DEF OwnChoice, Rungs
  <2>2. f.streak >= 1 => proven[k].rung = f.rung /\ proven[k].count >= 1
    BY <1>3, <1>5, <1>7 DEF OwnChoice
  <2> QED BY <1>1, <1>2, <1>3, <1>4, <1>7, <2>1, <2>2
<1>8. CASE k # key
  BY <1>1, <1>2, <1>3, <1>8 DEF OwnChoice
<1> QED BY <1>7, <1>8

LEMMA OwnChoiceRecord ==
    ASSUME TypeOK, RunOK, OwnChoice, Record
    PROVE  OwnChoice'
<1> DEFINE f == RecordEntry(ladder[key], rung, outcome)
           p == Proven(proven[key], rung, outcome)
<1>1. /\ key \in Keys /\ ladder[key] \in Entry /\ rung \in Rungs /\ outcome \in Outcomes
      /\ overridden' = overridden /\ ~Launched' /\ Launched
  BY DEF Record, TypeOK, RunOK, Launched
<1>2. \A k \in Keys : /\ ladder'[k] = IF k = key THEN f ELSE ladder[k]
                      /\ proven'[k] = IF k = key THEN p ELSE proven[k]
  BY <1>1 DEF Record, TypeOK
<1>3. outcome = "success" => p.rung = rung /\ p.count >= 1
  BY DEF Proven
<1>4. outcome = "success" =>
        /\ f.floor = ladder[key].floor
        /\ \/ f.rung = rung
           \/ f.rung = rung - 1 /\ ladder[key].floor < rung /\ f.streak = 0
  <2>1. LET g == RecordEntry(ladder[key], rung, "success")
        IN /\ g.floor = ladder[key].floor
           /\ \/ g.rung = rung
              \/ g.rung = rung - 1 /\ ladder[key].floor < rung /\ g.streak = 0
    BY ONLY <1>1, RecordSuccessFacts
  <2> QED
    BY ONLY <2>1
<1>5. outcome = "startup_failure" =>
        /\ f.floor = IF ladder[key].floor < NextRung(rung)
                     THEN NextRung(rung) ELSE ladder[key].floor
        /\ f.rung = NextRung(rung) /\ f.streak = 0
  <2>1. LET g == RecordEntry(ladder[key], rung, "startup_failure")
        IN /\ g.floor = IF ladder[key].floor < NextRung(rung)
                        THEN NextRung(rung) ELSE ladder[key].floor
           /\ g.rung = NextRung(rung) /\ g.streak = 0
    BY ONLY <1>1, RecordStartupFailureFacts
  <2> QED
    BY ONLY <2>1
<1>6. outcome = "late_failure" =>
        f.floor = ladder[key].floor /\ f.rung = rung /\ f.streak = 0
  <2>1. HAVE outcome = "late_failure"
  <2>2. f = RecordEntry(ladder[key], rung, "late_failure")
    BY <2>1
  <2>3. LET g == RecordEntry(ladder[key], rung, "late_failure")
        IN  g.floor = ladder[key].floor /\ g.rung = rung /\ g.streak = 0
    BY <1>1, RecordLateFailureFacts
  <2> QED BY <2>2, <2>3
<1>7. /\ ladder[key].floor \in Rungs /\ NextRung(rung) \in Rungs /\ rung <= NextRung(rung)
  BY <1>1, NextRungFacts DEF Entry
<1>8. outcome \in {"success", "startup_failure", "late_failure"}
  BY <1>1 DEF Outcomes
<1> HIDE DEF f, p
<1> SUFFICES ASSUME NEW k \in Keys, ~overridden[k]
             PROVE  /\ ladder'[k].floor <= ladder'[k].rung
                    /\ ladder'[k].streak >= 1 =>
                         proven'[k].rung = ladder'[k].rung /\ proven'[k].count >= 1
  BY <1>1 DEF OwnChoice
<1>9. CASE k = key
  <2>1. ladder[key].floor <= rung
    BY <1>1, <1>9 DEF OwnChoice
  <2>2. f.floor <= f.rung
    BY <1>1, <1>4, <1>5, <1>6, <1>7, <1>8, <2>1 DEF Rungs
  <2>3. f.streak >= 1 => p.rung = f.rung /\ p.count >= 1
    BY <1>3, <1>4, <1>5, <1>6, <1>8
  <2> QED BY <1>2, <1>9, <2>2, <2>3
<1>10. CASE k # key
  BY <1>2, <1>10 DEF OwnChoice
<1> QED BY <1>9, <1>10

LEMMA OwnChoiceStep == TypeOK /\ RunOK /\ OwnChoice /\ [Next]_vars => OwnChoice'
<1> SUFFICES ASSUME TypeOK, RunOK, OwnChoice, [Next]_vars PROVE OwnChoice'
  OBVIOUS
<1>1. CASE Plan
  BY <1>1, OwnChoicePlan
<1>2. CASE Record
  BY <1>2, OwnChoiceRecord
<1>3. CASE PlanFails
  <2>1. key \in Keys /\ key' = key /\ ladder' = ladder /\ proven' = proven
    BY <1>3 DEF PlanFails, RunOK, durable
  <2>2. \A k \in Keys : ~overridden'[k] => ~overridden[k] /\ k # key
    BY <1>3, <2>1 DEF PlanFails, TypeOK
  <2> QED BY <2>1, <2>2 DEF OwnChoice
<1>4. CASE GameReturns
  BY <1>4 DEF GameReturns, OwnChoice, Launched, durable, history
<1>5. CASE LeaveBeforePlan \/ Done \/ PowerLoss
  BY <1>5 DEF LeaveBeforePlan, Done, PowerLoss, LauncherGone, OwnChoice, Launched
<1>6. CASE Boot \/ EnterSetupStage \/ ChooseVersion \/ RecordFails
  BY <1>6 DEF Boot, EnterSetupStage, ChooseVersion, RecordFails, OwnChoice, Launched,
     durable, launcher, history
<1>7. CASE EnterLaunchStage \/ Shutdown \/ UNCHANGED vars
  BY <1>7 DEF EnterLaunchStage, Shutdown, OwnChoice, Launched, vars, durable, launcher,
     history
<1> QED BY <1>1, <1>2, <1>3, <1>4, <1>5, <1>6, <1>7 DEF Next

LEMMA OwnChoiceCorrect == Spec => [](TypeOK /\ RunOK /\ OwnChoice)
<1>1. Init => OwnChoice
  BY DEF Init, OwnChoice, NewEntry, Launched
<1> QED BY <1>1, TypeInit, TypeStep, OwnChoiceStep, PTL DEF Spec

(* Without a pin or a plan that failed, neither the entry of a key nor a   *)
(* game in progress is ever below the floor of the key.                    *)
THEOREM LadderStaysAboveFloor == Spec => []NeverBelowFloor
<1>1. TypeOK /\ OwnChoice => NeverBelowFloor
  BY DEF TypeOK, OwnChoice, NeverBelowFloor, Launched, Attempting, Phases
<1> QED BY <1>1, OwnChoiceCorrect, PTL

(* A step that is neither a plan nor a record leaves the ladder alone.     *)
LEMMA LadderStep ==
    ASSUME [Next]_vars, ~Plan, ~Record
    PROVE  ladder' = ladder
BY DEF Next, Boot, EnterSetupStage, ChooseVersion, LeaveBeforePlan, PlanFails,
   EnterLaunchStage, GameReturns, RecordFails, Shutdown, Done, PowerLoss,
   LauncherGone, vars, durable, launcher, history

ClimbStep ==
    \A k \in Keys :
        ladder'[k].rung < ladder[k].rung /\ ~overridden[k] =>
            /\ ladder'[k].rung = ladder[k].rung - 1
            /\ proven'[k] = [rung |-> ladder[k].rung, count |-> 2]

LEMMA ClimbRecord ==
    ASSUME TypeOK, RunOK, OwnChoice, Record, NEW k \in Keys,
           ladder'[k].rung < ladder[k].rung, ~overridden[k]
    PROVE  /\ ladder'[k].rung = ladder[k].rung - 1
           /\ proven'[k] = [rung |-> ladder[k].rung, count |-> 2]
<1> DEFINE f == RecordEntry(ladder[key], rung, outcome)
<1>1. /\ key \in Keys /\ ladder[key] \in Entry /\ rung \in Rungs /\ outcome \in Outcomes
      /\ proven[key] \in Proof
  BY DEF Record, TypeOK, RunOK
<1>2. /\ ladder'[k] = IF k = key THEN f ELSE ladder[k]
      /\ proven'[key] = Proven(proven[key], rung, outcome)
  BY <1>1 DEF Record, TypeOK
<1>3. k = key /\ ladder[key].rung \in Rungs
  <2>1. ladder[k].rung \in Rungs
    BY DEF TypeOK, Entry
  <2>2. k = key
    BY <1>2, <2>1 DEF Rungs
  <2> QED BY <2>1, <2>2
<1>4. rung = ladder[key].rung
  BY <1>3 DEF OwnChoice, Launched, Record
<1>5. outcome # "startup_failure"
  <2> SUFFICES ASSUME outcome = "startup_failure" PROVE FALSE
    OBVIOUS
  <2>1. RecordEntry(ladder[key], rung, "startup_failure").rung = NextRung(rung)
    BY <1>1, RecordStartupFailureFacts
  <2>2. NextRung(rung) \in Rungs /\ rung <= NextRung(rung)
    BY <1>1, NextRungFacts
  <2> QED BY <1>2, <1>3, <1>4, <2>1, <2>2 DEF Rungs
<1>6. outcome # "late_failure"
  <2> SUFFICES ASSUME outcome = "late_failure" PROVE FALSE
    OBVIOUS
  <2>1. RecordEntry(ladder[key], rung, "late_failure").rung = rung
    BY <1>1, RecordLateFailureFacts
  <2> QED BY <1>2, <1>3, <1>4, <2>1 DEF Rungs
<1>7. outcome = "success"
  BY <1>1, <1>5, <1>6 DEF Outcomes
<1>8. \/ f.rung = rung
      \/ f.rung = rung - 1 /\ ladder[key].streak >= 1
  <2> DEFINE e == ladder[key]
             g == RecordEntry(e, rung, "success")
  <2>1. g.rung = rung \/ (g.rung = rung - 1 /\ e.streak >= 1)
    <3> HIDE DEF e
    <3> QED BY <1>1, RecordSuccessFacts DEF e
  <2> QED BY <1>7, <2>1
<1> HIDE DEF f
<1>9. f.rung = rung - 1 /\ ladder[key].streak >= 1
  BY <1>2, <1>3, <1>4, <1>8 DEF Rungs
<1>10. proven[key].rung = rung /\ proven[key].count > 0
  BY <1>1, <1>3, <1>4, <1>9 DEF OwnChoice, Proof
<1>11. proven'[key] = [rung |-> rung, count |-> 2]
  BY <1>2, <1>7, <1>10 DEF Proven
<1> QED BY <1>2, <1>3, <1>4, <1>9, <1>11

LEMMA ClimbPlan ==
    ASSUME TypeOK, RunOK, Plan, NEW k \in Keys
    PROVE  ladder[k].rung <= ladder'[k].rung
<1> DEFINE f == PlanEntry(ladder[key], prev)
<1>1. key \in Keys /\ ladder[key] \in Entry
  BY DEF Plan, TypeOK, RunOK
<1>2. ladder'[k] = IF k = key THEN f ELSE ladder[k]
  BY <1>1 DEF Plan, TypeOK
<1>3. f.rung \in {ladder[key].rung, NextRung(ladder[key].rung)}
  BY <1>1, PlanEntryFacts
<1>4. /\ ladder[key].rung \in Rungs /\ NextRung(ladder[key].rung) \in Rungs
      /\ ladder[key].rung <= NextRung(ladder[key].rung)
  BY <1>1, NextRungFacts DEF Entry
<1>5. ladder[k].rung \in Rungs
  BY DEF TypeOK, Entry
<1> HIDE DEF f
<1> QED BY <1>2, <1>3, <1>4, <1>5 DEF Rungs

(* The rung of a key comes down by one, and only when the last two         *)
(* launches that returned were clean at the rung it leaves.                *)
THEOREM ClimbNeedsTwoClean == Spec => ClimbsAfterTwoClean
<1>1. TypeOK /\ RunOK /\ OwnChoice /\ [Next]_vars => ClimbStep
  <2> SUFFICES ASSUME TypeOK, RunOK, OwnChoice, [Next]_vars, NEW k \in Keys,
                      ladder'[k].rung < ladder[k].rung, ~overridden[k]
               PROVE  /\ ladder'[k].rung = ladder[k].rung - 1
                      /\ proven'[k] = [rung |-> ladder[k].rung, count |-> 2]
    BY DEF ClimbStep
  <2>1. ladder[k].rung \in Rungs
    BY DEF TypeOK, Entry
  <2>2. CASE Plan
    <3>1. ladder'[k].rung \in Rungs
      BY TypeStep DEF TypeOK, Entry
    <3> QED BY <2>1, <2>2, <3>1, ClimbPlan DEF Rungs
  <2>3. CASE Record
    BY <2>3, ClimbRecord
  <2>4. CASE ~Plan /\ ~Record
    <3>1. ladder' = ladder
      BY <2>4, LadderStep
    <3> QED BY <2>1, <3>1 DEF Rungs
  <2> QED BY <2>2, <2>3, <2>4
<1>2. TypeOK /\ RunOK /\ OwnChoice /\ [Next]_vars => [ClimbStep]_vars
  BY <1>1
<1> QED BY <1>2, OwnChoiceCorrect, PTL DEF Spec, ClimbsAfterTwoClean, ClimbStep

----------------------------------------------------------------------------
(* Inference.  While the previous run was an attempt at k that never       *)
(* reported, what the next run reads as MCPE_STAGE_PREV is the breadcrumb  *)
(* of that attempt; an attempt that did report is no longer pending.       *)
CrumbIsOwn ==
    \A k \in Keys :
        /\ died[k] # NoStage => ladder[k].pending
        /\ lastKey = k /\ ladder[k].pending =>
              /\ pc = "off" => died[k] = crumb
              /\ pc \in {"setup", "version"} => died[k] = prev

LEMMA CrumbGone ==
    ASSUME TypeOK, RunOK, CrumbIsOwn, LauncherGone
    PROVE  CrumbIsOwn'
<1>1. CASE Attempting
  <2>1. key \in Keys /\ lastKey' = key /\ ladder' = ladder /\ pc' = "off"
    BY <1>1 DEF LauncherGone, RunOK, Attempting
  <2>2. \A k \in Keys : died'[k] = IF k = key /\ ladder[k].pending THEN crumb' ELSE died[k]
    BY <1>1, <2>1 DEF LauncherGone, TypeOK
  <2> QED BY <2>1, <2>2 DEF CrumbIsOwn
<1>2. CASE ~Attempting
  BY <1>2, KeysAssumption DEF LauncherGone, CrumbIsOwn
<1> QED BY <1>1, <1>2

LEMMA CrumbStep == TypeOK /\ RunOK /\ CrumbIsOwn /\ [Next]_vars => CrumbIsOwn'
<1> SUFFICES ASSUME TypeOK, RunOK, CrumbIsOwn, [Next]_vars PROVE CrumbIsOwn'
  OBVIOUS
<1>1. CASE Plan
  <2>1. /\ key \in Keys /\ ladder[key] \in Entry /\ lastKey' = lastKey
        /\ pc' \in {"running", "diagnostic"}
    BY <1>1 DEF Plan, TypeOK, RunOK, Launch
  <2>2. PlanEntry(ladder[key], prev).pending
    BY <2>1, PlanEntryFacts
  <2>3. \A k \in Keys :
          /\ ladder'[k] = IF k = key THEN PlanEntry(ladder[key], prev) ELSE ladder[k]
          /\ died'[k] = IF k = key THEN NoStage ELSE died[k]
    BY <1>1, <2>1 DEF Plan, TypeOK
  <2> QED BY <2>1, <2>2, <2>3 DEF CrumbIsOwn
<1>2. CASE Record
  <2>1. key \in Keys /\ pc' = "ending"
    BY <1>2 DEF Record, RunOK
  <2>2. \A k \in Keys :
          /\ k # key => ladder'[k] = ladder[k]
          /\ died'[k] = IF k = key THEN NoStage ELSE died[k]
    BY <1>2, <2>1 DEF Record, TypeOK
  <2> QED BY <2>1, <2>2 DEF CrumbIsOwn
<1>3. CASE LeaveBeforePlan \/ Done \/ PowerLoss
  BY <1>3, CrumbGone DEF LeaveBeforePlan, Done, PowerLoss
<1>4. CASE Boot
  BY <1>4 DEF Boot, CrumbIsOwn, history
<1>5. CASE EnterSetupStage \/ ChooseVersion
  BY <1>5 DEF EnterSetupStage, ChooseVersion, CrumbIsOwn, launcher, history
<1>6. CASE PlanFails
  BY <1>6 DEF PlanFails, Launch, CrumbIsOwn, durable
<1>7. CASE EnterLaunchStage \/ GameReturns \/ RecordFails \/ Shutdown
  BY <1>7 DEF EnterLaunchStage, GameReturns, RecordFails, Shutdown, CrumbIsOwn, launcher,
     durable, history
<1>8. CASE UNCHANGED vars
  BY <1>8 DEF vars, durable, launcher, history, CrumbIsOwn
<1> QED BY <1>1, <1>2, <1>3, <1>4, <1>5, <1>6, <1>7, <1>8 DEF Next

LEMMA CrumbCorrect == Spec => [](TypeOK /\ RunOK /\ CrumbIsOwn)
<1>1. Init => CrumbIsOwn
  BY DEF Init, CrumbIsOwn, NewEntry
<1> QED BY <1>1, TypeInit, TypeStep, CrumbStep, PTL DEF Spec

(* The two ways of plan(): a pending mark with a breadcrumb between abi and *)
(* window costs a rung and the streak ...                                  *)
LEMMA PlanEscalates ==
    ASSUME NEW e \in Entry, NEW s \in LAUNCH_STAGES, e.pending
    PROVE  PlanEntry(e, s).rung = NextRung(e.rung) /\ PlanEntry(e, s).streak = 0
BY PlanEntryFacts, Zenon

(* ... and everything else leaves the rung alone. *)
LEMMA PlanStays ==
    ASSUME NEW e \in Entry, NEW s, ~(e.pending /\ s \in LAUNCH_STAGES)
    PROVE  PlanEntry(e, s).rung = e.rung
BY PlanEntryFacts, Zenon

EscalateStep ==
    \A k \in Keys :
        Plan /\ key = k /\ lastKey = k /\ ladder'[k].rung > ladder[k].rung =>
            died[k] \in LAUNCH_STAGES

HangStep ==
    \A k \in Keys :
        Plan /\ key = k /\ lastKey = k /\ died[k] \in LAUNCH_STAGES =>
            /\ ladder'[k].rung = NextRung(ladder[k].rung)
            /\ ladder'[k].streak = 0

LEMMA InferenceStep ==
    ASSUME TypeOK, RunOK, CrumbIsOwn
    PROVE  EscalateStep /\ HangStep
<1> SUFFICES ASSUME NEW k \in Keys, Plan, key = k, lastKey = k
             PROVE  /\ ladder'[k].rung > ladder[k].rung => died[k] \in LAUNCH_STAGES
                    /\ died[k] \in LAUNCH_STAGES =>
                          /\ ladder'[k].rung = NextRung(ladder[k].rung)
                          /\ ladder'[k].streak = 0
  BY DEF EscalateStep, HangStep
<1>1. ladder[k] \in Entry /\ ladder'[k] = PlanEntry(ladder[k], prev) /\ pc = "version"
  BY DEF Plan, TypeOK
<1>2. ladder[k].pending => died[k] = prev
  BY <1>1 DEF CrumbIsOwn
<1>3. died[k] \in LAUNCH_STAGES => ladder[k].pending
  BY DEF CrumbIsOwn, LAUNCH_STAGES, NoStage
<1>4. CASE ladder[k].pending /\ prev \in LAUNCH_STAGES
  <2> DEFINE e == ladder[k]
  <2>1. ladder'[k].rung = NextRung(ladder[k].rung) /\ ladder'[k].streak = 0
    <3>1. e \in Entry /\ ladder'[k] = PlanEntry(e, prev) /\ e.pending
          /\ prev \in LAUNCH_STAGES
      BY <1>1, <1>4
    <3> HIDE DEF e
    <3>2. PlanEntry(e, prev).rung = NextRung(e.rung) /\ PlanEntry(e, prev).streak = 0
      BY <3>1, PlanEscalates
    <3> QED BY <3>1, <3>2 DEF e
  <2> QED BY <1>2, <1>4, <2>1
<1>5. CASE ~(ladder[k].pending /\ prev \in LAUNCH_STAGES)
  <2> DEFINE e == ladder[k]
  <2>1. ladder'[k].rung = ladder[k].rung /\ ladder[k].rung \in Rungs
    <3>1. /\ e \in Entry /\ ladder'[k] = PlanEntry(e, prev)
          /\ ~(e.pending /\ prev \in LAUNCH_STAGES)
      BY <1>1, <1>5
    <3> HIDE DEF e
    <3>2. PlanEntry(e, prev).rung = e.rung /\ e.rung \in Rungs
      BY <3>1, PlanStays DEF Entry
    <3> QED BY <3>1, <3>2 DEF e
  <2> QED BY <1>2, <1>3, <1>5, <2>1 DEF Rungs
<1> QED BY <1>4, <1>5

(* Right after an attempt at the same key, plan() spends a rung exactly on *)
(* an attempt that never reported and stopped between abi and window: it   *)
(* never counts a recorded one again.                                      *)
THEOREM EscalationHasEvidence == Spec => EscalatesOnOwnEvidence
<1>1. TypeOK /\ RunOK /\ CrumbIsOwn /\ [Next]_vars => [EscalateStep]_vars
  BY InferenceStep
<1> QED BY <1>1, CrumbCorrect, PTL DEF Spec, EscalatesOnOwnEvidence, EscalateStep

(* ... and such an attempt is never overlooked by the run that follows it. *)
THEOREM HangIsNotForgotten == Spec => HangIsCounted
<1>1. TypeOK /\ RunOK /\ CrumbIsOwn /\ [Next]_vars => [HangStep]_vars
  BY InferenceStep
<1> QED BY <1>1, CrumbCorrect, PTL DEF Spec, HangIsCounted, HangStep
=============================================================================
