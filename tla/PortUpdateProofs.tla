-------------------------- MODULE PortUpdateProofs --------------------------
(***************************************************************************)
(* Proofs about PortUpdate for any items, any number of updates and any    *)
(* number of troubles.                                                     *)
(*                                                                         *)
(* SurvivesOneTrouble is not inductive: that a program directory may be    *)
(* removed at one stage rests on what the stages before left in the other  *)
(* place, and on which of them can only be reached after a trouble.  What  *)
(* a failed update gives back, and what a finished one completes, need     *)
(* more: what is in the two places and in the work directory, item by      *)
(* item, at each stage (Course).                                           *)
(***************************************************************************)
EXTENDS PortUpdate, TLAPS

(* A directory that is not there is never written into. *)
Standalone == pc \in {"return", "links", "entry"} => Exists(target)

Unmountable == Symlinks => target.mounts = {} /\ rollback.mounts = {}

(* With at most one trouble, and not that of the unchecked removal:  which *)
(* of the two directories is complete at each stage.                       *)
Standing ==
    /\ target.is # "part"
    /\ pc \in Stages /\ ~work => trouble = 1
    /\ pc \in {"restore", "remove", "putback"} => trouble = 1
    /\ pc \in {"off", "fetch", "failed"} => Whole(target) \/ (trouble = 1 /\ Whole(rollback))
    /\ pc \in {"persist", "aside", "giveback", "return", "links", "entry",
               "remove", "putentry", "done"} => Whole(target)
    /\ pc \in {"activate", "restore", "return", "links", "entry", "remove", "putback"} => Whole(rollback)
    /\ pc \in {"activate", "restore", "putback"} => ~Exists(target)
    /\ pc = "aside" => ~Exists(rollback)

(* After that one, what is left of this update must go well.               *)
Unchecked ==
    /\ pc \in {"aside", "activate", "return", "links", "entry"} => work
    /\ pc \in {"aside", "activate", "return", "links", "entry", "done", "off"}
    /\ IF pc = "activate" THEN ~Exists(target) ELSE Whole(target)
    /\ trouble = 1

Survival ==
    Symlinks /\ trouble <= 1 => IF "clear" \in hits THEN Unchecked ELSE Standing

TypeInv == TypeOK /\ Standalone
IInv == TypeInv /\ Unmountable /\ Survival
(***************************************************************************)
(* Directories.                                                            *)
(***************************************************************************)

LEMMA AbsentIsDir == Absent \in Dir /\ ~Exists(Absent) /\ Absent.mounts = {}
  BY DEF Absent, Dir, Presence, Nothing, Contents, Exists

LEMMA PayloadIsDir ==
  ASSUME NEW v \in Nat
  PROVE  Payload(v) \in Dir /\ Whole(Payload(v)) /\ Payload(v).mounts = {}
  BY DEF Payload, Absent, Dir, Presence, Nothing, Contents, Whole

LEMMA RuinIsDir ==
  ASSUME NEW d \in Dir
  PROVE  Ruin(d) \in Dir /\ Ruin(d).is = "part" /\ Ruin(d).mounts = d.mounts
  BY DEF Ruin, Absent, Dir, Presence, Nothing, Contents

LEMMA RemovedIsDir ==
  ASSUME NEW d \in Dir
  PROVE  /\ Removed(d) \in Dir
         /\ d.mounts = {} => Removed(d) = Absent
         /\ ~Exists(Removed(d)) => Removed(d) = Absent
         /\ d.mounts = {} => Removed(d).mounts = {}
  BY AbsentIsDir, RuinIsDir DEF Removed, Exists

LEMMA PlacedIsDir ==
  ASSUME NEW d \in Dir, NEW there \in Dir
  PROVE  /\ Placed(d, there) \in Dir
         /\ ~Exists(there) => Placed(d, there) = d
         /\ Exists(there) => Exists(Placed(d, there)) /\ Placed(d, there).is = there.is
         /\ d.mounts = {} /\ there.mounts = {} => Placed(d, there).mounts = {}
  BY DEF Placed, Dir, Exists

LEMMA AttachedIsDir ==
  ASSUME NEW d \in Dir
  PROVE  /\ Attached(d) \in Dir /\ Attached(d).is = d.is
         /\ Symlinks => Attached(d).mounts = d.mounts
  BY DEF Attached, Dir, Contents

LEMMA UnmountedIsDir ==
  ASSUME NEW d \in Dir
  PROVE  /\ Unmounted(d) \in Dir /\ Unmounted(d).is = d.is /\ Unmounted(d).mounts = {}
         /\ ~Exists(d) /\ d = Absent => Unmounted(d) = Absent
  BY AbsentIsDir DEF Unmounted, Dir, Exists, Absent

(* Items moved between the directory and the work directory.               *)
LEMMA WithIsDir ==
  ASSUME NEW d \in Dir, NEW i \in Kept, NEW c \in Contents
  PROVE  With(d, i, c) \in Dir /\ With(d, i, c).is = d.is /\ With(d, i, c).mounts = d.mounts
  BY DEF Dir, With

(***************************************************************************)
(* Types.                                                                  *)
(***************************************************************************)

DirsOK ==
    /\ target \in Dir /\ rollback \in Dir
    /\ ~Exists(target) => target = Absent
    /\ ~Exists(rollback) => rollback = Absent

RestOK ==
    /\ pc \in Stages \cup {"off", "done", "failed"} /\ todo \subseteq Kept \cup Shared
    /\ entry \in File /\ work \in BOOLEAN /\ persist \in [Kept -> Contents] /\ backup \in File
    /\ release \in 0 .. MaxUpdates /\ shared \in [Shared -> BOOLEAN]
    /\ hits \subseteq Stages \cup {"clear", "signal"}

TroubleOK == trouble \in 0 .. MaxTrouble /\ before \in [target : Dir, entry : File, trouble : 0 .. trouble]

LEMMA TypeSplit == TypeOK <=> DirsOK /\ RestOK /\ TroubleOK
  BY DEF TypeOK, DirsOK, RestOK, TroubleOK

LEMMA TypeSplitNext == TypeOK' <=> DirsOK' /\ RestOK' /\ TroubleOK'
  BY TypeSplit, PTL

LEMMA TypeInit == Init => TypeInv
<1> SUFFICES ASSUME Init PROVE TypeInv
  OBVIOUS
<1>1. Payload(0) \in Dir /\ Whole(Payload(0))
  BY PayloadIsDir
<1>2. target \in Dir /\ Exists(target)
  BY <1>1, Zenon DEF Init, Dir, Exists, Whole, Contents
<1>3. RestOK
  <2>1. entry \in File /\ backup \in File
    BY DEF Init, File, NoFile, Presence
  <2>2. persist \in [Kept -> Contents] /\ shared \in [Shared -> BOOLEAN]
    BY DEF Init, Nothing, Contents
  <2>3. release \in 0 .. MaxUpdates
    BY UpdateAssumption DEF Init
  <2>4. work \in BOOLEAN /\ todo = {} /\ hits = {}
    BY DEF Init
  <2> QED
    BY <2>1, <2>2, <2>3, <2>4 DEF Init, RestOK
<1>4. DirsOK /\ TroubleOK
  BY <1>2, UpdateAssumption, AbsentIsDir DEF Init, DirsOK, TroubleOK, File, Presence
<1> QED
  BY <1>3, <1>4, TypeSplit DEF Init, TypeInv, Standalone

(* Trouble is counted whatever the command.                                *)
LEMMA TroubleStep == TypeOK /\ [Next]_vars => TroubleOK'
<1> SUFFICES ASSUME TypeOK, [Next]_vars PROVE TroubleOK'
  OBVIOUS
<1> USE UpdateAssumption DEF TypeOK, TroubleOK
<1>1. CASE Begin
  <2>1. target' \in Dir
    BY <1>1, AttachedIsDir DEF Begin
  <2> QED
    BY <1>1, <2>1 DEF Begin
<1>2. CASE UNCHANGED before /\ (UNCHANGED trouble \/ (trouble < MaxTrouble /\ trouble' = trouble + 1))
  <2>1. trouble' \in 0 .. MaxTrouble /\ 0 .. trouble \subseteq 0 .. trouble'
    BY <1>2
  <2> QED
    BY <1>2, <2>1
<1>3. ~Begin => UNCHANGED before /\ (UNCHANGED trouble \/ (trouble < MaxTrouble /\ trouble' = trouble + 1))
  <2> USE DEF Fails, FailsAt, Works, WorksInWork, FailsInWork, history
  <2>1. ASSUME Rejected \/ Verified \/ ClearRollback \/ MoveAside \/ Activate \/ Restore \/ GaveBack \/ Returned
        PROVE UNCHANGED before /\ (UNCHANGED trouble \/ (trouble < MaxTrouble /\ trouble' = trouble + 1))
    BY <2>1 DEF Rejected, Verified, ClearRollback, MoveAside, Activate, Restore, GaveBack, Returned
  <2>2. ASSUME Channel \/ Entry \/ RemoveTarget \/ PutBack \/ PutBackEntry \/ Exit \/ Signal \/ Cut \/ Reboot
        PROVE UNCHANGED before /\ (UNCHANGED trouble \/ (trouble < MaxTrouble /\ trouble' = trouble + 1))
    BY <2>2 DEF Channel, Entry, RemoveTarget, PutBack, PutBackEntry, Exit, Signal, Cut, Reboot
  <2>3. ASSUME (\E i \in Kept : Persist(i) \/ GiveBack(i) \/ Return(i)) \/ (\E i \in Shared : Link(i))
        PROVE UNCHANGED before /\ (UNCHANGED trouble \/ (trouble < MaxTrouble /\ trouble' = trouble + 1))
    BY <2>3 DEF Persist, GiveBack, Return, Link
  <2> QED
    BY <2>1, <2>2, <2>3 DEF Next, vars
<1> QED
  BY <1>1, <1>2, <1>3

LEMMA TypeStep == TypeInv /\ [Next]_vars => TypeInv'
<1> SUFFICES ASSUME TypeInv, [Next]_vars
             PROVE  TypeInv'
  OBVIOUS
<1> USE UpdateAssumption DEF TypeInv
<1>0. DirsOK /\ RestOK /\ TroubleOK'
  BY TypeSplit, TroubleStep
<1> SUFFICES DirsOK' /\ RestOK' /\ Standalone'
  BY <1>0, TypeSplitNext
<1>1. ASSUME Begin PROVE DirsOK' /\ RestOK' /\ Standalone'
  <2>1. target' \in Dir /\ target'.is = target.is
    BY <1>0, <1>1, AttachedIsDir DEF Begin, DirsOK
  <2>2. DirsOK'
    BY <1>0, <1>1, <2>1, AbsentIsDir DEF DirsOK, Begin, Standalone, Exists, Whole, inWork, history
  <2>3. RestOK'
    BY <1>0, <1>1, <2>1 DEF Begin, RestOK, Stages, history, inWork, vars, Fails, FailsAt, Works, WorksInWork, FailsInWork
  <2>4. Standalone'
    BY <1>0, <1>1, <2>1 DEF Begin, Standalone, Stages, Exists, RestOK, history, inWork
  <2> QED
    BY <2>2, <2>3, <2>4
<1>2. ASSUME Rejected PROVE DirsOK' /\ RestOK' /\ Standalone'
  <2>1. DirsOK'
    BY <1>0, <1>2, AbsentIsDir DEF DirsOK, Rejected, Standalone, Exists, vars, inWork, history
  <2>2. RestOK'
    BY <1>0, <1>2 DEF Rejected, RestOK, Stages, history, inWork, vars, Fails, FailsAt, Works, WorksInWork, FailsInWork
  <2>3. Standalone'
    BY <1>0, <1>2 DEF Rejected, Standalone, Stages, Exists, RestOK, history, inWork
  <2> QED
    BY <2>1, <2>2, <2>3
<1>3. ASSUME Verified PROVE DirsOK' /\ RestOK' /\ Standalone'
  <2>1. DirsOK'
    BY <1>0, <1>3, AbsentIsDir DEF DirsOK, Verified, Standalone, Exists, vars, inWork, history
  <2>2. RestOK'
    BY <1>0, <1>3 DEF Verified, RestOK, Stages, history, inWork, vars, Fails, FailsAt, Works, WorksInWork, FailsInWork
  <2>3. Standalone'
    BY <1>0, <1>3 DEF Verified, Standalone, Stages, Exists, RestOK, history, inWork
  <2> QED
    BY <2>1, <2>2, <2>3
<1>4. ASSUME ClearRollback PROVE DirsOK' /\ RestOK' /\ Standalone'
  <2>1. rollback' \in Dir /\ (~Exists(rollback') => rollback' = Absent)
    BY <1>0, <1>4, RuinIsDir, RemovedIsDir DEF ClearRollback, DirsOK, Exists
  <2>2. DirsOK'
    BY <1>0, <1>4, <2>1, AbsentIsDir DEF DirsOK, ClearRollback, Standalone, Exists, inWork, history
  <2>3. RestOK'
    BY <1>0, <1>4, <2>1 DEF ClearRollback, RestOK, Stages, history, inWork, vars, Fails, FailsAt, Works, WorksInWork, FailsInWork, Emptied
  <2>4. Standalone'
    BY <1>0, <1>4, <2>1 DEF ClearRollback, Standalone, Stages, Exists, RestOK, history, inWork
  <2> QED
    BY <2>2, <2>3, <2>4
<1>5. ASSUME MoveAside PROVE DirsOK' /\ RestOK' /\ Standalone'
  <2>1. target' \in Dir /\ rollback' \in Dir /\ (~Exists(rollback') => rollback' = Absent)
    BY <1>0, <1>5, PlacedIsDir, AbsentIsDir DEF MoveAside, DirsOK, Exists
  <2>2. DirsOK'
    BY <1>0, <1>5, <2>1, AbsentIsDir DEF DirsOK, MoveAside, Standalone, Exists, inWork, history
  <2>3. RestOK'
    BY <1>0, <1>5, <2>1 DEF MoveAside, RestOK, Stages, history, inWork, vars, Fails, FailsAt, Works, WorksInWork, FailsInWork
  <2>4. Standalone'
    BY <1>0, <1>5, <2>1 DEF MoveAside, Standalone, Stages, Exists, RestOK, history, inWork
  <2> QED
    BY <2>2, <2>3, <2>4
<1>6. ASSUME Activate PROVE DirsOK' /\ RestOK' /\ Standalone'
  <2>1. target' \in Dir /\ (pc' = "return" => Exists(target')) /\ (~Exists(target') => target' = Absent)
    BY <1>0, <1>6, PayloadIsDir DEF Activate, DirsOK, RestOK, Exists, Whole, WorksInWork, FailsInWork, Fails, FailsAt, Works
  <2>2. DirsOK'
    BY <1>0, <1>6, <2>1, AbsentIsDir DEF DirsOK, Activate, Standalone, Exists, inWork, history
  <2>3. RestOK'
    BY <1>0, <1>6, <2>1 DEF Activate, RestOK, Stages, history, inWork, vars, Fails, FailsAt, Works, WorksInWork, FailsInWork
  <2>4. Standalone'
    BY <1>0, <1>6, <2>1 DEF Activate, Standalone, Stages, Exists, RestOK, history, inWork
  <2> QED
    BY <2>2, <2>3, <2>4
<1>7. ASSUME Restore PROVE DirsOK' /\ RestOK' /\ Standalone'
  <2>1. DirsOK'
    BY <1>0, <1>7, PlacedIsDir, AbsentIsDir DEF Restore, DirsOK, Exists
  <2>2. RestOK'
    BY <1>0, <1>7, <2>1 DEF Restore, RestOK, Stages, history, inWork, vars, Fails, FailsAt, Works, WorksInWork, FailsInWork
  <2>3. Standalone'
    BY <1>0, <1>7, <2>1 DEF Restore, Standalone, Stages, Exists, RestOK, history, inWork
  <2> QED
    BY <2>1, <2>2, <2>3
<1>8. ASSUME GaveBack PROVE DirsOK' /\ RestOK' /\ Standalone'
  <2>1. DirsOK'
    BY <1>0, <1>8, AbsentIsDir DEF DirsOK, GaveBack, Standalone, Exists, vars, inWork, history
  <2>2. RestOK'
    BY <1>0, <1>8 DEF GaveBack, RestOK, Stages, history, inWork, vars, Fails, FailsAt, Works, WorksInWork, FailsInWork
  <2>3. Standalone'
    BY <1>0, <1>8 DEF GaveBack, Standalone, Stages, Exists, RestOK, history, inWork
  <2> QED
    BY <2>1, <2>2, <2>3
<1>9. ASSUME Returned PROVE DirsOK' /\ RestOK' /\ Standalone'
  <2>1. rollback.links \subseteq Shared
    BY <1>0, <1>9 DEF Returned, DirsOK, Dir
  <2>2. DirsOK'
    BY <1>0, <1>9, <2>1, AbsentIsDir DEF DirsOK, Returned, Standalone, Exists, inWork, history
  <2>3. RestOK'
    BY <1>0, <1>9, <2>1 DEF Returned, RestOK, Stages, history, inWork, vars, Fails, FailsAt, Works, WorksInWork, FailsInWork
  <2>4. Standalone'
    BY <1>0, <1>9, <2>1 DEF Returned, Standalone, Stages, Exists, RestOK, history, inWork
  <2> QED
    BY <2>2, <2>3, <2>4
<1>10. ASSUME Channel PROVE DirsOK' /\ RestOK' /\ Standalone'
  <2>1. target' \in Dir /\ target'.is = target.is
    <3>1. (IF target.kept[Config] = "none" THEN "fresh" ELSE target.kept[Config]) \in Contents
      BY <1>0 DEF DirsOK, Dir, Contents
    <3> QED
      BY <1>0, <1>10, <3>1, WithIsDir DEF Channel, DirsOK
  <2>2. DirsOK'
    BY <1>0, <1>10, <2>1, AbsentIsDir DEF DirsOK, Channel, Standalone, Exists, inWork, history
  <2>3. RestOK'
    BY <1>0, <1>10, <2>1 DEF Channel, RestOK, Stages, history, inWork, vars, Fails, FailsAt, Works, WorksInWork, FailsInWork, File, Presence, NoWork, NoFile, Nothing, Contents
  <2>4. Standalone'
    BY <1>0, <1>10, <2>1 DEF Channel, Standalone, Stages, Exists, RestOK, history, inWork
  <2> QED
    BY <2>2, <2>3, <2>4
<1>11. ASSUME Entry PROVE DirsOK' /\ RestOK' /\ Standalone'
  <2>1. DirsOK'
    BY <1>0, <1>11, AbsentIsDir DEF DirsOK, Entry, Standalone, Exists, vars, inWork, history
  <2>2. RestOK'
    BY <1>0, <1>11 DEF Entry, RestOK, Stages, history, inWork, vars, Fails, FailsAt, Works, WorksInWork, FailsInWork, File, Presence, NoWork, NoFile, Nothing, Contents
  <2>3. Standalone'
    BY <1>0, <1>11 DEF Entry, Standalone, Stages, Exists, RestOK, history, inWork
  <2> QED
    BY <2>1, <2>2, <2>3
<1>12. ASSUME RemoveTarget PROVE DirsOK' /\ RestOK' /\ Standalone'
  <2>1. target' \in Dir /\ (~Exists(target') => target' = Absent)
    BY <1>0, <1>12, RuinIsDir, RemovedIsDir DEF RemoveTarget, DirsOK, Exists
  <2>2. DirsOK'
    BY <1>0, <1>12, <2>1, AbsentIsDir DEF DirsOK, RemoveTarget, Standalone, Exists, inWork, history
  <2>3. RestOK'
    BY <1>0, <1>12, <2>1 DEF RemoveTarget, RestOK, Stages, history, inWork, vars, Fails, FailsAt, Works, WorksInWork, FailsInWork, Emptied
  <2>4. Standalone'
    BY <1>0, <1>12, <2>1 DEF RemoveTarget, Standalone, Stages, Exists, RestOK, history, inWork
  <2> QED
    BY <2>2, <2>3, <2>4
<1>13. ASSUME PutBack PROVE DirsOK' /\ RestOK' /\ Standalone'
  <2>1. DirsOK'
    BY <1>0, <1>13, PlacedIsDir, AbsentIsDir DEF PutBack, DirsOK, Exists
  <2>2. RestOK'
    BY <1>0, <1>13, <2>1 DEF PutBack, RestOK, Stages, history, inWork, vars, Fails, FailsAt, Works, WorksInWork, FailsInWork
  <2>3. Standalone'
    BY <1>0, <1>13, <2>1 DEF PutBack, Standalone, Stages, Exists, RestOK, history, inWork
  <2> QED
    BY <2>1, <2>2, <2>3
<1>14. ASSUME PutBackEntry PROVE DirsOK' /\ RestOK' /\ Standalone'
  <2>1. DirsOK'
    BY <1>0, <1>14, AbsentIsDir DEF DirsOK, PutBackEntry, Standalone, Exists, vars, inWork, history
  <2>2. RestOK'
    BY <1>0, <1>14 DEF PutBackEntry, RestOK, Stages, history, inWork, vars, Fails, FailsAt, Works, WorksInWork, FailsInWork, File, Presence, NoWork, NoFile, Nothing, Contents
  <2>3. Standalone'
    BY <1>0, <1>14 DEF PutBackEntry, Standalone, Stages, Exists, RestOK, history, inWork
  <2> QED
    BY <2>1, <2>2, <2>3
<1>15. ASSUME Exit PROVE DirsOK' /\ RestOK' /\ Standalone'
  <2>1. DirsOK'
    BY <1>0, <1>15, AbsentIsDir DEF DirsOK, Exit, Standalone, Exists, vars, inWork, history
  <2>2. RestOK'
    BY <1>0, <1>15 DEF Exit, RestOK, Stages, history, inWork, vars, Fails, FailsAt, Works, WorksInWork, FailsInWork, File, Presence, NoWork, NoFile, Nothing, Contents
  <2>3. Standalone'
    BY <1>0, <1>15 DEF Exit, Standalone, Stages, Exists, RestOK, history, inWork
  <2> QED
    BY <2>1, <2>2, <2>3
<1>16. ASSUME Signal PROVE DirsOK' /\ RestOK' /\ Standalone'
  <2>1. DirsOK'
    BY <1>0, <1>16, AbsentIsDir DEF DirsOK, Signal, Standalone, Exists, vars, inWork, history
  <2>2. RestOK'
    BY <1>0, <1>16 DEF Signal, RestOK, Stages, history, inWork, vars, Fails, FailsAt, Works, WorksInWork, FailsInWork, File, Presence, NoWork, NoFile, Nothing, Contents
  <2>3. Standalone'
    BY <1>0, <1>16 DEF Signal, Standalone, Stages, Exists, RestOK, history, inWork
  <2> QED
    BY <2>1, <2>2, <2>3
<1>17. ASSUME Cut PROVE DirsOK' /\ RestOK' /\ Standalone'
  <2>1. DirsOK'
    BY <1>0, <1>17, UnmountedIsDir, RuinIsDir DEF Cut, DirsOK, Exists
  <2>2. RestOK'
    BY <1>0, <1>17, <2>1 DEF Cut, RestOK, Stages, history, inWork, vars, Fails, FailsAt, Works, WorksInWork, FailsInWork, File, Presence, NoWork, NoFile, Nothing, Contents, Emptied
  <2>3. Standalone'
    BY <1>0, <1>17, <2>1 DEF Cut, Standalone, Stages, Exists, RestOK, history, inWork
  <2> QED
    BY <2>1, <2>2, <2>3
<1>18. ASSUME Reboot PROVE DirsOK' /\ RestOK' /\ Standalone'
  <2>1. DirsOK'
    BY <1>0, <1>18, UnmountedIsDir DEF Reboot, DirsOK, Exists
  <2>2. RestOK'
    BY <1>0, <1>18, <2>1 DEF Reboot, RestOK, Stages, history, inWork, vars, Fails, FailsAt, Works, WorksInWork, FailsInWork
  <2>3. Standalone'
    BY <1>0, <1>18, <2>1 DEF Reboot, Standalone, Stages, Exists, RestOK, history, inWork
  <2> QED
    BY <2>1, <2>2, <2>3
<1>19. ASSUME NEW i \in Kept, Persist(i) PROVE DirsOK' /\ RestOK' /\ Standalone'
  <2>1. target' \in Dir /\ target'.is = target.is /\ (~Exists(target') => target' = target)
    <3>1. "none" \in Contents /\ target \in Dir
      BY <1>0 DEF DirsOK, Contents
    <3>2. With(target, i, "none") \in Dir /\ With(target, i, "none").is = target.is
      BY <3>1, WithIsDir
    <3>3. ~Exists(target) => target.kept[i] = "none"
      BY <1>0 DEF DirsOK, Absent, Nothing
    <3> QED
      BY <1>19, <3>1, <3>2, <3>3 DEF Persist, Exists
  <2>2. DirsOK'
    BY <1>0, <1>19, <2>1, AbsentIsDir DEF DirsOK, Persist, Standalone, Exists, inWork, history
  <2>3. RestOK'
    BY <1>0, <1>19, <2>1 DEF Persist, RestOK, Stages, history, inWork, vars, Fails, FailsAt, Works, WorksInWork, FailsInWork, DirsOK, Dir, Contents
  <2>4. Standalone'
    BY <1>0, <1>19, <2>1 DEF Persist, Standalone, Stages, Exists, RestOK, history, inWork
  <2> QED
    BY <2>2, <2>3, <2>4
<1>20. ASSUME NEW i \in Kept, GiveBack(i) PROVE DirsOK' /\ RestOK' /\ Standalone'
  <2>1. target' \in Dir /\ target'.is = target.is /\ (~Exists(target') => target' = target)
    BY <1>0, <1>20, WithIsDir DEF GiveBack, DirsOK, RestOK, Exists
  <2>2. DirsOK'
    BY <1>0, <1>20, <2>1, AbsentIsDir DEF DirsOK, GiveBack, Standalone, Exists, inWork, history
  <2>3. RestOK'
    BY <1>0, <1>20, <2>1 DEF GiveBack, RestOK, Stages, history, inWork, vars, Fails, FailsAt, Works, WorksInWork, FailsInWork, Contents
  <2>4. Standalone'
    BY <1>0, <1>20, <2>1 DEF GiveBack, Standalone, Stages, Exists, RestOK, history, inWork
  <2> QED
    BY <2>2, <2>3, <2>4
<1>21. ASSUME NEW i \in Kept, Return(i) PROVE DirsOK' /\ RestOK' /\ Standalone'
  <2>1. target' \in Dir /\ target'.is = target.is
    BY <1>0, <1>21, WithIsDir DEF Return, DirsOK, RestOK
  <2>2. DirsOK'
    BY <1>0, <1>21, <2>1, AbsentIsDir DEF DirsOK, Return, Standalone, Exists, inWork, history
  <2>3. RestOK'
    BY <1>0, <1>21, <2>1 DEF Return, RestOK, Stages, history, inWork, vars, Fails, FailsAt, Works, WorksInWork, FailsInWork, Contents
  <2>4. Standalone'
    BY <1>0, <1>21, <2>1 DEF Return, Standalone, Stages, Exists, RestOK, history, inWork
  <2> QED
    BY <2>2, <2>3, <2>4
<1>22. ASSUME NEW i \in Shared, Link(i) PROVE DirsOK' /\ RestOK' /\ Standalone'
  <2>1. target' \in Dir /\ target'.is = target.is
    BY <1>0, <1>22 DEF Link, DirsOK, Dir
  <2>2. DirsOK'
    BY <1>0, <1>22, <2>1, AbsentIsDir DEF DirsOK, Link, Standalone, Exists, inWork, history
  <2>3. RestOK'
    BY <1>0, <1>22, <2>1 DEF Link, RestOK, Stages, history, inWork, vars, Fails, FailsAt, Works, WorksInWork, FailsInWork
  <2>4. Standalone'
    BY <1>0, <1>22, <2>1 DEF Link, Standalone, Stages, Exists, RestOK, history, inWork
  <2> QED
    BY <2>2, <2>3, <2>4
<1>23. CASE UNCHANGED vars
  BY <1>0, <1>23 DEF DirsOK, RestOK, Standalone, vars, inWork, history
<1> QED
  BY <1>1, <1>2, <1>3, <1>4, <1>5, <1>6, <1>7, <1>8, <1>9, <1>10, <1>11, <1>12, <1>13, <1>14, <1>15, <1>16, <1>17, <1>18, <1>19, <1>20, <1>21, <1>22, <1>23 DEF Next

(* Everything a variable holds is of its kind, and a directory that is not *)
(* there has nothing in it.                                                *)
THEOREM TypeCorrect == Spec => []TypeOK
<1>1. Spec => []TypeInv
  BY TypeInit, TypeStep, PTL DEF Spec
<1> QED
  BY <1>1, PTL DEF TypeInv

(***************************************************************************)
(* A filesystem with links has no mounts in either directory.              *)
(***************************************************************************)

LEMMA UnmountableStep == TypeInv /\ TypeInv' /\ Unmountable /\ [Next]_vars => Unmountable'
<1> SUFFICES ASSUME TypeInv, TypeInv', Unmountable, [Next]_vars, Symlinks
             PROVE  target'.mounts = {} /\ rollback'.mounts = {}
  BY DEF Unmountable
<1> USE AbsentIsDir DEF Unmountable
<1>0. DirsOK /\ RestOK
  BY TypeSplit DEF TypeInv
<1>1. ASSUME Begin PROVE target'.mounts = {} /\ rollback'.mounts = {}
  BY <1>0, <1>1, AttachedIsDir DEF DirsOK, Begin
<1>2. ASSUME ClearRollback \/ RemoveTarget PROVE target'.mounts = {} /\ rollback'.mounts = {}
  BY <1>0, <1>2, RuinIsDir, RemovedIsDir DEF DirsOK, ClearRollback, RemoveTarget
<1>3. ASSUME MoveAside \/ Restore \/ PutBack PROVE target'.mounts = {} /\ rollback'.mounts = {}
  BY <1>0, <1>3, PlacedIsDir DEF DirsOK, MoveAside, Restore, PutBack
<1>4. ASSUME Activate PROVE target'.mounts = {} /\ rollback'.mounts = {}
  BY <1>0, <1>4, PayloadIsDir DEF RestOK, Activate
<1>5. ASSUME Cut \/ Reboot PROVE target'.mounts = {} /\ rollback'.mounts = {}
  BY <1>0, <1>5, UnmountedIsDir, RuinIsDir DEF DirsOK, Cut, Reboot
<1>6. ASSUME Channel PROVE target'.mounts = {} /\ rollback'.mounts = {}
  <2>1. (IF target.kept[Config] = "none" THEN "fresh" ELSE target.kept[Config]) \in Contents
    BY <1>0, UpdateAssumption DEF DirsOK, Dir, Contents
  <2> QED
    BY <1>0, <1>6, <2>1, WithIsDir, UpdateAssumption DEF DirsOK, Channel
<1>7. ASSUME NEW i \in Kept, Persist(i) PROVE target'.mounts = {} /\ rollback'.mounts = {}
  <2>1. With(target, i, "none").mounts = target.mounts
    BY <1>0, WithIsDir DEF DirsOK, Contents
  <2> QED
    BY <1>7, <2>1 DEF Persist
<1>8. ASSUME NEW i \in Kept, GiveBack(i) \/ Return(i) PROVE target'.mounts = {} /\ rollback'.mounts = {}
  BY <1>0, <1>8, WithIsDir DEF DirsOK, RestOK, GiveBack, Return
<1>9. ASSUME NEW i \in Shared, Link(i) PROVE target'.mounts = {} /\ rollback'.mounts = {}
  BY <1>0, <1>9 DEF DirsOK, Dir, Link
<1>10. ASSUME UNCHANGED <<target, rollback>> PROVE target'.mounts = {} /\ rollback'.mounts = {}
  BY <1>10
<1>11. Rejected \/ Verified \/ GaveBack \/ Returned \/ Entry \/ PutBackEntry \/ Exit \/ Signal \/ UNCHANGED vars
          => UNCHANGED <<target, rollback>>
  BY DEF Rejected, Verified, GaveBack, Returned, Entry, PutBackEntry, Exit, Signal, vars
<1> QED
  BY <1>1, <1>2, <1>3, <1>4, <1>5, <1>6, <1>7, <1>8, <1>9, <1>10, <1>11 DEF Next

(***************************************************************************)
(* One trouble.                                                            *)
(***************************************************************************)

LEMMA SurvivalStep == TypeInv /\ TypeInv' /\ Unmountable /\ Survival /\ [Next]_vars => Survival'
<1> SUFFICES ASSUME TypeInv, TypeInv', Unmountable, Survival, [Next]_vars, Symlinks, trouble' <= 1
             PROVE  IF "clear" \in hits' THEN Unchecked' ELSE Standing'
  BY DEF Survival
<1> USE AbsentIsDir DEF Exists, Whole, Stages
<1>0. /\ DirsOK /\ RestOK /\ trouble \in Nat /\ trouble' \in Nat
      /\ target.mounts = {} /\ rollback.mounts = {}
  BY TypeSplit DEF TypeInv, TypeOK, Unmountable
<1>01. trouble <= trouble'
  BY <1>0 DEF Next, vars, history, Fails, FailsAt, Works, WorksInWork, FailsInWork, Begin, Rejected, Verified,
     ClearRollback, MoveAside, Activate, Restore, GaveBack, Returned, Channel, Entry, RemoveTarget, PutBack,
     PutBackEntry, Exit, Signal, Cut, Reboot, Persist, GiveBack, Return, Link
<1>02. IF "clear" \in hits THEN Unchecked ELSE Standing
  BY <1>0, <1>01 DEF Survival
<1> DEFINE Goal == IF "clear" \in hits' THEN Unchecked' ELSE Standing'
<1>1. ASSUME Begin PROVE Goal
  <2>1. target'.is = target.is
    BY <1>0, <1>1, AttachedIsDir DEF Begin, DirsOK
  <2> QED
    BY <1>0, <1>01, <1>02, <1>1, <2>1 DEF Begin, Standing, Unchecked, Fails, FailsAt, Works, WorksInWork, FailsInWork, inWork, history, RestOK
<1>2. ASSUME Rejected PROVE Goal
  BY <1>0, <1>01, <1>02, <1>2 DEF Rejected, Standing, Unchecked, Fails, FailsAt, Works, WorksInWork, FailsInWork, inWork, history, RestOK
<1>3. ASSUME Verified PROVE Goal
  <2>1. Standing /\ "clear" \notin hits
    BY <1>02, <1>3 DEF Verified, Unchecked
  <2>2. CASE target.is = "none"
    BY <1>3, <2>1, <2>2 DEF Verified, Standing, inWork, history
  <2>3. CASE target.is # "none"
    BY <1>0, <1>3, <2>1, <2>3 DEF Verified, Standing, inWork, history, DirsOK, Dir, Presence
  <2> QED
    BY <2>2, <2>3
<1>4. ASSUME ClearRollback PROVE Goal
  <2>1. Standing /\ "clear" \notin hits
    BY <1>02, <1>4 DEF ClearRollback, Unchecked
  <2>2. CASE Works /\ rollback' = Removed(rollback)
    <3>1. rollback'.is = "none"
      BY <1>0, <2>2, RemovedIsDir DEF DirsOK
    <3> QED
      BY <1>4, <2>1, <2>2, <3>1 DEF ClearRollback, Standing, Works, inWork
  <2>3. CASE FailsAt("clear")
    BY <1>0, <1>4, <2>1, <2>3 DEF ClearRollback, Standing, Unchecked, FailsAt, inWork
  <2> QED
    BY <1>4, <2>2, <2>3 DEF ClearRollback
<1>5. ASSUME MoveAside PROVE Goal
  <2>1. CASE Works /\ pc' = "activate"
    <3>1. target' = Absent /\ ("clear" \notin hits => Whole(target))
      BY <1>02, <1>5, <2>1 DEF MoveAside, Standing
    <3>2. CASE "clear" \in hits
      BY <1>02, <1>5, <2>1, <3>1, <3>2 DEF MoveAside, Unchecked, Works, inWork
    <3>3. CASE "clear" \notin hits
      <4>1. rollback' = target
        BY <1>0, <1>02, <1>5, <2>1, <3>3, PlacedIsDir DEF MoveAside, DirsOK, Standing
      <4> QED
        BY <1>02, <1>5, <2>1, <3>1, <3>3, <4>1 DEF MoveAside, Standing, Works, inWork
    <3> QED
      BY <3>2, <3>3
  <2>2. CASE Fails /\ pc' = "failed" /\ UNCHANGED <<target, rollback>>
    BY <1>0, <1>02, <1>5, <2>2 DEF MoveAside, Standing, Unchecked, Fails, FailsAt, Works, WorksInWork, FailsInWork, inWork, history, RestOK
  <2> QED
    BY <1>5, <2>1, <2>2 DEF MoveAside
<1>6. ASSUME Activate PROVE Goal
  <2>1. CASE WorksInWork /\ pc' = "return"
    <3>1. target'.is = "whole"
      BY <1>0, <1>6, <2>1, PayloadIsDir DEF Activate, RestOK
    <3> QED
      BY <1>0, <1>02, <1>6, <2>1, <3>1 DEF Activate, Standing, Unchecked, Fails, FailsAt, Works, WorksInWork, FailsInWork, inWork, history, RestOK
  <2>2. CASE FailsInWork /\ pc' = "restore" /\ UNCHANGED target
    BY <1>0, <1>02, <1>6, <2>2 DEF Activate, Standing, Unchecked, Fails, FailsAt, Works, WorksInWork, FailsInWork, inWork, history, RestOK
  <2> QED
    BY <1>6, <2>1, <2>2 DEF Activate
<1>7. ASSUME Restore PROVE Goal
  <2>1. target.is = "none" => target' = rollback \/ UNCHANGED <<target, rollback>>
    BY <1>0, <1>7, PlacedIsDir DEF Restore, DirsOK
  <2> QED
    BY <1>0, <1>01, <1>02, <1>7, <2>1 DEF Restore, Standing, Unchecked, Fails, FailsAt, Works, WorksInWork, FailsInWork, inWork, history, RestOK
<1>8. ASSUME GaveBack PROVE Goal
  BY <1>0, <1>01, <1>02, <1>8 DEF GaveBack, Standing, Unchecked, Fails, FailsAt, Works, WorksInWork, FailsInWork, inWork, history, RestOK
<1>9. ASSUME Returned PROVE Goal
  BY <1>0, <1>01, <1>02, <1>9 DEF Returned, Standing, Unchecked, Fails, FailsAt, Works, WorksInWork, FailsInWork, inWork, history, RestOK
<1>10. ASSUME Channel PROVE Goal
  <2>1. target'.is = target.is
    BY <1>0, <1>10, WithIsDir, UpdateAssumption DEF Channel, DirsOK, With
  <2> QED
    BY <1>0, <1>01, <1>02, <1>10, <2>1 DEF Channel, Standing, Unchecked, Fails, FailsAt, Works, WorksInWork, FailsInWork, inWork, history, RestOK
<1>11. ASSUME Entry PROVE Goal
  BY <1>0, <1>01, <1>02, <1>11 DEF Entry, Standing, Unchecked, Fails, FailsAt, Works, WorksInWork, FailsInWork, inWork, history, RestOK
<1>12. ASSUME RemoveTarget PROVE Goal
  <2>1. target' = Absent \/ trouble' = trouble + 1
    BY <1>0, <1>12, RemovedIsDir DEF RemoveTarget, DirsOK, Fails, FailsAt
  <2> QED
    BY <1>0, <1>01, <1>02, <1>12, <2>1 DEF RemoveTarget, Standing, Unchecked, Fails, FailsAt, Works, WorksInWork, FailsInWork, inWork, history, RestOK
<1>13. ASSUME PutBack PROVE Goal
  <2>1. target.is = "none" => target' = rollback \/ UNCHANGED <<target, rollback>>
    BY <1>0, <1>13, PlacedIsDir DEF PutBack, DirsOK
  <2> QED
    BY <1>0, <1>01, <1>02, <1>13, <2>1 DEF PutBack, Standing, Unchecked, Fails, FailsAt, Works, WorksInWork, FailsInWork, inWork, history, RestOK
<1>14. ASSUME PutBackEntry PROVE Goal
  BY <1>0, <1>01, <1>02, <1>14 DEF PutBackEntry, Standing, Unchecked, Fails, FailsAt, Works, WorksInWork, FailsInWork, inWork, history, RestOK
<1>15. ASSUME Exit PROVE Goal
  BY <1>0, <1>01, <1>02, <1>15 DEF Exit, Standing, Unchecked, Fails, FailsAt, Works, WorksInWork, FailsInWork, inWork, history, RestOK, NoWork
<1>16. ASSUME Signal PROVE Goal
  BY <1>0, <1>01, <1>02, <1>16 DEF Signal, Standing, Unchecked, Fails, FailsAt, Works, WorksInWork, FailsInWork, inWork, history, RestOK, NoWork
<1>17. ASSUME Cut PROVE Goal
  <2>1. trouble = 0 /\ trouble' = 1 /\ UNCHANGED hits /\ pc' = "off"
    BY <1>0, <1>17 DEF Cut
  <2>2. Standing /\ "clear" \notin hits /\ pc # "remove"
    BY <1>02, <1>17, <2>1 DEF Standing, Unchecked
  <2>3. target'.is = target.is /\ (pc # "persist" => rollback'.is = rollback.is)
    BY <1>0, <1>17, <2>2, UnmountedIsDir DEF Cut, DirsOK
  <2>4. pc \in Stages
    BY <1>17 DEF Cut
  <2> QED
    BY <1>0, <2>1, <2>2, <2>3, <2>4 DEF Standing
<1>18. ASSUME Reboot PROVE Goal
  <2>1. target'.is = target.is /\ rollback'.is = rollback.is
    BY <1>0, <1>18, UnmountedIsDir DEF Reboot, DirsOK
  <2> QED
    BY <1>0, <1>01, <1>02, <1>18, <2>1 DEF Reboot, Standing, Unchecked, Fails, FailsAt, Works, WorksInWork, FailsInWork, inWork, history, RestOK
<1>19. ASSUME NEW i \in Kept, Persist(i) PROVE Goal
  <2>1. target'.is = target.is
    BY <1>0, <1>19 DEF Persist, With, DirsOK, Dir
  <2> QED
    BY <1>0, <1>01, <1>02, <1>19, <2>1 DEF Persist, Standing, Unchecked, Fails, FailsAt, Works, WorksInWork, FailsInWork, inWork, history, RestOK
<1>20. ASSUME NEW i \in Kept, GiveBack(i) PROVE Goal
  <2>1. target'.is = target.is
    BY <1>0, <1>20 DEF GiveBack, With, DirsOK, Dir
  <2> QED
    BY <1>0, <1>01, <1>02, <1>20, <2>1 DEF GiveBack, Standing, Unchecked, Fails, FailsAt, Works, WorksInWork, FailsInWork, inWork, history, RestOK
<1>21. ASSUME NEW i \in Kept, Return(i) PROVE Goal
  <2>1. target'.is = target.is
    BY <1>0, <1>21 DEF Return, With, DirsOK, Dir
  <2> QED
    BY <1>0, <1>01, <1>02, <1>21, <2>1 DEF Return, Standing, Unchecked, Fails, FailsAt, Works, WorksInWork, FailsInWork, inWork, history, RestOK
<1>22. ASSUME NEW i \in Shared, Link(i) PROVE Goal
  <2>1. target'.is = target.is
    BY <1>0, <1>22 DEF Link, With, DirsOK, Dir
  <2> QED
    BY <1>0, <1>01, <1>02, <1>22, <2>1 DEF Link, Standing, Unchecked, Fails, FailsAt, Works, WorksInWork, FailsInWork, inWork, history, RestOK
<1>23. CASE UNCHANGED vars
  BY <1>02, <1>23 DEF Standing, Unchecked, vars, inWork, history
<1> QED
  BY <1>1, <1>2, <1>3, <1>4, <1>5, <1>6, <1>7, <1>8, <1>9, <1>10, <1>11, <1>12, <1>13, <1>14, <1>15, <1>16, <1>17, <1>18, <1>19, <1>20, <1>21, <1>22, <1>23 DEF Next

(* Whatever command fails, and wherever the power goes, once: a complete   *)
(* program directory is in place or beside it, for any number of items and *)
(* of updates.                                                             *)
THEOREM OneTroubleIsSurvived == Spec => []SurvivesOneTrouble
<1>1. Init => IInv
  <2> SUFFICES ASSUME Init PROVE IInv
    OBVIOUS
  <2>1. Whole(target) /\ target.mounts = {} /\ target.is # "part"
    BY PayloadIsDir DEF Init, Whole, Payload, Absent
  <2> QED
    BY <2>1, TypeInit, AbsentIsDir DEF Init, IInv, Unmountable, Survival, Standing, Stages
<1>2. IInv /\ [Next]_vars => IInv'
  BY TypeStep, UnmountableStep, SurvivalStep DEF IInv
<1>3. IInv => SurvivesOneTrouble
  <2> SUFFICES ASSUME IInv, Symlinks, trouble <= 1, "clear" \notin hits
               PROVE  Whole(target) \/ Whole(rollback)
    BY DEF SurvivesOneTrouble
  <2>1. Standing
    BY DEF IInv, Survival
  <2>2. pc \in Stages \cup {"off", "done", "failed"}
    BY DEF IInv, TypeInv, TypeOK
  <2> QED
    BY <2>1, <2>2 DEF Standing, Stages
<1> QED
  BY <1>1, <1>2, <1>3, PTL DEF Spec

(***************************************************************************)
(* What an update restores, and what it completes.                         *)
(*                                                                         *)
(* How the update stands is told by the stage and by what this update went *)
(* through so far: nothing (Smooth), one trouble that nobody noticed       *)
(* (Onward: it will be done, if nothing else happens), or one that leads   *)
(* or will lead back (Back: the old program is somewhere, whole).          *)
(***************************************************************************)

Old == before.target
Bare == [Old EXCEPT !.kept = Nothing]
SameProgram(d) == d.is = Old.is /\ d.version = Old.version /\ d.links = Old.links

(* Without the work directory nothing is in it, and the script saves the   *)
(* entry script late.  There always is an entry script.                    *)
WorkDirectory ==
    /\ ~work => persist = Nothing /\ backup = NoFile
    /\ pc = "off" => ~work
    /\ pc = "fetch" => persist = Nothing
    /\ pc \in {"fetch", "persist", "aside", "activate", "return", "links"} => backup = NoFile
    /\ Exists(entry) /\ Exists(before.entry)

(* The new program is whole as soon as it is there.                        *)
NewProgram ==
    /\ pc \in {"return", "links", "entry", "done"} => Whole(target) /\ target.version = release
    /\ pc = "done" => entry = [is |-> "whole", version |-> release]

Onward == work /\ pc \in {"persist", "aside", "activate", "return", "links", "entry", "done"}

Smooth ==
    /\ hits = {} /\ (pc \in Stages => work)
    /\ pc \notin {"restore", "giveback", "remove", "putback", "putentry"}
    /\ pc # "done" => entry = before.entry
    /\ pc \in {"fetch", "failed"} => target = Old
    /\ pc = "persist" =>
          /\ target = [Old EXCEPT !.kept = target.kept]
          /\ \A i \in Kept : IF i \in todo THEN target.kept[i] = Old.kept[i] /\ persist[i] = "none"
                             ELSE target.kept[i] = "none" /\ persist[i] = Old.kept[i]
    /\ pc = "aside" => target = Bare /\ persist = Old.kept /\ ~Exists(rollback)
    /\ pc = "activate" => rollback = Bare /\ persist = Old.kept /\ ~Exists(target)
    /\ pc \in {"return", "links", "entry", "done"} => rollback = Bare
    /\ pc = "return" =>
          /\ target.links = {}
          /\ \A i \in Kept : IF i \in todo THEN persist[i] = Old.kept[i]
                             ELSE Old.kept[i] # "none" => target.kept[i] = Old.kept[i]
    /\ pc \in {"links", "entry", "done"} =>
          \A i \in Kept : Old.kept[i] # "none" => target.kept[i] = Old.kept[i]
    /\ pc = "links" => todo \subseteq Old.links /\ target.links = Old.links \ todo
    /\ pc \in {"entry", "done"} => target.links = Old.links
    /\ pc = "entry" => backup = entry

(* The settings come back too if it was the activation that failed.        *)
GivenBack ==
    /\ pc \in {"restore", "giveback", "failed"}
    /\ pc = "restore" => rollback = Bare /\ persist = Old.kept
    /\ pc = "giveback" =>
          /\ target = [Old EXCEPT !.kept = target.kept]
          /\ \A i \in Kept : IF i \in todo THEN target.kept[i] = "none" /\ persist[i] = Old.kept[i]
                             ELSE target.kept[i] = Old.kept[i]
    /\ pc = "failed" => target = Old

Back ==
    /\ pc # "done"
    /\ IF pc \in {"remove", "putback", "putentry"}
       THEN backup = before.entry \/ (~Exists(backup) /\ entry = before.entry)
       ELSE entry = before.entry
    /\ pc \in {"fetch", "persist", "aside", "activate", "return", "links", "entry"} => ~work
    /\ pc \in {"fetch", "persist", "aside", "giveback", "putentry", "failed"} => SameProgram(target)
    /\ pc \in {"activate", "restore", "return", "links", "entry", "remove", "putback"} => SameProgram(rollback)
    /\ pc \in {"activate", "restore", "putback"} => ~Exists(target)
    /\ pc = "aside" => ~Exists(rollback)
    /\ hits \subseteq {"activate"} => GivenBack

Course ==
    Symlinks /\ pc # "off" /\ Exists(Old) =>
        /\ Here = 0 => Smooth
        /\ Here = 1 => Onward \/ Back

CourseInv == WorkDirectory /\ NewProgram /\ Course

LEMMA WorkDirectoryStep == TypeInv /\ WorkDirectory /\ [Next]_vars => WorkDirectory'
<1> SUFFICES ASSUME TypeInv, WorkDirectory, [Next]_vars PROVE WorkDirectory'
  OBVIOUS
<1> USE DEF WorkDirectory, Works, Fails, FailsAt, WorksInWork, FailsInWork, NoWork, NoFile, Exists, inWork, history
<1>0. RestOK
  BY TypeSplit DEF TypeInv
<1>1. CASE Begin \/ Rejected \/ Verified \/ ClearRollback \/ MoveAside
  BY <1>0, <1>1 DEF Begin, Rejected, Verified, ClearRollback, MoveAside, Stages
<1>2. CASE Activate \/ Restore \/ GaveBack \/ Returned \/ RemoveTarget \/ PutBack
  BY <1>0, <1>2 DEF Activate, Restore, GaveBack, Returned, RemoveTarget, PutBack
<1>3. CASE Channel \/ Entry \/ PutBackEntry
  BY <1>0, <1>3 DEF Channel, Entry, PutBackEntry, RestOK, File
<1>4. CASE Exit \/ Signal \/ Cut \/ Reboot
  BY <1>0, <1>4 DEF Exit, Signal, Cut, Reboot
<1>5. ASSUME NEW i \in Kept, Persist(i) \/ GiveBack(i) \/ Return(i) PROVE WorkDirectory'
  BY <1>0, <1>5 DEF Persist, GiveBack, Return, Nothing, RestOK
<1>6. ASSUME NEW i \in Shared, Link(i) PROVE WorkDirectory'
  BY <1>6 DEF Link
<1>7. CASE UNCHANGED vars
  BY <1>7 DEF vars
<1> QED
  BY <1>1, <1>2, <1>3, <1>4, <1>5, <1>6, <1>7 DEF Next

LEMMA NewProgramStep == TypeInv /\ NewProgram /\ [Next]_vars => NewProgram'
<1> SUFFICES ASSUME TypeInv, NewProgram, [Next]_vars PROVE NewProgram'
  OBVIOUS
<1> USE DEF NewProgram, Stages
<1>0. DirsOK /\ RestOK
  BY TypeSplit DEF TypeInv
<1>1. CASE Begin \/ Rejected \/ Verified \/ ClearRollback \/ MoveAside
  BY <1>0, <1>1 DEF Begin, Rejected, Verified, ClearRollback, MoveAside
<1>2. CASE Activate
  BY <1>0, <1>2, UpdateAssumption DEF Activate, RestOK, Payload, Absent, Whole
<1>3. CASE Restore \/ GaveBack \/ Returned \/ RemoveTarget \/ PutBack
  BY <1>0, <1>3 DEF Restore, GaveBack, Returned, RemoveTarget, PutBack
<1>4. CASE Channel \/ Entry \/ PutBackEntry
  BY <1>0, <1>4 DEF Channel, Entry, PutBackEntry, With, Whole, DirsOK, Dir
<1>5. CASE Exit \/ Signal \/ Cut \/ Reboot
  BY <1>0, <1>5 DEF Exit, Signal, Cut, Reboot
<1>6. ASSUME NEW i \in Kept, Persist(i) \/ GiveBack(i) \/ Return(i) PROVE NewProgram'
  BY <1>0, <1>6 DEF Persist, GiveBack, Return, With, Whole, DirsOK, Dir
<1>7. ASSUME NEW i \in Shared, Link(i) PROVE NewProgram'
  BY <1>0, <1>7 DEF Link, Whole, DirsOK, Dir
<1>8. CASE UNCHANGED vars
  BY <1>8 DEF vars
<1> QED
  BY <1>1, <1>2, <1>3, <1>4, <1>5, <1>6, <1>7, <1>8 DEF Next

(***************************************************************************)
(* The course of one update, step by step.                                 *)
(***************************************************************************)

LEMMA DirEqual ==
  ASSUME NEW d \in Dir, NEW e \in Dir,
         d.is = e.is, d.version = e.version, d.kept = e.kept, d.links = e.links, d.mounts = e.mounts
  PROVE  d = e
  BY DEF Dir

LEMMA BareIsDir ==
  ASSUME NEW d \in Dir
  PROVE  [d EXCEPT !.kept = Nothing] \in Dir
  BY DEF Dir, Nothing, Contents

(* What is known of an update under way, at a step that does not end it.   *)
Underway ==
    /\ TypeInv /\ Unmountable /\ WorkDirectory /\ NewProgram
    /\ Symlinks /\ Exists(Old) /\ pc # "off"

LEMMA UnderwayFacts ==
  ASSUME Underway
  PROVE  /\ target \in Dir /\ rollback \in Dir /\ Old \in Dir /\ Bare \in Dir
         /\ target.mounts = {} /\ rollback.mounts = {}
         /\ ~Exists(target) => target = Absent
         /\ ~Exists(rollback) => rollback = Absent
         /\ persist \in [Kept -> Contents] /\ Old.kept \in [Kept -> Contents]
         /\ todo \subseteq Kept \cup Shared /\ work \in BOOLEAN /\ release \in Nat
         /\ trouble \in Nat /\ before.trouble \in Nat /\ before.trouble <= trouble
<1>1. DirsOK /\ RestOK /\ TroubleOK
  BY TypeSplit DEF Underway, TypeInv
<1>2. Old \in Dir /\ before.trouble \in 0 .. trouble
  BY <1>1 DEF TroubleOK, Old
<1>3. Bare \in Dir
  BY <1>2, BareIsDir DEF Bare
<1>4. Old.kept \in [Kept -> Contents]
  BY <1>2 DEF Dir
<1> QED
  BY <1>1, <1>2, <1>3, <1>4, UpdateAssumption DEF DirsOK, RestOK, TroubleOK, Underway, Unmountable

(* Nothing went wrong and nothing goes wrong now.                          *)
LEMMA SmoothStep ==
  ASSUME Underway, Smooth, [Next]_vars, UNCHANGED <<trouble, before>>, pc' # "off"
  PROVE  Smooth'
<1> USE UnderwayFacts DEF Underway, Stages, Works, Fails, FailsAt, WorksInWork, FailsInWork, inWork, history
<1>0. UNCHANGED <<Old, Bare>>
  BY DEF Old, Bare
<1>1. CASE Begin \/ Exit \/ Signal \/ Cut \/ Reboot
  BY <1>1 DEF Begin, Exit, Signal, Cut, Reboot
<1>2. CASE Rejected
  BY <1>0, <1>2 DEF Rejected, Smooth
<1>3. CASE Verified
  <2>1. target = Old /\ persist = Nothing /\ pc' = "persist" /\ todo' = Kept
    BY <1>3 DEF Verified, Smooth, WorkDirectory
  <2>2. target = [Old EXCEPT !.kept = target.kept]
    BY <2>1, DirEqual DEF Dir
  <2> QED
    BY <1>0, <1>3, <2>1, <2>2 DEF Verified, Smooth, Nothing
<1>4. CASE ClearRollback
  <2>1. rollback' = Absent
    BY <1>4, RemovedIsDir DEF ClearRollback
  <2>2. target.kept = Nothing /\ persist = Old.kept
    BY <1>4 DEF ClearRollback, Smooth, Nothing, Dir
  <2>3. target = Bare
    BY <1>4, <2>2 DEF ClearRollback, Smooth, Bare
  <2> QED
    BY <1>0, <1>4, <2>1, <2>2, <2>3, AbsentIsDir DEF ClearRollback, Smooth
<1>5. CASE MoveAside
  BY <1>0, <1>5, AbsentIsDir, PlacedIsDir DEF MoveAside, Smooth
<1>6. CASE Activate
  <2>1. target' = Payload(release) /\ pc' = "return" /\ todo' = Kept
    BY <1>6 DEF Activate, Smooth
  <2>2. target'.links = {}
    BY <2>1 DEF Payload, Absent
  <2> QED
    BY <1>0, <1>6, <2>1, <2>2 DEF Activate, Smooth
<1>7. CASE Restore \/ GaveBack \/ RemoveTarget \/ PutBack \/ PutBackEntry
  BY <1>7 DEF Restore, GaveBack, RemoveTarget, PutBack, PutBackEntry, Smooth
<1>8. CASE Returned
  <2>1. Exists(rollback) /\ rollback.links = Old.links
    BY <1>8 DEF Returned, Smooth, Bare, Dir, Exists
  <2>2. Old.links \subseteq Shared
    BY DEF Dir
  <2> QED
    BY <1>0, <1>8, <2>1, <2>2 DEF Returned, Smooth
<1>9. CASE Channel
  <2>1. /\ target'.links = target.links
        /\ \A i \in Kept : target.kept[i] # "none" => target'.kept[i] = target.kept[i]
    BY <1>9, UpdateAssumption DEF Channel, With, Dir
  <2>2. backup' = entry
    BY <1>9 DEF Channel, Smooth
  <2>3. target'.links = Old.links
    BY <1>9, <2>1 DEF Channel, Smooth
  <2>4. \A i \in Kept : Old.kept[i] # "none" => target'.kept[i] = Old.kept[i]
    BY <1>9, <2>1 DEF Channel, Smooth
  <2> QED
    BY <1>0, <1>9, <2>2, <2>3, <2>4 DEF Channel, Smooth
<1>10. CASE Entry
  BY <1>0, <1>10 DEF Entry, Smooth
<1>11. ASSUME NEW i \in Kept, Persist(i) PROVE Smooth'
  <2>1. /\ pc = "persist" /\ pc' = "persist" /\ todo' = todo \ {i} /\ work /\ work'
        /\ UNCHANGED <<entry, hits>>
    BY <1>11 DEF Persist, Smooth
  <2>2. target' = [Old EXCEPT !.kept = target'.kept]
    BY <1>11 DEF Persist, Smooth, With, Dir
  <2>3. \A j \in Kept : IF j \in todo' THEN target'.kept[j] = Old.kept[j] /\ persist'[j] = "none"
                        ELSE target'.kept[j] = "none" /\ persist'[j] = Old.kept[j]
    <3>1. i \in todo /\ target.kept[i] = Old.kept[i] /\ persist[i] = "none"
      BY <1>11 DEF Persist, Smooth
    <3>2. target'.kept = [target.kept EXCEPT ![i] = "none"] /\ persist' = [persist EXCEPT ![i] = Old.kept[i]]
      <4>1. CASE target.kept[i] = "none"
        BY <1>11, <3>1, <4>1 DEF Persist, Dir
      <4>2. CASE target.kept[i] # "none"
        BY <1>11, <3>1, <4>2 DEF Persist, With, Dir, Smooth
      <4> QED
        BY <4>1, <4>2
    <3> QED
      BY <2>1, <3>1, <3>2 DEF Smooth, Dir
  <2> QED
    BY <1>0, <2>1, <2>2, <2>3 DEF Smooth
<1>12. ASSUME NEW i \in Kept, GiveBack(i) PROVE Smooth'
  BY <1>12 DEF GiveBack, Smooth
<1>13. ASSUME NEW i \in Kept, Return(i) PROVE Smooth'
  <2>1. /\ pc = "return" /\ pc' = "return" /\ todo' = todo \ {i} /\ work /\ work' /\ i \in todo
        /\ UNCHANGED <<entry, hits, rollback>>
    BY <1>13 DEF Return, Smooth
  <2>2. persist[i] = Old.kept[i]
    BY <2>1 DEF Smooth
  <2>3. \/ persist[i] # "none" /\ target' = With(target, i, persist[i]) /\ persist' = [persist EXCEPT ![i] = "none"]
        \/ persist[i] = "none" /\ UNCHANGED <<target, persist>>
    BY <1>13 DEF Return
  <2>4. target'.links = {}
    BY <2>1, <2>3 DEF Smooth, With, Dir
  <2>5. \A j \in Kept : IF j \in todo' THEN persist'[j] = Old.kept[j]
                        ELSE Old.kept[j] # "none" => target'.kept[j] = Old.kept[j]
    BY <2>1, <2>2, <2>3 DEF Smooth, With, Dir
  <2> QED
    BY <1>0, <2>1, <2>4, <2>5 DEF Smooth
<1>14. ASSUME NEW i \in Shared, Link(i) PROVE Smooth'
  <2>1. target' = [target EXCEPT !.links = @ \cup {i}] /\ todo' = todo \ {i} /\ i \in todo /\ UNCHANGED pc
    BY <1>14 DEF Link
  <2>2. target'.links = target.links \cup {i} /\ target'.kept = target.kept
    BY <2>1 DEF Dir
  <2> QED
    BY <1>0, <1>14, <2>1, <2>2 DEF Link, Smooth
<1>15. CASE UNCHANGED vars
  BY <1>0, <1>15 DEF vars, Smooth
<1> QED
  BY <1>1, <1>2, <1>3, <1>4, <1>5, <1>6, <1>7, <1>8, <1>9, <1>10, <1>11, <1>12, <1>13, <1>14, <1>15 DEF Next

(* A trouble nobody noticed stays unnoticed as long as there is no other.  *)
LEMMA OnwardStep ==
  ASSUME Underway, Onward, [Next]_vars, UNCHANGED <<trouble, before>>, pc' # "off"
  PROVE  Onward'
<1>0. trouble' # trouble + 1 /\ pc # "off"
  BY UnderwayFacts DEF Underway
<1> USE <1>0 DEF Onward, Works, Fails, FailsAt, WorksInWork, FailsInWork, inWork, history
<1>1. CASE Begin \/ Rejected \/ Verified \/ ClearRollback \/ MoveAside \/ Activate \/ Restore \/ GaveBack \/ Returned
  BY <1>1 DEF Begin, Rejected, Verified, ClearRollback, MoveAside, Activate, Restore, GaveBack, Returned
<1>2. CASE Channel \/ Entry \/ RemoveTarget \/ PutBack \/ PutBackEntry
  BY <1>2 DEF Channel, Entry, RemoveTarget, PutBack, PutBackEntry
<1>3. CASE Exit \/ Signal \/ Cut \/ Reboot
  BY <1>3 DEF Exit, Signal, Cut, Reboot
<1>4. ASSUME NEW i \in Kept, Persist(i) \/ GiveBack(i) \/ Return(i) PROVE Onward'
  BY <1>4 DEF Persist, GiveBack, Return
<1>5. ASSUME NEW i \in Shared, Link(i) PROVE Onward'
  BY <1>5 DEF Link
<1>6. CASE UNCHANGED vars
  BY <1>6 DEF vars
<1> QED
  BY <1>1, <1>2, <1>3, <1>4, <1>5, <1>6 DEF Next

(* The way back, when nothing else goes wrong on it.                       *)
LEMMA BackStep ==
  ASSUME Underway, Back, [Next]_vars, UNCHANGED <<trouble, before>>, pc' # "off"
  PROVE  Back'
<1> USE UnderwayFacts DEF Underway, Stages, Works, Fails, FailsAt, WorksInWork, FailsInWork, inWork, history
<1>0. UNCHANGED <<Old, Bare>>
  BY DEF Old, Bare
<1>1. CASE Begin \/ Exit \/ Signal \/ Cut \/ Reboot
  BY <1>1 DEF Begin, Exit, Signal, Cut, Reboot, Back
<1>2. CASE Rejected \/ Verified
  BY <1>0, <1>2 DEF Rejected, Verified, Back, SameProgram, GivenBack
<1>3. CASE ClearRollback
  <2>1. rollback' = Absent
    BY <1>3, RemovedIsDir DEF ClearRollback
  <2> QED
    BY <1>0, <1>3, <2>1, AbsentIsDir DEF ClearRollback, Back, SameProgram, GivenBack
<1>4. CASE MoveAside
  <2>1. rollback' = target /\ target' = Absent /\ pc' = "activate"
    BY <1>4, PlacedIsDir DEF MoveAside, Back
  <2> QED
    BY <1>0, <1>4, <2>1, AbsentIsDir DEF MoveAside, Back, SameProgram, GivenBack
<1>5. CASE Activate
  BY <1>0, <1>5 DEF Activate, Back, SameProgram, GivenBack
<1>6. CASE Restore
  <2>1. Exists(rollback) /\ target' = rollback
    BY <1>6, PlacedIsDir DEF Restore, Back, SameProgram, Exists
  <2>2. /\ pc = "restore" /\ pc' = "giveback" /\ todo' = Kept
        /\ UNCHANGED <<entry, work, persist, backup, hits>>
    BY <1>6, <2>1 DEF Restore
  <2>3. SameProgram(target)'
    BY <1>0, <1>6, <2>1 DEF Restore, Back, SameProgram
  <2>4. ASSUME hits \subseteq {"activate"} PROVE GivenBack'
    <3>1. rollback = Bare /\ persist = Old.kept
      BY <2>2, <2>4 DEF Back, GivenBack
    <3>2. target' = [Old EXCEPT !.kept = target'.kept] /\ target'.kept = Nothing
      BY <2>1, <3>1 DEF Bare, Dir
    <3> QED
      BY <1>0, <2>2, <3>1, <3>2 DEF GivenBack, Nothing
  <2> QED
    BY <1>0, <2>2, <2>3, <2>4 DEF Back
<1>7. CASE GaveBack
  <2>1. ASSUME hits \subseteq {"activate"} PROVE GivenBack'
    <3>1. target = [Old EXCEPT !.kept = target.kept] /\ \A i \in Kept : target.kept[i] = Old.kept[i]
      BY <1>7, <2>1 DEF GaveBack, Back, GivenBack
    <3>2. target.kept = Old.kept
      BY <3>1 DEF Dir
    <3>3. target = Old
      BY <3>1, <3>2, DirEqual DEF Dir
    <3> QED
      BY <1>0, <1>7, <3>3 DEF GaveBack, GivenBack
  <2> QED
    BY <1>0, <1>7, <2>1 DEF GaveBack, Back, SameProgram
<1>8. CASE Returned
  BY <1>0, <1>8 DEF Returned, Back, SameProgram, GivenBack
<1>9. CASE Channel
  BY <1>0, <1>9 DEF Channel, Back, SameProgram, GivenBack
<1>10. CASE Entry
  BY <1>0, <1>10 DEF Entry, Back, SameProgram, GivenBack, WorkDirectory, Exists, NoFile
<1>11. CASE RemoveTarget
  <2>1. target' = Absent
    BY <1>11, RemovedIsDir DEF RemoveTarget
  <2> QED
    BY <1>0, <1>11, <2>1, AbsentIsDir DEF RemoveTarget, Back, SameProgram, GivenBack
<1>12. CASE PutBack
  <2>1. target' = rollback
    BY <1>12, PlacedIsDir DEF PutBack, Back, SameProgram, Exists
  <2> QED
    BY <1>0, <1>12, <2>1 DEF PutBack, Back, SameProgram, GivenBack
<1>13. CASE PutBackEntry
  <2>1. entry' = before.entry
    BY <1>13 DEF PutBackEntry, Back, WorkDirectory
  <2>2. ~(hits \subseteq {"activate"})
    BY <1>13 DEF PutBackEntry, Back, GivenBack
  <2>3. pc = "putentry" /\ pc' = "failed" /\ UNCHANGED <<target, hits>>
    BY <1>13 DEF PutBackEntry
  <2> QED
    BY <1>0, <2>1, <2>2, <2>3 DEF Back, SameProgram
<1>14. ASSUME NEW i \in Kept, Persist(i) PROVE Back'
  <2>1. UNCHANGED <<target, persist>> /\ UNCHANGED <<pc, rollback, entry, work, backup, hits>>
    BY <1>14 DEF Persist, Back
  <2> QED
    BY <1>0, <1>14, <2>1 DEF Persist, Back, SameProgram, GivenBack
<1>15. ASSUME NEW i \in Kept, GiveBack(i) PROVE Back'
  <2>1. /\ pc = "giveback" /\ pc' = "giveback" /\ todo' = todo \ {i} /\ i \in todo
        /\ UNCHANGED <<rollback, entry, work, backup, hits>>
    BY <1>15 DEF GiveBack
  <2>2. Exists(target) /\ SameProgram(target)
    BY <2>1 DEF Back, SameProgram, Exists
  <2>3. \/ persist[i] # "none" /\ target' = With(target, i, persist[i]) /\ persist' = [persist EXCEPT ![i] = "none"]
        \/ persist[i] = "none" /\ UNCHANGED <<target, persist>>
    BY <1>15, <2>2 DEF GiveBack
  <2>4. SameProgram(target)'
    BY <1>0, <2>2, <2>3 DEF SameProgram, With, Dir
  <2>5. ASSUME hits \subseteq {"activate"} PROVE GivenBack'
    <3>1. GivenBack
      BY <2>5 DEF Back
    <3>2. target' = [Old EXCEPT !.kept = target'.kept]
      BY <2>1, <2>3, <3>1 DEF GivenBack, With, Dir
    <3>3. target.kept[i] = "none" /\ persist[i] = Old.kept[i]
      BY <2>1, <3>1 DEF GivenBack
    <3>4. \A j \in Kept : IF j \in todo' THEN target'.kept[j] = "none" /\ persist'[j] = Old.kept[j]
                          ELSE target'.kept[j] = Old.kept[j]
      BY <2>1, <2>3, <3>1, <3>3 DEF GivenBack, With, Dir
    <3> QED
      BY <1>0, <2>1, <3>2, <3>4 DEF GivenBack
  <2> QED
    BY <1>0, <2>1, <2>4, <2>5 DEF Back
<1>16. ASSUME NEW i \in Kept, Return(i) PROVE Back'
  <2>1. pc = "return" /\ UNCHANGED <<pc, rollback, entry, work, backup, hits>>
    BY <1>16 DEF Return
  <2> QED
    BY <1>0, <2>1 DEF Back, SameProgram, GivenBack
<1>17. ASSUME NEW i \in Shared, Link(i) PROVE Back'
  BY <1>0, <1>17 DEF Link, Back, SameProgram, GivenBack
<1>18. CASE UNCHANGED vars
  BY <1>0, <1>18 DEF vars, Back, SameProgram, GivenBack
<1> QED
  BY <1>1, <1>2, <1>3, <1>4, <1>5, <1>6, <1>7, <1>8, <1>9, <1>10, <1>11, <1>12, <1>13, <1>14, <1>15, <1>16, <1>17, <1>18 DEF Next

(* The first trouble is noticed and leads back, or is not.                 *)
LEMMA FirstTroubleStep ==
  ASSUME Underway, Smooth, [Next]_vars, trouble' = trouble + 1, UNCHANGED before, pc' # "off"
  PROVE  Onward' \/ Back'
<1> USE DEF Stages, Works, Fails, FailsAt, WorksInWork, FailsInWork, inWork, history
<1>0. trouble' # trouble /\ UNCHANGED <<Old, Bare>>
  BY UnderwayFacts DEF Old, Bare
<1>1. SameProgram(Bare) /\ SameProgram(Old) /\ SameProgram([Old EXCEPT !.kept = target.kept])
  BY UnderwayFacts DEF SameProgram, Bare, Dir
<1>2. CASE Begin \/ Rejected \/ Verified \/ Exit \/ Cut \/ Reboot
  BY <1>0, <1>2 DEF Begin, Rejected, Verified, Exit, Cut, Reboot
<1>3. CASE GaveBack \/ Returned \/ Restore \/ RemoveTarget \/ PutBack \/ PutBackEntry
  BY <1>0, <1>3 DEF GaveBack, Returned, Restore, RemoveTarget, PutBack, PutBackEntry, Smooth
<1>4. CASE ClearRollback \/ Channel
  BY <1>0, <1>4 DEF ClearRollback, Channel, Smooth, Onward
<1>5. CASE MoveAside
  <2>1. pc' = "failed" /\ hits' = {"aside"} /\ UNCHANGED <<target, entry>> /\ pc = "aside"
    BY <1>0, <1>5 DEF MoveAside, Smooth
  <2>2. target = Bare /\ entry = before.entry
    BY <2>1 DEF Smooth
  <2> QED
    BY <1>0, <1>1, <2>1, <2>2 DEF Back, SameProgram
<1>6. CASE Activate
  <2>1. pc = "activate" /\ pc' = "restore" /\ UNCHANGED <<target, rollback, persist, entry>>
    BY <1>0, <1>6 DEF Activate, Smooth
  <2>2. rollback = Bare /\ persist = Old.kept /\ ~Exists(target) /\ entry = before.entry
    BY <2>1 DEF Smooth
  <2> QED
    BY <1>0, <1>1, <2>1, <2>2 DEF Back, SameProgram, GivenBack, Exists
<1>7. CASE Entry
  <2>1. pc = "entry" /\ pc' = "remove" /\ hits' = {"entry"} /\ UNCHANGED <<rollback, backup>>
    BY <1>0, <1>7 DEF Entry, Smooth
  <2>2. rollback = Bare /\ backup = before.entry
    BY <2>1 DEF Smooth
  <2> QED
    BY <1>0, <1>1, <2>1, <2>2 DEF Back, SameProgram
<1>8. CASE Signal
  <2>1. work' = FALSE /\ hits' = {"signal"} /\ UNCHANGED <<pc, target, rollback, entry>> /\ pc \in Stages
    BY <1>8 DEF Signal, NoWork, Smooth
  <2>2. /\ pc \in {"fetch", "persist", "aside", "activate", "return", "links", "entry"}
        /\ entry = before.entry
    BY <2>1 DEF Smooth
  <2>3. /\ pc \in {"fetch", "persist", "aside"} => SameProgram(target)
        /\ pc \in {"activate", "return", "links", "entry"} => SameProgram(rollback)
        /\ pc = "activate" => ~Exists(target)
        /\ pc = "aside" => ~Exists(rollback)
    BY <1>1 DEF Smooth
  <2> QED
    BY <1>0, <2>1, <2>2, <2>3 DEF Back, SameProgram, Exists
<1>9. ASSUME NEW i \in Kept, Persist(i) \/ Return(i) PROVE Onward'
  BY <1>0, <1>9 DEF Persist, Return, Smooth, Onward
<1>10. ASSUME NEW i \in Kept, GiveBack(i) PROVE Onward'
  BY <1>10 DEF GiveBack, Smooth
<1>11. ASSUME NEW i \in Shared, Link(i) PROVE Back'
  <2>1. pc = "links" /\ pc' = "remove" /\ hits' = {"links"} /\ UNCHANGED <<rollback, backup, entry>>
    BY <1>0, <1>11 DEF Link, Smooth
  <2>2. rollback = Bare /\ entry = before.entry /\ ~Exists(backup)
    BY <2>1 DEF Smooth, Underway, WorkDirectory, NoFile, Exists
  <2> QED
    BY <1>0, <1>1, <2>1, <2>2 DEF Back, SameProgram, Exists
<1>12. CASE UNCHANGED vars
  BY <1>0, <1>12 DEF vars
<1> QED
  BY <1>2, <1>3, <1>4, <1>5, <1>6, <1>7, <1>8, <1>9, <1>10, <1>11, <1>12 DEF Next

(* Troubles are only added up, and only a new update is compared anew.     *)
LEMMA HistoryStep ==
  ASSUME TypeOK, [Next]_vars
  PROVE  Begin \/ (UNCHANGED before /\ (UNCHANGED trouble \/ trouble' = trouble + 1))
<1> USE DEF Fails, FailsAt, Works, WorksInWork, FailsInWork, history
<1>1. CASE Rejected \/ Verified \/ ClearRollback \/ MoveAside \/ Activate \/ Restore \/ GaveBack \/ Returned
  BY <1>1 DEF Rejected, Verified, ClearRollback, MoveAside, Activate, Restore, GaveBack, Returned
<1>2. CASE Channel \/ Entry \/ RemoveTarget \/ PutBack \/ PutBackEntry \/ Exit \/ Signal \/ Cut \/ Reboot
  BY <1>2 DEF Channel, Entry, RemoveTarget, PutBack, PutBackEntry, Exit, Signal, Cut, Reboot
<1>3. CASE (\E i \in Kept : Persist(i) \/ GiveBack(i) \/ Return(i)) \/ (\E i \in Shared : Link(i))
  BY <1>3 DEF Persist, GiveBack, Return, Link
<1> QED
  BY <1>1, <1>2, <1>3 DEF Next, vars

LEMMA CourseStep == IInv /\ IInv' /\ CourseInv /\ [Next]_vars => Course'
<1> SUFFICES ASSUME IInv, IInv', CourseInv, [Next]_vars, Symlinks, pc' # "off", Exists(Old')
             PROVE  (Here' = 0 => Smooth') /\ (Here' = 1 => Onward' \/ Back')
  BY DEF Course, CourseInv, Exists
<1>1. CASE Begin
  <2>1. /\ pc' = "fetch" /\ hits' = {} /\ work' /\ entry' = entry /\ before'.entry = entry
        /\ Old' = target' /\ before'.trouble = trouble /\ trouble' = trouble
    BY <1>1 DEF Begin, Old
  <2>2. Here' = 0
    BY <2>1 DEF Here, IInv, TypeInv, TypeOK
  <2> QED
    BY <2>1, <2>2 DEF Smooth, Stages
<1>2. CASE ~Begin /\ UNCHANGED before
  <2>1. pc # "off"
    BY <1>2 DEF Next, vars, history, Stages, Rejected, Verified, ClearRollback, MoveAside, Activate, Restore,
       GaveBack, Returned, Channel, Entry, RemoveTarget, PutBack, PutBackEntry, Exit, Signal, Cut, Reboot,
       Persist, GiveBack, Return, Link
  <2>2. Underway /\ Exists(Old)
    BY <1>2, <2>1 DEF Underway, IInv, CourseInv, Old, Exists
  <2>3. (Here = 0 => Smooth) /\ (Here = 1 => Onward \/ Back)
    BY <2>1, <2>2 DEF CourseInv, Course
  <2>4. trouble \in Nat /\ before.trouble \in Nat /\ before.trouble <= trouble /\ TypeOK
    BY <2>2, UnderwayFacts DEF IInv, TypeInv
  <2>5. CASE UNCHANGED trouble
    <3>1. Here' = Here
      BY <1>2, <2>5 DEF Here
    <3> QED
      BY <1>2, <2>2, <2>3, <2>5, <3>1, SmoothStep, OnwardStep, BackStep
  <2>6. CASE trouble' = trouble + 1
    <3>1. Here' = Here + 1 /\ Here \in Nat
      BY <1>2, <2>4, <2>6 DEF Here
    <3>2. Here' # 0 /\ (Here' = 1 => Here = 0)
      BY <3>1
    <3> QED
      BY <1>2, <2>2, <2>3, <2>6, <3>2, FirstTroubleStep
  <2>7. UNCHANGED trouble \/ trouble' = trouble + 1
    BY <1>2, <2>4, HistoryStep
  <2> QED
    BY <2>5, <2>6, <2>7
<1> QED
  BY <1>1, <1>2, HistoryStep DEF IInv, TypeInv

LEMMA CourseAlways == Spec => [](IInv /\ CourseInv)
<1>1. Init => IInv /\ CourseInv
  <2> SUFFICES ASSUME Init PROVE IInv /\ CourseInv
    OBVIOUS
  <2>1. Whole(target) /\ target.mounts = {} /\ target.is # "part"
    BY PayloadIsDir DEF Init, Whole, Payload, Absent
  <2>2. IInv
    BY <2>1, TypeInit, AbsentIsDir DEF Init, IInv, Unmountable, Survival, Standing, Stages
  <2>3. CourseInv
    BY DEF Init, CourseInv, WorkDirectory, NewProgram, Course, Exists
  <2> QED
    BY <2>2, <2>3
<1>2. IInv /\ [Next]_vars => IInv'
  BY TypeStep, UnmountableStep, SurvivalStep DEF IInv
<1>3. IInv /\ CourseInv /\ [Next]_vars => IInv' /\ CourseInv'
  BY <1>2, CourseStep, WorkDirectoryStep, NewProgramStep DEF IInv, CourseInv
<1> QED
  BY <1>1, <1>3, PTL DEF Spec

(* "previous code restored", "previous payload restored": an update that   *)
(* gave up after one trouble of its own, whatever happened in the updates  *)
(* before it, leaves the program it found, with its links and its entry    *)
(* script, and also with the settings if nothing or the activation failed. *)
THEOREM FailureIsTakenBack == Spec => []FailureRestoresPrevious
<1>1. IInv /\ CourseInv => FailureRestoresPrevious
  <2> SUFFICES ASSUME IInv, CourseInv, Symlinks, pc = "failed", Here <= 1, Exists(before.target)
               PROVE  /\ entry = before.entry /\ SameProgram(target)
                      /\ hits \subseteq {"activate"} => target = before.target
    BY DEF FailureRestoresPrevious, SameProgram, Old, Whole
  <2>1. Underway
    BY DEF Underway, IInv, CourseInv, Old
  <2>2. Here \in Nat
    BY <2>1, UnderwayFacts DEF Here
  <2>3. Here = 0 \/ Here = 1
    BY <2>2
  <2>4. Smooth \/ Onward \/ Back
    BY <2>1, <2>3 DEF CourseInv, Course, Old
  <2>5. CASE Smooth
    BY <2>5 DEF Smooth, SameProgram, Old
  <2>6. CASE Back
    BY <2>6 DEF Back, GivenBack, Old
  <2> QED
    BY <2>4, <2>5, <2>6 DEF Onward
<1> QED
  BY <1>1, CourseAlways, PTL

(* An update that says it is done is: whatever happened on the way, the    *)
(* new program and its entry script are whole; and if nothing happened,    *)
(* every setting and link of the old program is there, and the old program *)
(* beside it.                                                              *)
THEOREM DoneIsWhole == Spec => []DoneIsComplete
<1>1. IInv /\ CourseInv => DoneIsComplete
  <2> SUFFICES ASSUME IInv, CourseInv, pc = "done" PROVE DoneIsComplete
    BY DEF DoneIsComplete
  <2>1. Whole(target) /\ target.version = release /\ entry = [is |-> "whole", version |-> release]
    BY DEF CourseInv, NewProgram
  <2>2. ASSUME Symlinks, Here = 0, Exists(before.target)
        PROVE  /\ \A i \in Kept : before.target.kept[i] # "none" => target.kept[i] = before.target.kept[i]
               /\ target.links = before.target.links
               /\ rollback.is = before.target.is /\ rollback.version = before.target.version
    <3>1. Smooth
      BY <2>2 DEF CourseInv, Course, Old
    <3>2. before.target \in Dir
      BY DEF IInv, TypeInv, TypeOK
    <3> QED
      BY <3>1, <3>2 DEF Smooth, Old, Bare, Dir
  <2> QED
    BY <2>1, <2>2 DEF DoneIsComplete
<1> QED
  BY <1>1, CourseAlways, PTL
=============================================================================
