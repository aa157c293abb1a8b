--------------------------- MODULE ApkStoreProofs ---------------------------
(***************************************************************************)
(* Proofs about ApkInstall and ApkStore for any ABIs, files, number of     *)
(* installations and downloads, failed steps and power cuts.               *)
(*                                                                         *)
(* That an installed version is never touched rests on the journal: its    *)
(* targets did not exist when they were chosen (Apart), what is still to   *)
(* be renamed or rolled back is among them (Progress), and it is only      *)
(* removed when nothing of them is left or all of it is finished.  The     *)
(* launcher adds nothing to what an installer may do (StepOfTheInstaller), *)
(* and of the folder with the downloaded files it is shown what is where   *)
(* at each phase of an exchange.                                           *)
(***************************************************************************)
EXTENDS ApkStore, TLAPS

Removing == {"rollback", "undo", "erase", "undo erase", "unlink", "undone"}
Renaming == {"extract", "commit", "finish"}
Installing == Removing \cup Renaming \cup {"mkdir", "journal", "inspect", "except"}

Apart ==
    /\ journal.targets \cap installed = {} /\ erasing \cap installed = {}
    /\ erasing \subseteq dismantled
    /\ pc \notin Bodies => erasing = {}

Progress ==
    /\ pc \in {"mkdir", "journal", "inspect"} => journal.targets = {}
    /\ pc \in Renaming \cup {"inspect"} => journal.tid = tid
    /\ pc \in Renaming => /\ left \subseteq journal.targets
                          /\ \A a \in journal.targets \ left : Whole(a)
    /\ pc \in Removing => /\ left \subseteq journal.targets
                          /\ \A a \in journal.targets \ left : ~Exists(a)
    /\ pc \in {"unlink", "undone", "finish"} => left = {}

Found ==
    /\ pc \in Installing => /\ outcome = "none"
                            /\ \A a \in Abis : Exists(a) => a \in before \cup journal.targets
    /\ pc \notin Installing /\ outcome = "failed" /\ journal = NoJournal
       => \A a \in Abis : Exists(a) => a \in before

IInv == TypeOK /\ Apart /\ Progress /\ Found /\ InstalledStays /\ ShownIsAccountedFor

(***************************************************************************)
(* Each part is preserved.                                                 *)
(***************************************************************************)

LEMMA Blank == NoJournal.targets = {} /\ NoJournal.tid = 0
  BY DEF NoJournal

LEMMA TypeInit == Init => TypeOK
  BY InstallAssumption DEF Init, TypeOK, NoJournal, Foreign, Full, Entries

LEMMA CountersStep ==
  ASSUME trouble \in 0 .. MaxTrouble, cuts \in 0 .. MaxCuts, [Next]_vars
  PROVE  trouble' \in 0 .. MaxTrouble /\ cuts' \in 0 .. MaxCuts
<1>1. (trouble' = trouble \/ Fails) /\ (cuts' = cuts \/ (cuts < MaxCuts /\ cuts' = cuts + 1))
  BY DEF Next, Install, vars, bounded, RollbackStage, Unlink, MakeStage, WriteJournal, Reject,
     AlreadyInstalled, Choose, Extract, RemoveStage, Finish, StepFails, Except, Erased, EraseFails,
     RollbackNothing, RollbackTarget, Refuse, Commit, Erase, Boot, Quit, Cut, Delete, Start
<1> QED
  BY <1>1, InstallAssumption DEF Fails

LEMMA TypeStep ==
  ASSUME TypeOK, [Next]_vars
  PROVE  TypeOK'
<1> USE DEF TypeOK, Steps, Bodies, Full, Entries, Foreign, NoJournal, Over, Fails, disk, bounded
<1>1. CASE RollbackStage
  <2>1. trouble' \in 0 .. MaxTrouble /\ cuts' \in 0 .. MaxCuts
    BY CountersStep
  <2> QED
    BY <1>1, <2>1 DEF RollbackStage
<1>2. CASE Unlink
  <2>1. trouble' \in 0 .. MaxTrouble /\ cuts' \in 0 .. MaxCuts
    BY CountersStep
  <2>2. journal' \in [tid : 0 .. MaxInstalls, targets : SUBSET Abis]
    <3> HIDE DEF TypeOK, Fails, Over, bounded
    <3>1. journal \in [tid : 0 .. MaxInstalls, targets : SUBSET Abis]
      BY DEF TypeOK
    <3> QED
      BY <1>2, <3>1, InstallAssumption DEF Unlink
  <2>3. /\ pc' \in {"mkdir", "idle"} /\ wanted' \subseteq Abis /\ left' \subseteq Abis
        /\ erasing' \subseteq Abis /\ outcome' \in {"none", "installed", "present", "failed"}
    BY <1>2 DEF Unlink, TypeOK, Over
  <2> QED
    BY <1>2, <2>1, <2>2, <2>3 DEF Unlink, TypeOK, Steps
<1>3. CASE MakeStage
  BY <1>3, InstallAssumption DEF MakeStage
<1>4. CASE WriteJournal
  BY <1>4, InstallAssumption DEF WriteJournal
<1>5. CASE Reject
  BY <1>5, InstallAssumption DEF Reject
<1>6. CASE AlreadyInstalled
  BY <1>6, InstallAssumption DEF AlreadyInstalled, Present
<1>7. CASE Choose
  BY <1>7, InstallAssumption DEF Choose, Present
<1>8. CASE Extract
  BY <1>8, InstallAssumption DEF Extract, Present
<1>9. CASE RemoveStage
  BY <1>9, InstallAssumption DEF RemoveStage
<1>10. CASE Finish
  BY <1>10, InstallAssumption DEF Finish
<1>11. CASE StepFails
  <2>1. trouble' \in 0 .. MaxTrouble /\ cuts' \in 0 .. MaxCuts
    BY CountersStep
  <2> QED
    BY <1>11, <2>1 DEF StepFails
<1>12. CASE Except
  BY <1>12, InstallAssumption DEF Except
<1>13. CASE Erased
  BY <1>13, InstallAssumption DEF Erased
<1>14. CASE EraseFails
  <2>1. trouble' \in 0 .. MaxTrouble /\ cuts' \in 0 .. MaxCuts
    BY CountersStep
  <2> QED
    BY <1>14, <2>1 DEF EraseFails
<1>15. CASE Boot
  BY <1>15, InstallAssumption DEF Boot
<1>16. CASE Quit
  BY <1>16, InstallAssumption DEF Quit
<1>17. CASE Cut
  <2>1. trouble' \in 0 .. MaxTrouble /\ cuts' \in 0 .. MaxCuts
    BY CountersStep
  <2> QED
    BY <1>17, <2>1 DEF Cut
<1>18. ASSUME NEW a \in Abis, RollbackNothing(a) PROVE TypeOK'
  BY <1>18, InstallAssumption DEF RollbackNothing
<1>19. ASSUME NEW a \in Abis, RollbackTarget(a) PROVE TypeOK'
  BY <1>19, InstallAssumption DEF RollbackTarget, Mine
<1>20. ASSUME NEW a \in Abis, Refuse(a) PROVE TypeOK'
  BY <1>20, InstallAssumption DEF Refuse, Mine
<1>21. ASSUME NEW a \in Abis, Commit(a) PROVE TypeOK'
  BY <1>21, InstallAssumption DEF Commit
<1>22. ASSUME NEW a \in Abis, Delete(a) PROVE TypeOK'
  BY <1>22, InstallAssumption DEF Delete
<1>23. ASSUME NEW a \in Abis, NEW e \in Full, Erase(a, e) PROVE TypeOK'
  <2>1. held' \in [Abis -> SUBSET Full]
    BY <1>23 DEF Erase, TypeOK
  <2>2. tag' \in [Abis -> 0 .. MaxInstalls]
    <3>1. tag \in [Abis -> 0 .. MaxInstalls]
      OBVIOUS
    <3> HIDE DEF TypeOK, Full, Entries, Bodies, Steps, Over, Fails
    <3>2. 0 \in 0 .. MaxInstalls
      BY InstallAssumption
    <3> QED
      BY <1>23, <3>1, <3>2 DEF Erase
  <2>3. ASSUME NEW b \in Abis, held'[b] # {} PROVE "dir" \in held'[b]
    BY <1>23, <2>3 DEF Erase, TypeOK, Full
  <2> QED
    BY <1>23, <2>1, <2>2, <2>3 DEF Erase, TypeOK, bounded
<1>24. ASSUME NEW set \in SUBSET Abis, Start(set) PROVE TypeOK'
  <2>1. tid' \in 0 .. MaxInstalls
    BY <1>24, InstallAssumption DEF Start, TypeOK
  <2>2. left' \subseteq Abis /\ pc' \in Steps
    BY <1>24 DEF Start, TypeOK, Steps
  <2> QED
    BY <1>24, <2>1, <2>2 DEF Start, TypeOK, disk, bounded
<1>25. CASE UNCHANGED vars
  BY <1>25 DEF vars
<1> QED
  BY <1>1, <1>2, <1>3, <1>4, <1>5, <1>6, <1>7, <1>8, <1>9, <1>10, <1>11, <1>12, <1>13, <1>14,
     <1>15, <1>16, <1>17, <1>18, <1>19, <1>20, <1>21, <1>22, <1>23, <1>24, <1>25 DEF Next,
     Install

LEMMA ApartStep ==
  ASSUME TypeOK, Apart, Progress, InstalledStays, [Next]_vars
  PROVE  Apart'
<1> USE DEF TypeOK, Apart, Progress, Removing, Renaming, Steps, Bodies, Exists, NoJournal, Over,
     disk, bounded
<1>1. CASE RollbackStage
  BY <1>1 DEF RollbackStage
<1>2. CASE Unlink
  <2>1. journal'.targets \subseteq journal.targets
    BY <1>2, Blank DEF Unlink, bounded
  <2>2. erasing = {} /\ erasing' = {} /\ pc' \notin Bodies
    BY <1>2 DEF Unlink, Apart, Bodies, Over
  <2> QED
    BY <1>2, <2>1, <2>2 DEF Unlink, Apart
<1>3. CASE MakeStage
  BY <1>3 DEF MakeStage
<1>4. CASE WriteJournal
  BY <1>4 DEF WriteJournal
<1>5. CASE Reject
  BY <1>5 DEF Reject
<1>6. CASE AlreadyInstalled
  BY <1>6 DEF AlreadyInstalled, Present
<1>7. CASE Choose
  <2>1. journal'.targets = wanted \ Present
    BY <1>7 DEF Choose
  <2>2. \A b \in wanted \ Present : b \notin installed
    BY DEF Present, Exists, InstalledStays, Full, Entries, TypeOK
  <2> QED
    BY <1>7, <2>1, <2>2 DEF Choose, Apart, Bodies, bounded
<1>8. CASE Extract
  BY <1>8 DEF Extract, Present
<1>9. CASE RemoveStage
  BY <1>9 DEF RemoveStage
<1>10. CASE Finish
  BY <1>10 DEF Finish
<1>11. CASE StepFails
  BY <1>11 DEF StepFails, Fails
<1>12. CASE Except
  BY <1>12 DEF Except
<1>13. CASE Erased
  BY <1>13 DEF Erased
<1>14. CASE EraseFails
  BY <1>14 DEF EraseFails, Fails
<1>15. CASE Boot
  BY <1>15 DEF Boot
<1>16. CASE Quit
  BY <1>16 DEF Quit
<1>17. CASE Cut
  BY <1>17 DEF Cut
<1>18. ASSUME NEW a \in Abis, RollbackNothing(a) PROVE Apart'
  BY <1>18 DEF RollbackNothing
<1>19. ASSUME NEW a \in Abis, RollbackTarget(a) PROVE Apart'
  BY <1>19 DEF RollbackTarget, Mine
<1>20. ASSUME NEW a \in Abis, Refuse(a) PROVE Apart'
  BY <1>20 DEF Refuse, Mine
<1>21. ASSUME NEW a \in Abis, Commit(a) PROVE Apart'
  BY <1>21 DEF Commit, Full, Entries
<1>22. ASSUME NEW a \in Abis, Delete(a) PROVE Apart'
  BY <1>22 DEF Delete
<1>23. ASSUME NEW a \in Abis, NEW e \in Full, Erase(a, e) PROVE Apart'
  BY <1>23 DEF Erase, Full, Entries
<1>24. ASSUME NEW set \in SUBSET Abis, Start(set) PROVE Apart'
  BY <1>24 DEF Start
<1>25. CASE UNCHANGED vars
  BY <1>25 DEF vars
<1> QED
  BY <1>1, <1>2, <1>3, <1>4, <1>5, <1>6, <1>7, <1>8, <1>9, <1>10, <1>11, <1>12, <1>13, <1>14,
     <1>15, <1>16, <1>17, <1>18, <1>19, <1>20, <1>21, <1>22, <1>23, <1>24, <1>25 DEF Next,
     Install

LEMMA ProgressStep ==
  ASSUME TypeOK, Apart, Progress, [Next]_vars
  PROVE  Progress'
<1> USE DEF TypeOK, Apart, Progress, Removing, Renaming, Steps, Bodies, Exists, Whole,
     NoJournal, Over, disk, bounded
<1>1. CASE RollbackStage
  BY <1>1 DEF RollbackStage
<1>2. CASE Unlink
  <2>1. CASE pc' = "mkdir"
    <3>1. journal'.targets = {}
      BY <1>2, <2>1, Blank DEF Unlink, Over
    <3> QED
      BY <2>1, <3>1 DEF Progress, Renaming, Removing
  <2>2. CASE pc' = "idle"
    BY <2>2 DEF Progress, Renaming, Removing
  <2> QED
    BY <1>2, <2>1, <2>2 DEF Unlink, Over
<1>3. CASE MakeStage
  BY <1>3 DEF MakeStage
<1>4. CASE WriteJournal
  BY <1>4 DEF WriteJournal
<1>5. CASE Reject
  BY <1>5 DEF Reject
<1>6. CASE AlreadyInstalled
  BY <1>6 DEF AlreadyInstalled, Present
<1>7. CASE Choose
  BY <1>7 DEF Choose, Present
<1>8. CASE Extract
  BY <1>8 DEF Extract, Present
<1>9. CASE RemoveStage
  BY <1>9 DEF RemoveStage
<1>10. CASE Finish
  BY <1>10 DEF Finish
<1>11. CASE StepFails
  BY <1>11 DEF StepFails, Fails
<1>12. CASE Except
  BY <1>12 DEF Except
<1>13. CASE Erased
  BY <1>13 DEF Erased
<1>14. CASE EraseFails
  BY <1>14 DEF EraseFails, Fails
<1>15. CASE Boot
  BY <1>15 DEF Boot
<1>16. CASE Quit
  BY <1>16 DEF Quit
<1>17. CASE Cut
  BY <1>17 DEF Cut
<1>18. ASSUME NEW a \in Abis, RollbackNothing(a) PROVE Progress'
  BY <1>18 DEF RollbackNothing
<1>19. ASSUME NEW a \in Abis, RollbackTarget(a) PROVE Progress'
  BY <1>19 DEF RollbackTarget, Mine
<1>20. ASSUME NEW a \in Abis, Refuse(a) PROVE Progress'
  BY <1>20 DEF Refuse, Mine
<1>21. ASSUME NEW a \in Abis, Commit(a) PROVE Progress'
  BY <1>21 DEF Commit, Full, Entries
<1>22. ASSUME NEW a \in Abis, Delete(a) PROVE Progress'
  BY <1>22 DEF Delete
<1>23. ASSUME NEW a \in Abis, NEW e \in Full, Erase(a, e) PROVE Progress'
  BY <1>23 DEF Erase, Full, Entries
<1>24. ASSUME NEW set \in SUBSET Abis, Start(set) PROVE Progress'
  <2>1. CASE journal = NoJournal
    BY <1>24, <2>1, Blank DEF Start, Progress, Renaming, Removing, disk
  <2>2. CASE journal # NoJournal
    BY <1>24, <2>2 DEF Start, Progress, Renaming, Removing, disk
  <2> QED
    BY <2>1, <2>2
<1>25. CASE UNCHANGED vars
  BY <1>25 DEF vars
<1> QED
  BY <1>1, <1>2, <1>3, <1>4, <1>5, <1>6, <1>7, <1>8, <1>9, <1>10, <1>11, <1>12, <1>13, <1>14,
     <1>15, <1>16, <1>17, <1>18, <1>19, <1>20, <1>21, <1>22, <1>23, <1>24, <1>25 DEF Next,
     Install

LEMMA FoundStep ==
  ASSUME TypeOK, Progress, Found, [Next]_vars
  PROVE  Found'
<1> USE DEF TypeOK, Progress, Found, Installing, Removing, Renaming, Steps, Bodies, Exists,
     NoJournal, Over, disk, bounded
<1>1. CASE RollbackStage
  BY <1>1 DEF RollbackStage
<1>2. CASE Unlink
  BY <1>2 DEF Unlink, Fails
<1>3. CASE MakeStage
  BY <1>3 DEF MakeStage
<1>4. CASE WriteJournal
  BY <1>4 DEF WriteJournal
<1>5. CASE Reject
  BY <1>5 DEF Reject
<1>6. CASE AlreadyInstalled
  BY <1>6 DEF AlreadyInstalled, Present
<1>7. CASE Choose
  BY <1>7 DEF Choose, Present
<1>8. CASE Extract
  BY <1>8 DEF Extract, Present
<1>9. CASE RemoveStage
  BY <1>9 DEF RemoveStage
<1>10. CASE Finish
  BY <1>10 DEF Finish
<1>11. CASE StepFails
  BY <1>11 DEF StepFails, Fails
<1>12. CASE Except
  <2>1. journal = NoJournal => journal.targets = {}
    BY Blank
  <2> QED
    BY <1>12, <2>1 DEF Except, Over, Found, Installing, Removing, Renaming, Exists
<1>13. CASE Erased
  BY <1>13 DEF Erased
<1>14. CASE EraseFails
  <2>1. journal = NoJournal => journal.targets = {}
    BY Blank
  <2>2. CASE pc = "delete"
    BY <1>14, <2>2 DEF EraseFails, Over, disk, Found, Installing, Removing, Renaming, Exists
  <2>3. CASE pc # "delete"
    BY <1>14, <2>1, <2>3 DEF EraseFails, Over, Bodies, disk, Found, Installing, Removing, Renaming, Exists
  <2> QED
    BY <2>2, <2>3
<1>15. CASE Boot
  BY <1>15 DEF Boot
<1>16. CASE Quit
  BY <1>16 DEF Quit
<1>17. CASE Cut
  BY <1>17 DEF Cut
<1>18. ASSUME NEW a \in Abis, RollbackNothing(a) PROVE Found'
  BY <1>18 DEF RollbackNothing
<1>19. ASSUME NEW a \in Abis, RollbackTarget(a) PROVE Found'
  BY <1>19 DEF RollbackTarget, Mine
<1>20. ASSUME NEW a \in Abis, Refuse(a) PROVE Found'
  <2>1. journal = NoJournal => journal.targets = {}
    BY Blank
  <2> QED
    BY <1>20, <2>1 DEF Refuse, Over, disk, Found, Installing, Removing, Renaming, Exists
<1>21. ASSUME NEW a \in Abis, Commit(a) PROVE Found'
  BY <1>21 DEF Commit, Full, Entries
<1>22. ASSUME NEW a \in Abis, Delete(a) PROVE Found'
  BY <1>22 DEF Delete
<1>23. ASSUME NEW a \in Abis, NEW e \in Full, Erase(a, e) PROVE Found'
  BY <1>23 DEF Erase, Full, Entries
<1>24. ASSUME NEW set \in SUBSET Abis, Start(set) PROVE Found'
  BY <1>24 DEF Start
<1>25. CASE UNCHANGED vars
  BY <1>25 DEF vars
<1> QED
  BY <1>1, <1>2, <1>3, <1>4, <1>5, <1>6, <1>7, <1>8, <1>9, <1>10, <1>11, <1>12, <1>13, <1>14,
     <1>15, <1>16, <1>17, <1>18, <1>19, <1>20, <1>21, <1>22, <1>23, <1>24, <1>25 DEF Next,
     Install

LEMMA StaysStep ==
  ASSUME TypeOK, Apart, Progress, InstalledStays, [Next]_vars
  PROVE  InstalledStays'
<1> USE DEF TypeOK, Apart, Progress, InstalledStays, Renaming, Bodies, Whole, Full, Entries,
     Over, disk, bounded
<1>1. CASE RollbackStage
  BY <1>1 DEF RollbackStage
<1>2. CASE Unlink
  BY <1>2 DEF Unlink, Fails, NoJournal
<1>3. CASE MakeStage
  BY <1>3 DEF MakeStage
<1>4. CASE WriteJournal
  BY <1>4 DEF WriteJournal
<1>5. CASE Reject
  BY <1>5 DEF Reject
<1>6. CASE AlreadyInstalled
  BY <1>6 DEF AlreadyInstalled, Present
<1>7. CASE Choose
  BY <1>7 DEF Choose, Present
<1>8. CASE Extract
  BY <1>8 DEF Extract, Present
<1>9. CASE RemoveStage
  BY <1>9 DEF RemoveStage
<1>10. CASE Finish
  BY <1>10 DEF Finish, NoJournal
<1>11. CASE StepFails
  BY <1>11 DEF StepFails, Fails
<1>12. CASE Except
  BY <1>12 DEF Except, NoJournal
<1>13. CASE Erased
  BY <1>13 DEF Erased
<1>14. CASE EraseFails
  BY <1>14 DEF EraseFails, Fails
<1>15. CASE Boot
  BY <1>15 DEF Boot
<1>16. CASE Quit
  BY <1>16 DEF Quit
<1>17. CASE Cut
  BY <1>17 DEF Cut
<1>18. ASSUME NEW a \in Abis, RollbackNothing(a) PROVE InstalledStays'
  BY <1>18 DEF RollbackNothing
<1>19. ASSUME NEW a \in Abis, RollbackTarget(a) PROVE InstalledStays'
  BY <1>19 DEF RollbackTarget, Mine
<1>20. ASSUME NEW a \in Abis, Refuse(a) PROVE InstalledStays'
  BY <1>20 DEF Refuse, Mine
<1>21. ASSUME NEW a \in Abis, Commit(a) PROVE InstalledStays'
  BY <1>21 DEF Commit
<1>22. ASSUME NEW a \in Abis, Delete(a) PROVE InstalledStays'
  BY <1>22 DEF Delete
<1>23. ASSUME NEW a \in Abis, NEW e \in Full, Erase(a, e) PROVE InstalledStays'
  <2>1. a \notin installed
    BY <1>23 DEF Erase, Apart
  <2>2. \A b \in Abis : b # a => held'[b] = held[b]
    BY <1>23 DEF Erase, TypeOK
  <2>3. installed' = installed /\ installed \subseteq Abis
    BY <1>23 DEF Erase, TypeOK
  <2> QED
    BY <2>1, <2>2, <2>3 DEF InstalledStays, Full
<1>24. ASSUME NEW set \in SUBSET Abis, Start(set) PROVE InstalledStays'
  BY <1>24 DEF Start, NoJournal
<1>25. CASE UNCHANGED vars
  BY <1>25 DEF vars
<1> QED
  BY <1>1, <1>2, <1>3, <1>4, <1>5, <1>6, <1>7, <1>8, <1>9, <1>10, <1>11, <1>12, <1>13, <1>14,
     <1>15, <1>16, <1>17, <1>18, <1>19, <1>20, <1>21, <1>22, <1>23, <1>24, <1>25 DEF Next,
     Install

LEMMA ShownStep ==
  ASSUME TypeOK, Apart, Progress, InstalledStays, ShownIsAccountedFor, [Next]_vars
  PROVE  ShownIsAccountedFor'
<1> USE DEF TypeOK, Apart, Progress, ShownIsAccountedFor, Mine, Exists, Removing, Renaming,
     Bodies, Full, Entries, NoJournal, Over, disk, bounded
<1>1. CASE RollbackStage
  BY <1>1 DEF RollbackStage
<1>2. CASE Unlink
  BY <1>2 DEF Unlink, Fails
<1>3. CASE MakeStage
  BY <1>3 DEF MakeStage
<1>4. CASE WriteJournal
  BY <1>4 DEF WriteJournal
<1>5. CASE Reject
  BY <1>5 DEF Reject
<1>6. CASE AlreadyInstalled
  BY <1>6 DEF AlreadyInstalled, Present
<1>7. CASE Choose
  BY <1>7 DEF Choose, Present
<1>8. CASE Extract
  BY <1>8 DEF Extract, Present
<1>9. CASE RemoveStage
  BY <1>9 DEF RemoveStage
<1>10. CASE Finish
  BY <1>10 DEF Finish
<1>11. CASE StepFails
  BY <1>11 DEF StepFails, Fails
<1>12. CASE Except
  BY <1>12 DEF Except
<1>13. CASE Erased
  BY <1>13 DEF Erased
<1>14. CASE EraseFails
  BY <1>14 DEF EraseFails, Fails
<1>15. CASE Boot
  BY <1>15 DEF Boot
<1>16. CASE Quit
  BY <1>16 DEF Quit
<1>17. CASE Cut
  BY <1>17 DEF Cut
<1>18. ASSUME NEW a \in Abis, RollbackNothing(a) PROVE ShownIsAccountedFor'
  BY <1>18 DEF RollbackNothing
<1>19. ASSUME NEW a \in Abis, RollbackTarget(a) PROVE ShownIsAccountedFor'
  BY <1>19 DEF RollbackTarget
<1>20. ASSUME NEW a \in Abis, Refuse(a) PROVE ShownIsAccountedFor'
  BY <1>20 DEF Refuse
<1>21. ASSUME NEW a \in Abis, Commit(a) PROVE ShownIsAccountedFor'
  BY <1>21 DEF Commit
<1>22. ASSUME NEW a \in Abis, Delete(a) PROVE ShownIsAccountedFor'
  BY <1>22 DEF Delete
<1>23. ASSUME NEW a \in Abis, NEW e \in Full, Erase(a, e) PROVE ShownIsAccountedFor'
  BY <1>23 DEF Erase
<1>24. ASSUME NEW set \in SUBSET Abis, Start(set) PROVE ShownIsAccountedFor'
  BY <1>24 DEF Start
<1>25. CASE UNCHANGED vars
  BY <1>25 DEF vars
<1> QED
  BY <1>1, <1>2, <1>3, <1>4, <1>5, <1>6, <1>7, <1>8, <1>9, <1>10, <1>11, <1>12, <1>13, <1>14,
     <1>15, <1>16, <1>17, <1>18, <1>19, <1>20, <1>21, <1>22, <1>23, <1>24, <1>25 DEF Next,
     Install

(***************************************************************************)
(* The theorems.                                                           *)
(***************************************************************************)

LEMMA InvInit == Init => IInv
<1> SUFFICES ASSUME Init PROVE IInv
  OBVIOUS
<1>1. TypeOK
  BY TypeInit
<1>2. Apart /\ Progress /\ Found
  BY DEF Init, Apart, Progress, Found, Bodies, Removing, Renaming, Installing, NoJournal
<1>3. InstalledStays /\ ShownIsAccountedFor
  BY DEF Init, InstalledStays, ShownIsAccountedFor, Exists, Full, Entries
<1> QED
  BY <1>1, <1>2, <1>3 DEF IInv

LEMMA InvStep == IInv /\ [Next]_vars => IInv'
  BY TypeStep, ApartStep, ProgressStep, FoundStep, StaysStep, ShownStep DEF IInv

LEMMA Invariance == Spec => []IInv
  BY InvInit, InvStep, PTL DEF Spec

LEMMA InvFailure == IInv => FailureIsUndone
  BY DEF IInv, Found, FailureIsUndone, Installing, Removing, Renaming

(* Every state of the installer is a state of its types, in any sequence   *)
(* of installations, deletions, restarts and power cuts.                   *)
THEOREM TypeCorrect == Spec => []TypeOK
<1>1. IInv => TypeOK
  BY DEF IInv
<1> QED
  BY Invariance, <1>1, PTL

(* The launcher with its downloader starts installations, deletions and    *)
(* restarts only as an installer without one would: what holds of Spec     *)
(* holds of StoreSpec.                                                     *)
THEOREM StepOfTheInstaller == StoreSpec => Spec
<1>1. StoreInit => Init
  BY DEF StoreInit
<1>2. [StoreNext]_storeVars => [Next]_vars
  <2> SUFFICES ASSUME [StoreNext]_storeVars PROVE [Next]_vars
    OBVIOUS
  <2>1. CASE Launcher
    BY <2>1 DEF Launcher, Next
  <2>2. CASE MenuInstall
    BY <2>2 DEF MenuInstall, Next
  <2>3. CASE MenuDownload
    BY <2>3 DEF MenuDownload, installer, vars
  <2>4. CASE DownloadStep
    BY <2>4 DEF DownloadStep, installer, vars
  <2>5. CASE DownloadFailed
    BY <2>5 DEF DownloadFailed, installer, vars
  <2>6. CASE DownloadDone
    BY <2>6 DEF DownloadDone, installer, vars, Next
  <2>7. CASE InstallStep
    BY <2>7 DEF InstallStep, Next
  <2>8. CASE PowerCut
    BY <2>8 DEF PowerCut, Next
  <2>9. ASSUME NEW f \in Files, DeleteApk(f) PROVE [Next]_vars
    BY <2>9 DEF DeleteApk, installer, vars
  <2>10. CASE UNCHANGED storeVars
    BY <2>10 DEF storeVars, installer, vars
  <2> QED
    BY <2>1, <2>2, <2>3, <2>4, <2>5, <2>6, <2>7, <2>8, <2>9, <2>10 DEF StoreNext
<1> QED
  BY <1>1, <1>2, PTL DEF StoreSpec, Spec

(* With the launcher and any number of downloads and installations, no     *)
(* step takes an entry from a version that was installed and not deleted.  *)
THEOREM InstalledVersionsStay == StoreSpec => []InstalledStays
<1>1. IInv => InstalledStays
  BY DEF IInv
<1> QED
  BY StepOfTheInstaller, Invariance, <1>1, PTL

(* Whatever fails or is cut off: every version that can be seen is         *)
(* finished, was being removed, or is named in the journal under its own   *)
(* transaction.                                                            *)
THEOREM EverythingIsAccountedFor == StoreSpec => []ShownIsAccountedFor
<1>1. IInv => ShownIsAccountedFor
  BY DEF IInv
<1> QED
  BY StepOfTheInstaller, Invariance, <1>1, PTL

(* A failed installation without a journal left no new version.            *)
THEOREM FailuresAreUndone == StoreSpec => []FailureIsUndone
  BY StepOfTheInstaller, Invariance, InvFailure, PTL

(***************************************************************************)
(* The folder with the APK files.                                          *)
(*                                                                         *)
(* Its files are of one download because an exchange only puts new ones    *)
(* in when the old ones are all aside, and old ones back when the new ones *)
(* are all out: what is where at each phase (Exchange).  What is installed *)
(* is what was downloaded because the launcher does nothing else in        *)
(* between (Menu).                                                         *)
(***************************************************************************)

None == Downloader!None
NoFiles == Downloader!NoFiles
There(folder) == Downloader!There(folder)
OfOne(folder) == \A f, g \in There(folder) : folder[f] = folder[g]

FolderOK ==
    /\ apk \in [Files -> Nat] /\ aside \in [Files -> Nat] /\ held0 \in [Files -> Nat]
    /\ moved \subseteq Files /\ result \subseteq Files /\ gen \in Nat \ {0}
    /\ phase \in Downloader!Phases \cup {"idle", "done", "failed"}

(* An old file is where it was or aside; the folder holds the new ones.    *)
OldIn(f) == (apk[f] = held0[f] /\ aside[f] = None) \/ (apk[f] = None /\ aside[f] = held0[f])
NewIn == \A f \in Files : apk[f] = IF f \in moved THEN gen ELSE None

Exchange ==
    /\ OfOne(held0)
    /\ phase \in {"idle", "done", "failed", "fetch", "validate"} => aside = NoFiles
    /\ phase \notin {"place", "undo", "result", "clean"} => moved = {}
    /\ phase \in {"fetch", "validate"} => apk = held0
    /\ phase \in {"fetch", "validate", "aside", "place", "result"} => result = {} /\ hit = {}
    /\ phase \in {"aside", "restore"} => \A f \in Files : OldIn(f)
    /\ phase \in {"place", "undo"} => aside = held0
    /\ phase \in {"place", "undo", "result", "clean"} => NewIn
    /\ phase \in {"clean"} => result \subseteq moved /\ ("result" \notin hit => result = moved)
    /\ phase = "done" => /\ \A f \in Files : apk[f] \in {None, gen}
                         /\ "result" \notin hit => result = There(apk)
    /\ phase \in {"drop", "failed"} /\ hit \subseteq {"place"} => apk = held0
    /\ phase \in {"idle", "drop", "failed", "done"} => OfOne(apk)

Menu ==
    /\ phase # "idle" => pc = "idle"
    /\ handed # {} => phase = "idle" /\ pc \notin {"idle", "off"}

StoreInv == FolderOK /\ Exchange /\ Menu /\ InstallsTheDownload

(* A folder whose files are none, or as in one that holds one download, or *)
(* all of the same, holds one download.                                    *)
LEMMA PartIsOfOne ==
  ASSUME NEW folder, NEW whole, OfOne(whole), \A f \in Files : folder[f] \in {None, whole[f]}
  PROVE  OfOne(folder)
  BY DEF OfOne, There, Downloader!There, None

LEMMA AlikeIsOfOne ==
  ASSUME NEW folder, NEW n, \A f \in Files : folder[f] \in {None, n}
  PROVE  OfOne(folder)
  BY DEF OfOne, There, Downloader!There, None

LEMMA NoFilesIsOfOne == NoFiles \in [Files -> Nat] /\ OfOne(NoFiles) /\ \A f \in Files : NoFiles[f] = None
  BY DEF OfOne, There, NoFiles, None, Downloader!There, Downloader!NoFiles, Downloader!None

LEMMA FolderStep ==
  ASSUME FolderOK, Downloader!Step
  PROVE  FolderOK'
<1> USE DEF FolderOK, Downloader!Phases, Downloader!Goes, Downloader!FailsTo, Downloader!card
<1>1. None \in Nat /\ NoFiles \in [Files -> Nat]
  BY NoFilesIsOfOne DEF None, Downloader!None
<1>2. CASE Downloader!NotFetched \/ Downloader!Validate \/ Downloader!AllAside \/ Downloader!SetAsideFails
  BY <1>2 DEF Downloader!NotFetched, Downloader!Validate, Downloader!AllAside, Downloader!SetAsideFails
<1>3. CASE Downloader!AllPlaced \/ Downloader!PlaceFails \/ Downloader!AllTakenBack \/ Downloader!Restored
  BY <1>3 DEF Downloader!AllPlaced, Downloader!PlaceFails, Downloader!AllTakenBack, Downloader!Restored
<1>4. CASE Downloader!WriteResult
  BY <1>4 DEF Downloader!WriteResult
<1>5. CASE Downloader!Clean \/ Downloader!Drop
  BY <1>1, <1>5 DEF Downloader!Clean, Downloader!Drop, NoFiles
<1>6. CASE \E set \in SUBSET Files : Downloader!Fetch(set)
  BY <1>6 DEF Downloader!Fetch
<1>7. ASSUME NEW f \in Files, Downloader!SetAside(f) \/ Downloader!Place(f) PROVE FolderOK'
  BY <1>1, <1>7 DEF Downloader!SetAside, Downloader!Place, None
<1>8. ASSUME NEW f \in Files, Downloader!TakeBack(f) \/ Downloader!Restore(f) PROVE FolderOK'
  BY <1>1, <1>8 DEF Downloader!TakeBack, Downloader!Restore, None
<1> QED
  BY <1>2, <1>3, <1>4, <1>5, <1>6, <1>7, <1>8 DEF Downloader!Step

LEMMA ExchangeStep ==
  ASSUME FolderOK, Exchange, Downloader!Step
  PROVE  Exchange'
<1> USE DEF FolderOK, Exchange, NewIn, OldIn, Downloader!Goes, Downloader!FailsTo, Downloader!card
<1> USE NoFilesIsOfOne
<1>1. CASE Downloader!NotFetched
  BY <1>1 DEF Downloader!NotFetched, OfOne, There
<1>2. CASE Downloader!Validate
  BY <1>2 DEF Downloader!Validate, OfOne, There
<1>3. CASE Downloader!AllAside
  <2>1. \A f \in Files : apk[f] = None
    BY <1>3 DEF Downloader!AllAside, Downloader!There, None
  <2>2. aside = held0
    BY <1>3, <2>1 DEF Downloader!AllAside
  <2> QED
    BY <1>3, <2>1, <2>2 DEF Downloader!AllAside, OfOne, There
<1>4. CASE Downloader!SetAsideFails
  <2>1. OfOne(apk)
    BY <1>4, PartIsOfOne DEF Downloader!SetAsideFails
  <2> QED
    BY <1>4, <2>1 DEF Downloader!SetAsideFails, OfOne, There
<1>5. CASE Downloader!AllPlaced \/ Downloader!PlaceFails
  BY <1>5 DEF Downloader!AllPlaced, Downloader!PlaceFails, OfOne, There
<1>6. CASE Downloader!AllTakenBack
  BY <1>6 DEF Downloader!AllTakenBack, OfOne, There
<1>7. CASE Downloader!Restored
  <2>1. OfOne(apk)
    BY <1>7, PartIsOfOne DEF Downloader!Restored
  <2>2. ASSUME There(aside) = {} PROVE apk = held0
    <3>1. \A f \in Files : aside[f] = None
      BY <2>2 DEF There, Downloader!There, None
    <3> QED
      BY <1>7, <3>1 DEF Downloader!Restored
  <2> QED
    BY <1>7, <2>1, <2>2 DEF Downloader!Restored, OfOne, There
<1>8. CASE Downloader!WriteResult
  BY <1>8 DEF Downloader!WriteResult, OfOne, There
<1>9. CASE Downloader!Clean
  <2>1. OfOne(apk) /\ \A f \in Files : apk[f] \in {None, gen}
    BY <1>9, AlikeIsOfOne DEF Downloader!Clean
  <2>2. "result" \notin hit => result = There(apk)
    BY <1>9 DEF Downloader!Clean, There, Downloader!There, None, Downloader!None
  <2> QED
    BY <1>9, <2>1, <2>2 DEF Downloader!Clean, OfOne, There, NoFiles
<1>10. CASE Downloader!Drop
  BY <1>10 DEF Downloader!Drop, OfOne, There, NoFiles
<1>11. CASE \E set \in SUBSET Files : Downloader!Fetch(set)
  BY <1>11 DEF Downloader!Fetch, OfOne, There
<1>12. ASSUME NEW f \in Files, Downloader!SetAside(f) PROVE Exchange'
  BY <1>12 DEF Downloader!SetAside, OfOne, There, None
<1>13. ASSUME NEW f \in Files, Downloader!Place(f) PROVE Exchange'
  BY <1>13 DEF Downloader!Place, OfOne, There
<1>14. ASSUME NEW f \in Files, Downloader!TakeBack(f) PROVE Exchange'
  BY <1>14 DEF Downloader!TakeBack, OfOne, There, None
<1>15. ASSUME NEW f \in Files, Downloader!Restore(f) PROVE Exchange'
  BY <1>15 DEF Downloader!Restore, OfOne, There, None
<1> QED
  BY <1>1, <1>2, <1>3, <1>4, <1>5, <1>6, <1>7, <1>8, <1>9, <1>10, <1>11, <1>12, <1>13, <1>14, <1>15
     DEF Downloader!Step

LEMMA StepKeepsGen == Downloader!Step => UNCHANGED gen /\ phase # "idle"
  BY DEF Downloader!Step, Downloader!NotFetched, Downloader!Validate, Downloader!AllAside, Downloader!SetAsideFails,
     Downloader!AllPlaced, Downloader!PlaceFails, Downloader!AllTakenBack, Downloader!Restored,
     Downloader!WriteResult, Downloader!Clean, Downloader!Drop, Downloader!Fetch, Downloader!SetAside,
     Downloader!Place, Downloader!TakeBack, Downloader!Restore

(* The installer works on nothing while the menu waits or is not there.    *)
LEMMA InstallIsBusy == Install => pc \notin {"idle", "off"} /\ pc' # "off"
  BY DEF Install, RollbackStage, Unlink, MakeStage, WriteJournal, Reject, AlreadyInstalled, Choose, Extract,
     RemoveStage, Finish, StepFails, Except, Erased, EraseFails, RollbackNothing, RollbackTarget, Refuse,
     Commit, Erase, Bodies, Over

LEMMA StoreInvStep == StoreInv /\ [StoreNext]_storeVars => StoreInv'
<1> SUFFICES ASSUME StoreInv, [StoreNext]_storeVars PROVE StoreInv'
  OBVIOUS
<1> USE DEF StoreInv
<1>1. ASSUME UNCHANGED downloader PROVE FolderOK' /\ Exchange'
  BY <1>1 DEF downloader, FolderOK, Exchange, OldIn, NewIn, OfOne, There
<1>2. CASE Launcher
  <2>1. Menu'
    BY <1>2 DEF Launcher, Menu, Boot, Quit, Delete, downloader
  <2> QED
    BY <1>1, <1>2, <2>1 DEF Launcher, InstallsTheDownload, downloader
<1>3. CASE MenuInstall
  <2>1. handed = {}
    BY <1>3 DEF MenuInstall, InMenu, Menu
  <2> QED
    BY <1>1, <1>3, <2>1 DEF MenuInstall, InMenu, Menu, InstallsTheDownload, downloader
<1>4. CASE MenuDownload
  <2>1. handed' = {} /\ pc' = "idle"
    BY <1>4 DEF MenuDownload, InMenu, Menu, installer
  <2>2. FolderOK'
    BY <1>4 DEF MenuDownload, Downloader!Download, Downloader!card, FolderOK, Downloader!Phases
  <2>3. Exchange'
    BY <1>4, <2>2 DEF MenuDownload, Downloader!Download, Downloader!card, InMenu, Exchange, OfOne, There
  <2> QED
    BY <2>1, <2>2, <2>3 DEF Menu, InstallsTheDownload
<1>5. CASE DownloadStep
  <2>1. handed' = {} /\ pc' = "idle"
    BY <1>5, StepKeepsGen DEF DownloadStep, Menu, installer
  <2> QED
    BY <1>5, <2>1, FolderStep, ExchangeStep DEF DownloadStep, Menu, InstallsTheDownload
<1>6. CASE DownloadFailed
  <2>1. handed' = {} /\ pc' = "idle"
    BY <1>6 DEF DownloadFailed, Menu, installer
  <2>2. FolderOK' /\ Exchange'
    BY <1>6, NoFilesIsOfOne DEF DownloadFailed, FolderOK, Exchange, NoFiles, OfOne, There
  <2> QED
    BY <2>1, <2>2 DEF Menu, InstallsTheDownload
<1>7. CASE DownloadDone
  <2>1. OfOne(apk) /\ \A f \in Files : apk[f] \in {None, gen}
    BY <1>7 DEF DownloadDone, Exchange
  <2>2. FolderOK'
    BY <1>7, NoFilesIsOfOne DEF DownloadDone, FolderOK, NoFiles
  <2>3. Exchange'
    BY <1>7, <2>1, NoFilesIsOfOne DEF DownloadDone, Exchange, NoFiles, OfOne, There
  <2>4. Menu'
    BY <1>7 DEF DownloadDone, Menu, Start
  <2>5. \A f \in Named : apk[f] = gen
    BY <1>7, <2>1 DEF Named, None, FolderOK
  <2>6. "result" \notin hit => Named = There(apk)
    BY <1>7 DEF DownloadDone, Named, Exchange, There, Downloader!There
  <2> QED
    BY <1>7, <2>2, <2>3, <2>4, <2>5, <2>6 DEF DownloadDone, InstallsTheDownload, There
<1>8. CASE InstallStep
  <2>1. Menu'
    BY <1>8, InstallIsBusy DEF InstallStep, Menu, downloader
  <2>2. handed' \in {{}, handed} /\ UNCHANGED downloader
    BY <1>8 DEF InstallStep
  <2> QED
    BY <1>1, <2>1, <2>2 DEF InstallsTheDownload, downloader
<1>9. CASE PowerCut
  <2>1. handed' = {} /\ phase' = "idle"
    BY <1>9 DEF PowerCut, Downloader!Stop
  <2>2. FolderOK'
    BY <1>9, NoFilesIsOfOne DEF PowerCut, Downloader!Stop, FolderOK, NoFiles
  <2>3. OfOne(apk)
    <3>1. CASE phase \in {"idle", "drop", "failed", "done"}
      BY <3>1 DEF Exchange
    <3>2. CASE phase \in {"fetch", "validate"}
      BY <3>2 DEF Exchange
    <3>3. CASE phase \in {"aside", "restore"}
      <4>1. OfOne(held0) /\ \A f \in Files : apk[f] \in {None, held0[f]}
        BY <3>3 DEF Exchange, OldIn
      <4> QED
        BY <4>1, PartIsOfOne
    <3>4. CASE phase \in {"place", "undo", "result", "clean"}
      <4>1. \A f \in Files : apk[f] \in {None, gen}
        BY <3>4 DEF Exchange, NewIn
      <4> QED
        BY <4>1, AlikeIsOfOne
    <3> QED
      BY <3>1, <3>2, <3>3, <3>4 DEF FolderOK, Downloader!Phases
  <2>4. Exchange'
    BY <1>9, <2>3, NoFilesIsOfOne DEF PowerCut, Downloader!Stop, Exchange, NoFiles, OfOne, There
  <2> QED
    BY <2>1, <2>2, <2>4 DEF Menu, InstallsTheDownload
<1>10. ASSUME NEW f \in Files, DeleteApk(f) PROVE StoreInv'
  <2>1. handed' = {} /\ phase = "idle" /\ phase' = "idle" /\ pc' = "idle"
    BY <1>10 DEF DeleteApk, InMenu, Menu, installer
  <2>2. FolderOK'
    BY <1>10 DEF DeleteApk, FolderOK, Downloader!None
  <2>3. OfOne(apk')
    <3>1. OfOne(apk) /\ \A g \in Files : apk'[g] \in {None, apk[g]}
      BY <1>10, <2>1 DEF DeleteApk, FolderOK, Exchange, None
    <3> QED
      BY <3>1, PartIsOfOne
  <2>4. Exchange'
    BY <1>10, <2>1, <2>3 DEF DeleteApk, Exchange, OfOne, There
  <2> QED
    BY <2>1, <2>2, <2>4 DEF Menu, InstallsTheDownload
<1>11. CASE UNCHANGED storeVars
  BY <1>1, <1>11 DEF storeVars, installer, downloader, Menu, InstallsTheDownload
<1> QED
  BY <1>2, <1>3, <1>4, <1>5, <1>6, <1>7, <1>8, <1>9, <1>10, <1>11 DEF StoreNext

LEMMA StoreInvariance == StoreSpec => []StoreInv
<1>1. StoreInit => StoreInv
  <2> SUFFICES ASSUME StoreInit PROVE StoreInv
    OBVIOUS
  <2>1. apk \in [Files -> {0, 1}] /\ aside = NoFiles /\ held0 = NoFiles /\ gen = 1 /\ phase = "idle"
    BY DEF StoreInit, Downloader!Init, NoFiles, Downloader!None
  <2>2. OfOne(apk)
    BY <2>1, AlikeIsOfOne DEF None, Downloader!None
  <2>3. FolderOK /\ Exchange
    BY <2>1, <2>2, NoFilesIsOfOne DEF StoreInit, Downloader!Init, FolderOK, Exchange
  <2> QED
    BY <2>3 DEF StoreInit, StoreInv, Menu, InstallsTheDownload, Init, Downloader!Init
<1> QED
  BY <1>1, StoreInvStep, PTL DEF StoreSpec

(* splits from different Play downloads are never mixed: all files of the  *)
(* version are of one download at every step of an exchange, of its        *)
(* undoing and after a power cut, for any number of files and downloads.   *)
THEOREM DownloadsAreNotMixed == StoreSpec => []NeverMixed
<1>1. StoreInv => NeverMixed
  <2> SUFFICES ASSUME StoreInv PROVE OfOne(apk)
    BY DEF NeverMixed, OfOne, There
  <2>1. CASE phase \in {"idle", "drop", "failed", "done"}
    BY <2>1 DEF StoreInv, Exchange
  <2>2. CASE phase \in {"fetch", "validate"}
    BY <2>2 DEF StoreInv, Exchange
  <2>3. CASE phase \in {"aside", "restore"}
    BY <2>3, PartIsOfOne DEF StoreInv, Exchange, OldIn
  <2>4. CASE phase \in {"place", "undo", "result", "clean"}
    BY <2>4, AlikeIsOfOne DEF StoreInv, Exchange, NewIn
  <2> QED
    BY <2>1, <2>2, <2>3, <2>4 DEF StoreInv, FolderOK, Downloader!Phases
<1> QED
  BY <1>1, StoreInvariance, PTL

(* The launcher installs what it has just downloaded, and all of it unless *)
(* the result file could not be written.                                   *)
THEOREM TheDownloadIsInstalled == StoreSpec => []InstallsTheDownload
<1>1. StoreInv => InstallsTheDownload
  BY DEF StoreInv
<1> QED
  BY <1>1, StoreInvariance, PTL

(* A download that is not valid, or of which a file could not be moved     *)
(* into the folder, gives the folder back as it was.                       *)
THEOREM FailedDownloadIsTakenBack == StoreSpec => []FailedDownloadRestores
<1>1. StoreInv => FailedDownloadRestores
  BY DEF StoreInv, Exchange, FailedDownloadRestores
<1> QED
  BY <1>1, StoreInvariance, PTL
=============================================================================
