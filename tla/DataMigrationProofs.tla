------------------------ MODULE DataMigrationProofs ------------------------
(***************************************************************************)
(* DataMigration keeps SharedData's promise and loses no file, for any     *)
(* number of items, any files, any faults, one filesystem or two, with and *)
(* without symbolic links, and cut anywhere any number of times.  On one   *)
(* filesystem with links, whose renames back do not fail, the undo of a    *)
(* transaction that failed or was cut puts every item back where it was.   *)
(***************************************************************************)
EXTENDS DataMigration, SequenceTheorems, TLAPS

KindType == [Items -> [Places -> Kinds]]
FilesType == [Items -> [Places -> SUBSET Files]]

(* What a line or an undo list may hold once its last entry is taken off.  *)
LEMMA SeqFacts ==
    ASSUME NEW S, NEW s \in Seq(S), s # <<>>
    PROVE  Last(s) \in S /\ Front(s) \in Seq(S)
BY DEF Last, Front

(* SetKind changes one path.                                               *)
LEMMA SetKindFacts ==
    ASSUME kind \in KindType, NEW i \in Items, NEW p \in Places, NEW k \in Kinds, SetKind(i, p, k)
    PROVE  /\ kind' \in KindType
           /\ kind'[i][p] = k
           /\ \A j \in Items, q \in Places : (j # i \/ q # p) => kind'[j][q] = kind[j][q]
BY DEF SetKind, KindType

(* A file added to or taken from one directory; the other directory stays. *)
LEMMA FilesFacts ==
    ASSUME files \in FilesType, NEW i \in Items, NEW p \in Places, NEW F \in SUBSET Files,
           files' = [files EXCEPT ![i][p] = F]
    PROVE  /\ files' \in FilesType
           /\ files'[i][p] = F
           /\ \A j \in Items, q \in Places : (j # i \/ q # p) => files'[j][q] = files[j][q]
BY DEF FilesType

(* A rename moves the whole directory, and leaves the other items alone.   *)
LEMMA RenameFacts ==
    ASSUME kind \in KindType, files \in FilesType, NEW i \in Items,
           NEW from \in Places, NEW to \in Places, from # to, Rename(i, from, to)
    PROVE  /\ kind' \in KindType /\ files' \in FilesType
           /\ kind'[i][to] = "dir" /\ kind'[i][from] = "absent"
           /\ files'[i][to] = files[i][from] /\ files'[i][from] = {}
           /\ \A j \in Items \ {i} : kind'[j] = kind[j] /\ files'[j] = files[j]
<1>1. kind' \in KindType
  BY DEF Rename, KindType, Kinds
<1>2. files' \in FilesType
  BY DEF Rename, FilesType
<1>3. kind'[i][to] = "dir" /\ kind'[i][from] = "absent"
  BY DEF Rename, KindType
<1>4. files'[i][to] = files[i][from] /\ files'[i][from] = {}
  BY DEF Rename, FilesType
<1>5. \A j \in Items \ {i} : kind'[j] = kind[j] /\ files'[j] = files[j]
  BY DEF Rename, KindType, FilesType
<1> QED  BY <1>1, <1>2, <1>3, <1>4, <1>5

----------------------------------------------------------------------------
(* Type correctness. *)

(* Every step of a copying mv changes one directory of one item.           *)
LEMMA CopyStepType ==
    ASSUME TypeOK, NEW i \in Items, NEW from \in Places, NEW to \in Places,
           CopyStep(i, from, to)
    PROVE  kind' \in KindType /\ files' \in FilesType /\ mv' \in {"idle", "copy", "delete"}
<1> kind \in KindType /\ files \in FilesType
  BY DEF TypeOK, KindType, FilesType
<1>1. CASE StartCopy(i, to)
  BY <1>1, SetKindFacts DEF StartCopy, Kinds
<1>2. CASE CopyFile(i, from, to)
  <2> PICK f \in files[i][from] \ files[i][to] : files' = [files EXCEPT ![i][to] = @ \cup {f}]
    BY <1>2 DEF CopyFile
  <2> files[i][to] \cup {f} \in SUBSET Files /\ files' = [files EXCEPT ![i][to] = files[i][to] \cup {f}]
    BY DEF FilesType
  <2> QED  BY <1>2, FilesFacts DEF CopyFile, TypeOK
<1>3. CASE CopyDone(i, from, to)
  BY <1>3 DEF CopyDone
<1>4. CASE DeleteFile(i, from)
  <2> PICK f \in files[i][from] : files' = [files EXCEPT ![i][from] = @ \ {f}]
    BY <1>4 DEF DeleteFile
  <2> files[i][from] \ {f} \in SUBSET Files /\ files' = [files EXCEPT ![i][from] = files[i][from] \ {f}]
    BY DEF FilesType
  <2> files' \in FilesType
    BY FilesFacts
  <2> QED  BY <1>4 DEF DeleteFile, TypeOK
<1> QED  BY <1>1, <1>2, <1>3, <1>4 DEF CopyStep

LEMMA MoveDoneType ==
    ASSUME TypeOK, NEW i \in Items, NEW from \in Places, NEW to \in Places, from # to,
           MoveDone(i, from, to)
    PROVE  kind' \in KindType /\ files' \in FilesType /\ mv' \in {"idle", "copy", "delete"}
<1> kind \in KindType /\ files \in FilesType
  BY DEF TypeOK, KindType, FilesType
<1>1. CASE ~CrossDevice /\ Rename(i, from, to) /\ UNCHANGED mv
  BY <1>1, RenameFacts DEF TypeOK
<1>2. CASE CrossDevice /\ DeleteDone(i, from)
  BY <1>2, SetKindFacts DEF DeleteDone, Kinds
<1> QED  BY <1>1, <1>2 DEF MoveDone

(* What a reboot leaves of the old paths: the mount points are empty       *)
(* directories, everything else is as it was.                              *)
LEMMA DropMountsFacts ==
    ASSUME kind \in KindType,
           kind' = [i \in Items |-> [kind[i] EXCEPT !["source"] = IF @ = "bind" THEN "dir" ELSE @]]
    PROVE  /\ kind' \in KindType
           /\ \A i \in Items :
                /\ kind'[i]["shared"] = kind[i]["shared"]
                /\ kind'[i]["source"] = (IF kind[i]["source"] = "bind" THEN "dir" ELSE kind[i]["source"])
BY DEF KindType, Kinds, Places

(* The parts of TypeOK that the handling of one item may change.           *)
LEMMA TypeParts ==
    ASSUME kind' \in KindType, files' \in FilesType, manifest' \in Manifests,
           journal' \in Seq(Line), pc' \in Phases, at' \in 1 .. ItemCount + 1,
           fresh' \in BOOLEAN, actions' \in Seq(Line), undo' \in Seq(Line),
           mv' \in {"idle", "copy", "delete"}, had' \in [Items -> SUBSET Files],
           began' \in FilesType, added' \in SUBSET Items, cutShort' \in BOOLEAN
    PROVE  TypeOK'
BY DEF TypeOK, KindType, FilesType

LEMMA TypeInit == Init => TypeOK
<1> SUFFICES ASSUME Init PROVE TypeOK
  OBVIOUS
<1> kind \in KindType /\ files \in FilesType /\ began \in FilesType
  BY DEF Init, KindType, FilesType, Places, Kinds
<1> had \in [Items -> SUBSET Files]
  BY DEF Init, FilesType, Places
<1> at \in 1 .. ItemCount + 1
  BY ItemCountAssumption DEF Init
<1> journal \in Seq(Line) /\ actions \in Seq(Line) /\ undo \in Seq(Line)
  BY DEF Init
<1> manifest \in Manifests /\ pc \in Phases
  BY DEF Init, Manifests, Phases
<1> fresh \in BOOLEAN /\ mv \in {"idle", "copy", "delete"} /\ added \in SUBSET Items /\ cutShort \in BOOLEAN
  BY DEF Init
<1> QED  BY DEF TypeOK, KindType, FilesType

(* While an item is handled, `at' is one; after the last it is past them.  *)
AtItem ==
    /\ pc \in {"item", "move", "attach", "mountpoint", "mount"} => at \in Items
    /\ pc = "commit" => at = ItemCount + 1
    /\ pc \in {"recover", "preflight"} => at = 1

LEMMA AtStep == TypeOK /\ AtItem /\ [Next]_vars => AtItem'
<1> SUFFICES ASSUME TypeOK, AtItem, [Next]_vars PROVE AtItem'
  OBVIOUS
<1> USE ItemCountAssumption
<1>1. CASE UNCHANGED vars
  BY <1>1 DEF AtItem, vars, process
<1>2. CASE Begin
  BY <1>2 DEF Begin, AtItem
<1>3. CASE Recovery
  BY <1>3 DEF Recovery, UndoCopyStep, UndoLast, Undone, Undoing, MarkRecovered, SetRecoveredAside, RollbackDone,
              Leave, AtItem, process
<1>4. CASE Refuse \/ GameEnds \/ Crash
  BY <1>4 DEF Refuse, GameEnds, Crash, Leave, AtItem
<1>5. CASE OpenTransaction
  BY <1>5 DEF OpenTransaction, AtItem, TypeOK, Items
<1>6. ASSUME at \in Items, at' = at + 1, pc' = NextItem PROVE AtItem'
  BY <1>6 DEF AtItem, NextItem, Items
<1>7. CASE ItemInPlace
  BY <1>6, <1>7 DEF ItemInPlace, AtItem
<1>8. CASE AttachLink \/ Mount
  BY <1>6, <1>8 DEF AttachLink, Mount, Attached, AtItem
<1>9. CASE ItemRefused \/ MoveFails \/ AttachFails
  BY <1>9 DEF ItemRefused, MoveFails, AttachFails, Rollback, AtItem
<1>10. CASE AnnounceMove \/ MoveCopyStep \/ Move \/ MakeShared \/ MakeMountpoint \/ AnnounceMount \/ Commit
  BY <1>10 DEF AnnounceMove, MoveCopyStep, Move, MakeShared, MakeMountpoint, AnnounceMount, Commit, AtItem
<1>11. CASE GameWrites \/ PlayerAdds \/ PlayerClears \/ Reboot
  BY <1>11 DEF GameWrites, PlayerAdds, PlayerClears, Reboot, process, AtItem
<1> QED  BY <1>1, <1>2, <1>3, <1>4, <1>5, <1>7, <1>8, <1>9, <1>10, <1>11 DEF Next, Forward, Around

LEMMA TypeStep == TypeOK /\ AtItem /\ [Next]_vars => TypeOK'
<1> SUFFICES ASSUME TypeOK, AtItem, [Next]_vars PROVE TypeOK'
  OBVIOUS
<1> USE ItemCountAssumption
<1>0. kind \in KindType /\ files \in FilesType /\ began \in FilesType
  BY DEF TypeOK, KindType, FilesType
<1> USE <1>0
<1> "source" \in Places /\ "shared" \in Places
  BY DEF Places
<1> 1 \in 1 .. ItemCount + 1 /\ <<>> \in Seq(Line)
  OBVIOUS
<1>a. ASSUME Leave PROVE /\ pc' \in Phases /\ at' \in 1 .. ItemCount + 1 /\ fresh' \in BOOLEAN
                         /\ actions' \in Seq(Line) /\ undo' \in Seq(Line) /\ mv' \in {"idle", "copy", "delete"}
  BY <1>a DEF Leave, Phases
<1>1. CASE Begin
  <2> at' \in 1 .. ItemCount + 1 /\ fresh' \in BOOLEAN /\ actions' \in Seq(Line)
    BY <1>1 DEF Begin
  <2> pc' \in Phases /\ undo' \in Seq(Line) /\ mv' \in {"idle", "copy", "delete"}
    BY <1>1 DEF Begin, Phases, TypeOK
  <2> QED  BY <1>1, TypeParts DEF Begin, disk, TypeOK
<1>2. CASE \E i \in Items : UndoCopyStep(i)
  BY <1>2, CopyStepType, TypeParts DEF UndoCopyStep, history, TypeOK
<1>3. CASE UndoLast
  <2>1. undo' \in Seq(Line)
    BY <1>3, SeqFacts DEF UndoLast, Undone, Undoing, TypeOK
  <2>2. kind' \in KindType /\ files' \in FilesType /\ mv' \in {"idle", "copy", "delete"}
    <3> PICK i \in Items :
          \/ Undone("bind", i) /\ Detach(i) /\ UNCHANGED <<files, mv>>
          \/ /\ Undone("link", i)
             /\ IF kind[i]["source"] \in {"link", "alien"}
                THEN SetKind(i, "source", "absent") ELSE UNCHANGED kind
             /\ UNCHANGED <<files, mv>>
          \/ Undone("move", i) /\ UndoMove(i)
          \/ /\ Undone("mkdir", i)
             /\ IF EmptyDir(i, "shared")
                THEN SetKind(i, "shared", "absent") ELSE UNCHANGED kind
             /\ UNCHANGED <<files, mv>>
      BY <1>3 DEF UndoLast
    <3>1. CASE UndoMove(i)
      BY <3>1, MoveDoneType DEF UndoMove, TypeOK
    <3>2. CASE UNCHANGED kind /\ UNCHANGED <<files, mv>>
      BY <3>2 DEF TypeOK
    <3>3. ASSUME NEW q \in Places, SetKind(i, q, "absent"), UNCHANGED <<files, mv>>
          PROVE  kind' \in KindType /\ files' \in FilesType /\ mv' \in {"idle", "copy", "delete"}
      BY <3>3, SetKindFacts DEF TypeOK, Kinds
    <3> QED  BY <3>1, <3>2, <3>3 DEF Detach
  <2> QED  BY <1>3, <2>1, <2>2, TypeParts DEF UndoLast, history, TypeOK
<1>4. CASE MarkRecovered
  BY <1>4, TypeParts DEF MarkRecovered, process, history, TypeOK, Manifests
<1>5. CASE SetRecoveredAside
  BY <1>5, TypeParts DEF SetRecoveredAside, history, TypeOK, Manifests, Phases
<1>6. CASE RollbackDone
  BY <1>6, <1>a, TypeParts DEF RollbackDone, history, TypeOK, Manifests
<1>7. CASE Refuse
  BY <1>7, <1>a, TypeParts DEF Refuse, disk, history, TypeOK
<1>8. CASE OpenTransaction
  BY <1>8, TypeParts DEF OpenTransaction, TypeOK, Manifests, Phases
<1>b. ASSUME NEW act \in {"move", "mkdir", "link", "bind"}, at \in Items
      PROVE  /\ NewLine(act) \in Line
             /\ Append(actions, NewLine(act)) \in Seq(Line)
             /\ Journal(<<NewLine(act)>>) => journal' \in Seq(Line)
  <2>1. NewLine(act) \in Line
    BY <1>b DEF NewLine, Line
  <2>2. <<NewLine(act)>> \in Seq(Line)
    BY <2>1
  <2>3. Append(actions, NewLine(act)) \in Seq(Line)
    BY <2>1 DEF TypeOK
  <2>4. Journal(<<NewLine(act)>>) => journal' \in Seq(Line)
    <3> DEFINE line == <<NewLine(act)>>
    <3> line \in Seq(Line)
      BY <2>2
    <3> HIDE DEF line
    <3> SUFFICES Journal(line) => journal' \in Seq(Line)
      BY DEF line
    <3> QED  BY DEF Journal, TypeOK
  <2> QED  BY <2>1, <2>3, <2>4
<1>c. ASSUME Rollback PROVE pc' \in Phases /\ undo' \in Seq(Line)
  BY <1>c DEF Rollback, Phases, TypeOK
<1>d. ASSUME at \in Items PROVE NextItem \in Phases /\ at + 1 \in 1 .. ItemCount + 1
  BY <1>d DEF NextItem, Phases, Items
<1>9. CASE ItemInPlace
  <2>1. at \in Items
    BY <1>9 DEF ItemInPlace, AtItem
  <2>2. kind' \in KindType
    BY <1>9, <2>1, SetKindFacts DEF ItemInPlace, Kinds
  <2> QED  BY <1>9, <1>d, <2>1, <2>2, TypeParts DEF ItemInPlace, history, TypeOK
<1>10. CASE ItemRefused
  BY <1>10, <1>c, TypeParts DEF ItemRefused, history, TypeOK, Manifests
<1>11. CASE AnnounceMove
  <2>1. at \in Items
    BY <1>11 DEF AnnounceMove, AtItem
  <2>2. kind' \in KindType
    BY <1>11, <2>1, SetKindFacts DEF AnnounceMove, Kinds
  <2> QED  BY <1>11, <1>b, <2>1, <2>2, TypeParts DEF AnnounceMove, history, TypeOK, Phases
<1>12. CASE MoveCopyStep
  <2>1. at \in Items
    BY <1>12 DEF MoveCopyStep, AtItem
  <2> QED  BY <1>12, <2>1, CopyStepType, TypeParts DEF MoveCopyStep, history, TypeOK
<1>13. CASE Move
  <2>1. at \in Items
    BY <1>13 DEF Move, AtItem
  <2>2. kind' \in KindType /\ files' \in FilesType /\ mv' \in {"idle", "copy", "delete"}
    BY <1>13, <2>1, MoveDoneType DEF Move
  <2> QED  BY <1>13, <1>b, <2>1, <2>2, TypeParts DEF Move, history, TypeOK, Phases
<1>14. CASE MoveFails
  BY <1>14, <1>c, TypeParts DEF MoveFails, history, TypeOK
<1>15. CASE MakeShared
  <2>1. at \in Items
    BY <1>15 DEF MakeShared, AtItem
  <2>2. kind' \in KindType
    BY <1>15, <2>1 DEF MakeShared, KindType, Kinds, Places
  <2> DEFINE made == IF kind[at]["shared"] = "dir" THEN <<>> ELSE <<NewLine("mkdir")>>
  <2>3. made \in Seq(Line)
    BY <1>b, <2>1
  <2>4. Journal(made) /\ actions' = actions \o made
    BY <1>15 DEF MakeShared
  <2>5. journal' \in Seq(Line) /\ actions' \in Seq(Line)
    <3> HIDE DEF made
    <3> QED  BY <2>3, <2>4 DEF Journal, TypeOK
  <2> QED  BY <1>15, <2>2, <2>5, TypeParts DEF MakeShared, history, TypeOK, Phases
<1>e. ASSUME NEW k \in Kinds, NEW act \in {"move", "mkdir", "link", "bind"}, at \in Items,
             Attached(k, act), journal' \in Seq(Line)
      PROVE  TypeOK'
  <2>1. kind' \in KindType
    BY <1>e, SetKindFacts DEF Attached
  <2> QED  BY <1>b, <1>d, <1>e, <2>1, TypeParts DEF Attached, history, TypeOK
<1>16. CASE AttachLink
  BY <1>16, <1>b, <1>e DEF AttachLink, AtItem, Kinds
<1>17. CASE MakeMountpoint
  <2>1. at \in Items
    BY <1>17 DEF MakeMountpoint, AtItem
  <2>2. kind' \in KindType
    BY <1>17, <2>1, SetKindFacts DEF MakeMountpoint, Kinds
  <2> QED  BY <1>17, <1>b, <2>1, <2>2, TypeParts DEF MakeMountpoint, history, TypeOK, Phases
<1>18. CASE AnnounceMount
  BY <1>18, <1>b, TypeParts DEF AnnounceMount, AtItem, history, TypeOK, Phases
<1>19. CASE Mount
  BY <1>19, <1>e DEF Mount, AtItem, Kinds, TypeOK
<1>20. CASE AttachFails
  <2>1. at \in Items
    BY <1>20 DEF AttachFails, AtItem
  <2>2. kind' \in KindType
    BY <1>20, <2>1, SetKindFacts DEF AttachFails, Kinds
  <2> QED  BY <1>20, <1>c, <2>2, TypeParts DEF AttachFails, history, TypeOK
<1>21. CASE Commit
  BY <1>21, TypeParts DEF Commit, history, TypeOK, Phases, Manifests
<1>f. ASSUME NEW i \in Items, NEW p \in Places, NEW f \in Files,
             files' = [files EXCEPT ![i][p] = @ \cup {f}], had' = [had EXCEPT ![i] = @ \cup {f}]
      PROVE  files' \in FilesType /\ had' \in [Items -> SUBSET Files]
  <2>1. files' \in FilesType
    <3> DEFINE F == files[i][p] \cup {f}
    <3> F \in SUBSET Files /\ files' = [files EXCEPT ![i][p] = F]
      BY <1>f DEF FilesType
    <3> QED  BY FilesFacts
  <2> QED  BY <1>f, <2>1 DEF TypeOK
<1>22. CASE GameWrites
  <2>1. files' \in FilesType /\ had' \in [Items -> SUBSET Files]
    BY <1>22, <1>f DEF GameWrites
  <2> QED  BY <1>22, <2>1, TypeParts DEF GameWrites, process, TypeOK
<1>23. CASE GameEnds
  BY <1>23, <1>a, TypeParts DEF GameEnds, history, TypeOK, Manifests
<1>24. CASE Crash
  <2>1. kind' \in KindType
    BY <1>24, DropMountsFacts DEF Crash
  <2> QED  BY <1>24, <1>a, <2>1, TypeParts DEF Crash, TypeOK
<1>25. CASE PlayerAdds
  <2>1. files' \in FilesType /\ had' \in [Items -> SUBSET Files] /\ kind' \in KindType /\ added' \in SUBSET Items
    <3> PICK i \in Items, p \in Places, f \in Files :
          /\ SetKind(i, p, "dir")
          /\ files' = [files EXCEPT ![i][p] = @ \cup {f}]
          /\ had' = [had EXCEPT ![i] = @ \cup {f}]
          /\ added' = added \cup {i}
      BY <1>25 DEF PlayerAdds
    <3>1. files' \in FilesType /\ had' \in [Items -> SUBSET Files]
      BY <1>f
    <3>2. kind' \in KindType
      BY SetKindFacts DEF Kinds
    <3> QED  BY <3>1, <3>2 DEF TypeOK
  <2> QED  BY <1>25, <2>1, TypeParts DEF PlayerAdds, process, TypeOK
<1>26. CASE PlayerClears
  BY <1>26, SetKindFacts, TypeParts DEF PlayerClears, process, history, TypeOK, Kinds
<1>27. CASE Reboot
  BY <1>27, DropMountsFacts, TypeParts DEF Reboot, process, history, TypeOK
<1>28. CASE UNCHANGED vars
  BY <1>28, TypeParts DEF vars, disk, process, history, TypeOK
<1> QED  BY <1>1, <1>2, <1>3, <1>4, <1>5, <1>6, <1>7, <1>8, <1>9, <1>10, <1>11, <1>12, <1>13, <1>14, <1>15,
            <1>16, <1>17, <1>18, <1>19, <1>20, <1>21, <1>22, <1>23, <1>24, <1>25, <1>26, <1>27, <1>28
         DEF Next, Recovery, Forward, Around

(* The paths, the journal and the launcher's own state keep their types.   *)
THEOREM MigrationTypeCorrect == Spec => []TypeOK
<1>1. Init => TypeOK /\ AtItem
  BY TypeInit DEF Init, AtItem
<1>2. TypeOK /\ AtItem /\ [Next]_vars => (TypeOK /\ AtItem)'
  BY TypeStep, AtStep
<1> QED  BY <1>1, <1>2, PTL DEF Spec

----------------------------------------------------------------------------
(* The inductive invariant. *)

(* A path that is no directory holds no file. *)
OnlyDirsHoldFiles ==
    \A i \in Items, p \in Places : kind[i][p] # "dir" => files[i][p] = {}

(* A copying mv has made its target and deletes only what it has copied.   *)
Copying(i, from, to) ==
    /\ kind[i][to] = "dir"
    /\ mv = "delete" => files[i][from] \subseteq files[i][to]

CopyInProgress ==
    /\ ~CrossDevice => mv = "idle"
    /\ mv # "idle" /\ pc = "move" => Copying(at, "source", "shared")
    /\ mv # "idle" /\ pc # "move" =>
          /\ pc \in {"recover", "rollback"} /\ undo # <<>>
          /\ Last(undo).act = "move"
          /\ Copying(Last(undo).item, "shared", "source")

(* A rename finds nothing at its target. *)
TargetIsEmpty == pc = "move" /\ mv = "idle" => files[at]["shared"] = {}

(* Once its files are in the shared directory the old path is empty.       *)
ReadyToAttach ==
    pc \in {"attach", "mountpoint", "mount"} =>
        files[at]["source"] = {} /\ kind[at]["shared"] = "dir"

(* The items already handled lead to the shared directory. *)
InPlace(i) == kind[i]["source"] \in {"link", "bind"} /\ kind[i]["shared"] = "dir"
HandledInPlace ==
    /\ pc \in {"item", "move", "attach", "mountpoint", "mount", "commit"} =>
          \A i \in Items : i < at => InPlace(i)
    /\ pc = "playing" => \A i \in Items : InPlace(i)

IInv ==
    /\ TypeOK /\ AtItem
    /\ OnlyDirsHoldFiles
    /\ CopyInProgress
    /\ TargetIsEmpty
    /\ ReadyToAttach
    /\ HandledInPlace
    /\ NoFileLost

----------------------------------------------------------------------------
(* What a step does to the files of one item. *)

OthersStay(i) == \A j \in Items \ {i} : kind'[j] = kind[j] /\ files'[j] = files[j]
Transferred(i) == files' = [files EXCEPT ![i] = files'[i]] /\ Held(i)' = Held(i)

LEMMA SetKindOthers ==
    ASSUME TypeOK, NEW i \in Items, NEW p \in Places, NEW k \in Kinds, SetKind(i, p, k)
    PROVE  /\ kind' \in KindType /\ kind'[i][p] = k
           /\ \A q \in Places : q # p => kind'[i][q] = kind[i][q]
           /\ \A j \in Items \ {i} : kind'[j] = kind[j]
BY DEF SetKind, TypeOK, KindType

LEMMA FilesOthers ==
    ASSUME TypeOK, NEW i \in Items, NEW p \in Places, NEW F \in SUBSET Files,
           files' = [files EXCEPT ![i][p] = F]
    PROVE  /\ files' \in FilesType /\ files'[i][p] = F
           /\ \A q \in Places : q # p => files'[i][q] = files[i][q]
           /\ \A j \in Items \ {i} : files'[j] = files[j]
           /\ files' = [files EXCEPT ![i] = files'[i]]
BY DEF TypeOK, FilesType

(* A step of a copying mv keeps every file, and its own invariant.         *)
LEMMA CopyStepFacts ==
    ASSUME TypeOK, OnlyDirsHoldFiles, NEW i \in Items, NEW from \in Places, NEW to \in Places,
           from # to, CopyStep(i, from, to), mv # "idle" => Copying(i, from, to)
    PROVE  /\ OnlyDirsHoldFiles' /\ OthersStay(i) /\ Transferred(i)
           /\ mv' # "idle" /\ Copying(i, from, to)'
<1> kind \in KindType /\ files \in FilesType /\ "dir" \in Kinds /\ "absent" \in Kinds
  BY DEF TypeOK, KindType, FilesType, Kinds
<1> Places = {from, to}
  BY DEF Places
<1>1. CASE StartCopy(i, to)
  <2>1. /\ kind' \in KindType /\ kind'[i][to] = "dir"
        /\ \A q \in Places : q # to => kind'[i][q] = kind[i][q]
        /\ \A j \in Items \ {i} : kind'[j] = kind[j]
    BY <1>1, SetKindOthers DEF StartCopy
  <2>2. files' = files /\ mv' = "copy"
    BY <1>1 DEF StartCopy
  <2> QED  BY <2>1, <2>2 DEF OnlyDirsHoldFiles, OthersStay, Transferred, Held, Copying, FilesType
<1>2. CASE CopyFile(i, from, to)
  <2>1. kind' = kind /\ mv' = mv /\ mv = "copy"
    BY <1>2 DEF CopyFile
  <2> PICK f \in files[i][from] \ files[i][to] : files' = [files EXCEPT ![i][to] = @ \cup {f}]
    BY <1>2 DEF CopyFile
  <2> DEFINE F == files[i][to] \cup {f}
  <2>2. F \in SUBSET Files /\ files' = [files EXCEPT ![i][to] = F]
    BY DEF FilesType
  <2>3. /\ files'[i][to] = F
        /\ \A q \in Places : q # to => files'[i][q] = files[i][q]
        /\ \A j \in Items \ {i} : files'[j] = files[j]
        /\ files' = [files EXCEPT ![i] = files'[i]]
    <3> HIDE DEF F
    <3> QED  BY <2>2, FilesOthers
  <2>4. Held(i)' = Held(i)
    BY <2>3 DEF Held, Places
  <2>5. kind[i][to] = "dir"
    BY <2>1 DEF Copying
  <2> QED  BY <2>1, <2>3, <2>4, <2>5 DEF OnlyDirsHoldFiles, OthersStay, Transferred, Copying
<1>3. CASE CopyDone(i, from, to)
  <2>1. kind' = kind /\ files' = files /\ mv' = "delete" /\ mv = "copy" /\ files[i][from] \subseteq files[i][to]
    BY <1>3 DEF CopyDone
  <2> QED  BY <2>1 DEF OnlyDirsHoldFiles, OthersStay, Transferred, Held, Copying, FilesType
<1>4. CASE DeleteFile(i, from)
  <2>1. kind' = kind /\ mv' = mv /\ mv = "delete"
    BY <1>4 DEF DeleteFile
  <2> PICK f \in files[i][from] : files' = [files EXCEPT ![i][from] = @ \ {f}]
    BY <1>4 DEF DeleteFile
  <2> DEFINE F == files[i][from] \ {f}
  <2>2. F \in SUBSET Files /\ files' = [files EXCEPT ![i][from] = F]
    BY DEF FilesType
  <2>3. /\ files'[i][from] = F
        /\ \A q \in Places : q # from => files'[i][q] = files[i][q]
        /\ \A j \in Items \ {i} : files'[j] = files[j]
        /\ files' = [files EXCEPT ![i] = files'[i]]
    <3> HIDE DEF F
    <3> QED  BY <2>2, FilesOthers
  <2>4. Copying(i, from, to)
    BY <2>1
  <2>5. Held(i)' = Held(i)
    BY <2>1, <2>3, <2>4 DEF Held, Places, Copying
  <2> QED  BY <2>1, <2>3, <2>4, <2>5 DEF OnlyDirsHoldFiles, OthersStay, Transferred, Copying
<1> QED  BY <1>1, <1>2, <1>3, <1>4 DEF CopyStep

(* When mv returns 0 every file of the item is at the target.              *)
LEMMA MoveDoneFacts ==
    ASSUME TypeOK, OnlyDirsHoldFiles, NEW i \in Items, NEW from \in Places, NEW to \in Places,
           from # to, MoveDone(i, from, to),
           mv # "idle" => Copying(i, from, to),
           ~CrossDevice => mv = "idle" /\ files[i][to] = {}
    PROVE  /\ OnlyDirsHoldFiles' /\ OthersStay(i) /\ Transferred(i)
           /\ mv' = "idle" /\ kind'[i][to] = "dir" /\ files'[i][from] = {}
<1> kind \in KindType /\ files \in FilesType /\ "absent" \in Kinds
  BY DEF TypeOK, KindType, FilesType, Kinds
<1> Places = {from, to}
  BY DEF Places
<1>1. CASE ~CrossDevice /\ Rename(i, from, to) /\ UNCHANGED mv
  <2>1. /\ kind'[i][to] = "dir" /\ kind'[i][from] = "absent"
        /\ files'[i][to] = files[i][from] /\ files'[i][from] = {}
        /\ \A j \in Items \ {i} : kind'[j] = kind[j] /\ files'[j] = files[j]
    BY <1>1, RenameFacts
  <2>2. files' = [files EXCEPT ![i] = files'[i]]
    BY <1>1 DEF Rename, FilesType
  <2>3. Held(i)' = Held(i)
    BY <1>1, <2>1 DEF Held, Places
  <2> QED  BY <1>1, <2>1, <2>2, <2>3 DEF OnlyDirsHoldFiles, OthersStay, Transferred
<1>2. CASE CrossDevice /\ DeleteDone(i, from)
  <2>1. /\ kind'[i][from] = "absent"
        /\ \A q \in Places : q # from => kind'[i][q] = kind[i][q]
        /\ \A j \in Items \ {i} : kind'[j] = kind[j]
    BY <1>2, SetKindOthers DEF DeleteDone
  <2>2. files' = files /\ mv = "delete" /\ mv' = "idle" /\ files[i][from] = {}
    BY <1>2 DEF DeleteDone
  <2> QED  BY <2>1, <2>2 DEF OnlyDirsHoldFiles, OthersStay, Transferred, Held, Copying, FilesType
<1> QED  BY <1>1, <1>2 DEF MoveDone

----------------------------------------------------------------------------
(* What a step does to the files of all items: nothing, a transfer within  *)
(* one item, or one new file.                                              *)

SameFiles == UNCHANGED <<files, had>>
FileMoved == \E i \in Items : Transferred(i) /\ pc # "playing" /\ pc' # "playing" /\ had' = had
FileAdded ==
    \E i \in Items, p \in Places, f \in Files :
        /\ files' = [files EXCEPT ![i][p] = @ \cup {f}]
        /\ had' = [had EXCEPT ![i] = @ \cup {f}]
        /\ pc = "playing" => p = "shared"
        /\ pc' = pc

LEMMA NoFileLostStep ==
    ASSUME TypeOK, NoFileLost, SameFiles \/ FileMoved \/ FileAdded
    PROVE  NoFileLost'
<1> files \in FilesType
  BY DEF TypeOK, FilesType
<1>1. CASE SameFiles
  BY <1>1 DEF SameFiles, NoFileLost, Held
<1>2. CASE FileMoved
  <2> PICK i \in Items : Transferred(i) /\ had' = had
    BY <1>2 DEF FileMoved
  <2>1. \A j \in Items \ {i} : files'[j] = files[j]
    BY DEF Transferred, FilesType
  <2> QED  BY <2>1 DEF Transferred, NoFileLost, Held
<1>3. CASE FileAdded
  <2> PICK i \in Items, p \in Places, f \in Files :
        /\ files' = [files EXCEPT ![i][p] = @ \cup {f}]
        /\ had' = [had EXCEPT ![i] = @ \cup {f}]
    BY <1>3 DEF FileAdded
  <2> DEFINE F == files[i][p] \cup {f}
  <2>1. F \in SUBSET Files /\ files' = [files EXCEPT ![i][p] = F]
    BY DEF FilesType
  <2>2. /\ files'[i][p] = F
        /\ \A q \in Places : q # p => files'[i][q] = files[i][q]
        /\ \A j \in Items \ {i} : files'[j] = files[j]
    <3> HIDE DEF F
    <3>1. i \in Items /\ p \in Places
      OBVIOUS
    <3>2. files \in [Items -> [Places -> SUBSET Files]]
      BY DEF TypeOK
    <3> QED  BY ONLY <2>1, <3>1, <3>2
  <2>3. had'[i] = had[i] \cup {f} /\ \A j \in Items \ {i} : had'[j] = had[j]
    BY DEF TypeOK
  <2> QED  BY <2>2, <2>3 DEF NoFileLost, Held, Places
<1> QED  BY <1>1, <1>2, <1>3

(* The rest of the inductive invariant, with the effect on the files.      *)
Structure == OnlyDirsHoldFiles /\ CopyInProgress /\ TargetIsEmpty /\ ReadyToAttach /\ HandledInPlace
Effect == SameFiles \/ FileMoved \/ FileAdded

(* Only a copying mv is not idle. *)
LEMMA IdleElsewhere ==
    ASSUME CopyInProgress, pc # "move", pc \notin {"recover", "rollback"} \/ undo = <<>>
    PROVE  mv = "idle"
BY DEF CopyInProgress

(* Steps that touch neither a path nor a file. *)
LEMMA QuietSteps ==
    ASSUME IInv,
           \/ Begin \/ MarkRecovered \/ SetRecoveredAside \/ RollbackDone \/ Refuse
           \/ OpenTransaction \/ ItemRefused \/ MoveFails \/ AnnounceMount \/ Commit \/ GameEnds
    PROVE  Structure' /\ Effect
<1>1. UNCHANGED <<kind, files, had>>
  BY DEF Begin, MarkRecovered, SetRecoveredAside, RollbackDone, Refuse, OpenTransaction, ItemRefused,
         MoveFails, AnnounceMount, Commit, GameEnds, disk, history, process
<1>2. mv' = "idle"
  <2>1. CASE Begin \/ RollbackDone \/ Refuse \/ MoveFails \/ GameEnds
    BY <2>1 DEF Begin, RollbackDone, Refuse, MoveFails, GameEnds, Leave
  <2>2. CASE MarkRecovered \/ SetRecoveredAside
    <3> undo = <<>> /\ pc # "move" /\ mv' = mv
      BY <2>2 DEF MarkRecovered, SetRecoveredAside, process
    <3> QED  BY IdleElsewhere DEF IInv
  <2>3. CASE OpenTransaction \/ ItemRefused \/ AnnounceMount \/ Commit
    <3> pc \notin {"move", "recover", "rollback"} /\ mv' = mv
      BY <2>3 DEF OpenTransaction, ItemRefused, AnnounceMount, Commit
    <3> QED  BY IdleElsewhere DEF IInv
  <2> QED  BY <2>1, <2>2, <2>3
<1>3. OnlyDirsHoldFiles' /\ CopyInProgress' /\ Effect
  BY <1>1, <1>2 DEF IInv, OnlyDirsHoldFiles, CopyInProgress, Effect, SameFiles
<1>4. TargetIsEmpty' /\ ReadyToAttach'
  BY <1>1
  DEF IInv, TargetIsEmpty, ReadyToAttach, Begin, MarkRecovered, SetRecoveredAside, RollbackDone, Refuse,
      OpenTransaction, ItemRefused, MoveFails, AnnounceMount, Commit, GameEnds, Leave, Rollback, process
<1>5. CASE OpenTransaction
  <2> at' = 1 /\ pc' = "item"
    BY <1>5 DEF OpenTransaction, IInv, AtItem
  <2> QED  BY <1>3, <1>4 DEF Structure, HandledInPlace, Items
<1>6. CASE Commit
  <2> at = ItemCount + 1 /\ pc' = "playing" /\ pc = "commit"
    BY <1>6 DEF Commit, IInv, AtItem
  <2> \A i \in Items : i < at
    BY ItemCountAssumption DEF Items
  <2> QED  BY <1>1, <1>3, <1>4 DEF IInv, Structure, HandledInPlace, InPlace
<1>7. CASE AnnounceMount
  BY <1>1, <1>3, <1>4, <1>7 DEF IInv, AnnounceMount, Structure, HandledInPlace, InPlace
<1>8. CASE ~OpenTransaction /\ ~Commit /\ ~AnnounceMount
  <2> pc' \in {"off", "recover", "preflight", "rollback"}
    BY <1>8 DEF Begin, MarkRecovered, SetRecoveredAside, RollbackDone, Refuse, ItemRefused,
                MoveFails, GameEnds, Leave, Rollback, process
  <2> QED  BY <1>3, <1>4 DEF Structure, HandledInPlace
<1> QED  BY <1>5, <1>6, <1>7, <1>8

(* The steps of the forward path that change the paths of item `at`.       *)
LEMMA ItemSteps ==
    ASSUME IInv,
           \/ ItemInPlace \/ AnnounceMove \/ MakeShared \/ AttachLink \/ MakeMountpoint
           \/ Mount \/ AttachFails
    PROVE  Structure' /\ Effect
<1> "source" \in Places /\ "shared" \in Places /\ Places = {"source", "shared"}
  BY DEF Places
<1> TypeOK /\ OnlyDirsHoldFiles /\ CopyInProgress /\ ReadyToAttach /\ HandledInPlace
  BY DEF IInv
<1>1. pc \in {"item", "attach", "mountpoint", "mount"} /\ at \in Items
  BY DEF IInv, AtItem, ItemInPlace, AnnounceMove, MakeShared, AttachLink, MakeMountpoint, Mount, AttachFails
<1>2. files' = files /\ had' = had /\ mv' = mv
  BY DEF ItemInPlace, AnnounceMove, MakeShared, AttachLink, MakeMountpoint, Mount, AttachFails, Attached, history
<1>3. mv' = "idle" /\ CopyInProgress' /\ Effect
  BY <1>1, <1>2, IdleElsewhere DEF CopyInProgress, Effect, SameFiles
<1>4. \A j \in Items \ {at} : kind'[j] = kind[j]
  BY <1>1, SetKindOthers DEF ItemInPlace, AnnounceMove, MakeShared, AttachLink, MakeMountpoint, Mount, AttachFails,
                             Attached, TypeOK, KindType, Kinds
<1>5. \A j \in Items : j < at => InPlace(j)
  BY <1>1 DEF HandledInPlace
<1>6. \A j \in Items : j < at => InPlace(j)'
  BY <1>1, <1>4, <1>5 DEF InPlace, Items
<1>7. ASSUME at' = at + 1, pc' = NextItem,
             kind'[at]["source"] \in {"link", "bind"}, kind'[at]["shared"] = "dir"
      PROVE  HandledInPlace'
  <2>1. \A j \in Items : j < at' => j < at \/ j = at
    BY <1>1, <1>7 DEF Items
  <2>2. \A j \in Items : j < at' => InPlace(j)'
    BY <1>6, <1>7, <2>1 DEF InPlace
  <2>3. pc' # "playing"
    BY <1>7 DEF NextItem
  <2> QED  BY <2>2, <2>3 DEF HandledInPlace
<1>8. ASSUME at' = at, pc' \in {"move", "attach", "mountpoint", "mount", "rollback"} PROVE HandledInPlace'
  BY <1>6, <1>8 DEF HandledInPlace
<1>9. ASSUME NEW p \in Places, kind'[at][p] # "dir" => files[at][p] = {},
             \A q \in Places : q # p => kind'[at][q] = kind[at][q]
      PROVE  OnlyDirsHoldFiles'
  BY <1>1, <1>2, <1>4, <1>9 DEF OnlyDirsHoldFiles
<1>10. CASE ItemInPlace
  <2>1. /\ at' = at + 1 /\ pc' = NextItem /\ pc' \in {"item", "commit"}
        /\ \A q \in Places : q # "shared" => kind'[at][q] = kind[at][q]
        /\ kind'[at]["shared"] = "dir"
        /\ kind[at]["source"] \in {"link", "bind"}
    BY <1>1, <1>10, SetKindOthers DEF ItemInPlace, NextItem, SamePath, Kinds
  <2>2. OnlyDirsHoldFiles' /\ HandledInPlace'
    BY <1>7, <1>9, <2>1
  <2> QED  BY <1>3, <2>1, <2>2 DEF Structure, TargetIsEmpty, ReadyToAttach
<1>11. CASE AnnounceMove
  <2>1. /\ at' = at /\ pc' = "move"
        /\ \A q \in Places : q # "shared" => kind'[at][q] = kind[at][q]
    BY <1>1, <1>11, SetKindOthers DEF AnnounceMove, Kinds
  <2>2. files[at]["shared"] = {}
    BY <1>1, <1>11 DEF AnnounceMove, Collides, HasData, OnlyDirsHoldFiles
  <2>3. OnlyDirsHoldFiles' /\ HandledInPlace'
    BY <1>8, <1>9, <2>1, <2>2
  <2> QED  BY <1>2, <1>3, <2>1, <2>2, <2>3 DEF Structure, TargetIsEmpty, ReadyToAttach
<1>12. CASE MakeShared
  <2>1. /\ at' = at /\ pc' = "attach"
        /\ kind'[at] = [source |-> "absent", shared |-> "dir"]
    BY <1>1, <1>12 DEF MakeShared, TypeOK
  <2>2. files[at]["source"] = {}
    BY <1>1, <1>12 DEF MakeShared, HasData, OnlyDirsHoldFiles
  <2>3. OnlyDirsHoldFiles' /\ HandledInPlace'
    BY <1>1, <1>2, <1>4, <1>8, <2>1, <2>2 DEF OnlyDirsHoldFiles
  <2> QED  BY <1>2, <1>3, <2>1, <2>2, <2>3 DEF Structure, TargetIsEmpty, ReadyToAttach
<1>13. CASE AttachLink \/ Mount
  <2> PICK k \in {"link", "bind"}, act \in {"link", "bind"} : Attached(k, act)
    BY <1>13 DEF AttachLink, Mount
  <2>1. /\ at' = at + 1 /\ pc' = NextItem /\ pc' \in {"item", "commit"}
        /\ \A q \in Places : q # "source" => kind'[at][q] = kind[at][q]
        /\ kind'[at]["source"] = k
    BY <1>1, SetKindOthers DEF Attached, NextItem, Kinds
  <2>2. files[at]["source"] = {} /\ kind[at]["shared"] = "dir"
    BY <1>13 DEF AttachLink, Mount, ReadyToAttach
  <2>3. OnlyDirsHoldFiles' /\ HandledInPlace'
    BY <1>7, <1>9, <2>1, <2>2
  <2> QED  BY <1>3, <2>1, <2>3 DEF Structure, TargetIsEmpty, ReadyToAttach
<1>14. CASE MakeMountpoint
  <2>1. /\ at' = at /\ pc' = "mountpoint" /\ pc = "attach"
        /\ \A q \in Places : q # "source" => kind'[at][q] = kind[at][q]
        /\ kind'[at]["source"] = "dir"
    BY <1>1, <1>14, SetKindOthers DEF MakeMountpoint, Kinds
  <2>3. OnlyDirsHoldFiles' /\ HandledInPlace'
    BY <1>8, <1>9, <2>1
  <2> QED  BY <1>2, <1>3, <2>1, <2>3 DEF Structure, TargetIsEmpty, ReadyToAttach
<1>15. CASE AttachFails
  <2>1. at' = at /\ pc' = "rollback" /\ files[at]["source"] = {}
    BY <1>15 DEF AttachFails, Rollback, ReadyToAttach
  <2>2. \A q \in Places : q # "source" => kind'[at][q] = kind[at][q]
    BY <1>1, <1>15, SetKindOthers DEF AttachFails, Kinds
  <2>3. OnlyDirsHoldFiles' /\ HandledInPlace'
    BY <1>8, <1>9, <2>1, <2>2
  <2> QED  BY <1>3, <2>1, <2>3 DEF Structure, TargetIsEmpty, ReadyToAttach
<1> QED  BY <1>10, <1>11, <1>12, <1>13, <1>14, <1>15

(* The mv of an item, forward. *)
LEMMA MoveSteps ==
    ASSUME IInv, MoveCopyStep \/ Move
    PROVE  Structure' /\ Effect
<1> "source" \in Places /\ "shared" \in Places
  BY DEF Places
<1> TypeOK /\ OnlyDirsHoldFiles /\ CopyInProgress /\ TargetIsEmpty /\ HandledInPlace
  BY DEF IInv
<1>1. pc = "move" /\ at \in Items /\ at' = at /\ had' = had
  BY DEF IInv, AtItem, MoveCopyStep, Move, history
<1>2. mv # "idle" => Copying(at, "source", "shared")
  BY <1>1 DEF CopyInProgress
<1>3. ASSUME OthersStay(at), pc' \in {"move", "attach"} PROVE HandledInPlace'
  BY <1>1, <1>3 DEF HandledInPlace, OthersStay, InPlace, Items
<1>4. CASE MoveCopyStep
  <2>1. /\ OnlyDirsHoldFiles' /\ OthersStay(at) /\ Transferred(at)
        /\ mv' # "idle" /\ Copying(at, "source", "shared")'
    BY <1>1, <1>2, <1>4, CopyStepFacts DEF MoveCopyStep
  <2>2. pc' = "move" /\ CrossDevice
    BY <1>1, <1>4 DEF MoveCopyStep, CopyStep
  <2>3. CopyInProgress' /\ TargetIsEmpty' /\ ReadyToAttach'
    BY <1>1, <2>1, <2>2 DEF CopyInProgress, TargetIsEmpty, ReadyToAttach, Copying
  <2>4. Effect
    BY <1>1, <2>1, <2>2 DEF Effect, FileMoved
  <2> QED  BY <1>3, <2>1, <2>2, <2>3, <2>4 DEF Structure
<1>5. CASE Move
  <2>1. ~CrossDevice => mv = "idle" /\ files[at]["shared"] = {}
    BY <1>1 DEF CopyInProgress, TargetIsEmpty
  <2>2. /\ OnlyDirsHoldFiles' /\ OthersStay(at) /\ Transferred(at)
        /\ mv' = "idle" /\ kind'[at]["shared"] = "dir" /\ files'[at]["source"] = {}
    BY <1>1, <1>2, <1>5, <2>1, MoveDoneFacts DEF Move
  <2>3. pc' = "attach"
    BY <1>5 DEF Move
  <2>4. CopyInProgress' /\ TargetIsEmpty' /\ ReadyToAttach'
    BY <1>1, <2>2, <2>3 DEF CopyInProgress, TargetIsEmpty, ReadyToAttach
  <2>5. Effect
    BY <1>1, <2>2, <2>3 DEF Effect, FileMoved
  <2> QED  BY <1>3, <2>2, <2>3, <2>4, <2>5 DEF Structure
<1> QED  BY <1>4, <1>5

(* The undo, from the journal or from memory. *)
LEMMA UndoSteps ==
    ASSUME IInv, UndoLast \/ \E i \in Items : UndoCopyStep(i)
    PROVE  Structure' /\ Effect
<1> "source" \in Places /\ "shared" \in Places
  BY DEF Places
<1> TypeOK /\ OnlyDirsHoldFiles /\ CopyInProgress
  BY DEF IInv
<1>1. /\ pc \in {"recover", "rollback"} /\ pc' = pc /\ undo # <<>> /\ had' = had
      /\ undo' \in {undo, Front(undo)}
  BY DEF UndoLast, UndoCopyStep, Undone, Undoing, history
<1>2. TargetIsEmpty' /\ ReadyToAttach' /\ HandledInPlace'
  BY <1>1 DEF TargetIsEmpty, ReadyToAttach, HandledInPlace
<1>3. ASSUME mv' = "idle" PROVE CopyInProgress'
  BY <1>3 DEF CopyInProgress
<1>4. CASE \E i \in Items : UndoCopyStep(i)
  <2> PICK i \in Items : UndoCopyStep(i)
    BY <1>4
  <2>1. undo' = undo /\ CopyStep(i, "shared", "source") /\ Last(undo) = [act |-> "move", item |-> i]
    BY DEF UndoCopyStep, Undone
  <2>2. mv # "idle" => Copying(i, "shared", "source")
    BY <1>1, <2>1 DEF CopyInProgress
  <2>3. /\ OnlyDirsHoldFiles' /\ Transferred(i)
        /\ mv' # "idle" /\ Copying(i, "shared", "source")'
    BY <2>1, <2>2, CopyStepFacts
  <2>4. CrossDevice
    BY <2>1 DEF CopyStep
  <2>5. CopyInProgress'
    BY <1>1, <2>1, <2>3, <2>4 DEF CopyInProgress
  <2> QED  BY <1>1, <1>2, <2>3, <2>5 DEF Structure, Effect, FileMoved
<1>5. CASE UndoLast
  <2> PICK i \in Items :
        \/ Undone("bind", i) /\ Detach(i) /\ UNCHANGED <<files, mv>>
        \/ /\ Undone("link", i)
           /\ IF kind[i]["source"] \in {"link", "alien"}
              THEN SetKind(i, "source", "absent") ELSE UNCHANGED kind
           /\ UNCHANGED <<files, mv>>
        \/ Undone("move", i) /\ UndoMove(i)
        \/ /\ Undone("mkdir", i)
           /\ IF EmptyDir(i, "shared")
              THEN SetKind(i, "shared", "absent") ELSE UNCHANGED kind
           /\ UNCHANGED <<files, mv>>
    BY <1>5 DEF UndoLast
  <2>1. ASSUME UNCHANGED kind, UNCHANGED files, mv' = "idle"
        PROVE  Structure' /\ Effect
    BY <1>1, <1>2, <1>3, <2>1 DEF Structure, Effect, SameFiles, OnlyDirsHoldFiles
  <2>2. ASSUME NEW p \in Places, SetKind(i, p, "absent"), files[i][p] = {}, UNCHANGED files, mv' = "idle"
        PROVE  Structure' /\ Effect
    <3> /\ kind'[i][p] = "absent"
        /\ \A q \in Places : q # p => kind'[i][q] = kind[i][q]
        /\ \A j \in Items \ {i} : kind'[j] = kind[j]
      BY <2>2, SetKindOthers DEF Kinds
    <3> QED  BY <1>1, <1>2, <1>3, <2>2 DEF Structure, Effect, SameFiles, OnlyDirsHoldFiles
  <2>3. CASE Undone("move", i) /\ UndoMove(i)
    <3>1. Last(undo) = [act |-> "move", item |-> i]
      BY <2>3 DEF Undone
    <3>2. mv # "idle" => Copying(i, "shared", "source")
      BY <1>1, <3>1 DEF CopyInProgress
    <3>3. CASE CanMoveBack(i) /\ MoveDone(i, "shared", "source")
      <4>1. ~CrossDevice => mv = "idle" /\ files[i]["source"] = {}
        BY <3>3 DEF CanMoveBack, CopyInProgress, OnlyDirsHoldFiles
      <4>2. OnlyDirsHoldFiles' /\ Transferred(i) /\ mv' = "idle"
        BY <3>2, <3>3, <4>1, MoveDoneFacts
      <4> QED  BY <1>1, <1>2, <1>3, <4>2 DEF Structure, Effect, FileMoved
    <3>4. CASE UNCHANGED <<kind, files>> /\ mv' = "idle"
      BY <2>1, <3>4
    <3>5. CASE ~CanMoveBack(i) /\ UNCHANGED <<kind, files, mv>>
      BY <2>1, <3>5 DEF CanMoveBack
    <3> QED  BY <2>3, <3>3, <3>4, <3>5 DEF UndoMove
  <2>4. ASSUME NEW act, act # "move", Undone(act, i), UNCHANGED mv PROVE mv' = "idle"
    <3> Last(undo).act # "move"
      BY <2>4 DEF Undone
    <3> QED  BY <1>1, <2>4 DEF CopyInProgress
  <2>5. CASE Undone("bind", i) /\ Detach(i) /\ UNCHANGED <<files, mv>>
    <3> mv' = "idle"
      BY <2>4, <2>5
    <3> QED  BY <2>1, <2>2, <2>5 DEF Detach, EmptyDir, OnlyDirsHoldFiles
  <2>6. CASE /\ Undone("link", i)
             /\ IF kind[i]["source"] \in {"link", "alien"}
                THEN SetKind(i, "source", "absent") ELSE UNCHANGED kind
             /\ UNCHANGED <<files, mv>>
    <3> mv' = "idle"
      BY <2>4, <2>6
    <3> QED  BY <2>1, <2>2, <2>6 DEF OnlyDirsHoldFiles
  <2>7. CASE /\ Undone("mkdir", i)
             /\ IF EmptyDir(i, "shared")
                THEN SetKind(i, "shared", "absent") ELSE UNCHANGED kind
             /\ UNCHANGED <<files, mv>>
    <3> mv' = "idle"
      BY <2>4, <2>7
    <3> QED  BY <2>1, <2>2, <2>7 DEF EmptyDir
  <2> QED  BY <2>3, <2>5, <2>6, <2>7
<1> QED  BY <1>4, <1>5

(* The game, the player, cuts and reboots. *)
LEMMA AroundSteps ==
    ASSUME IInv, GameWrites \/ Crash \/ PlayerAdds \/ PlayerClears \/ Reboot
    PROVE  Structure' /\ Effect
<1> "source" \in Places /\ "shared" \in Places
  BY DEF Places
<1> TypeOK /\ OnlyDirsHoldFiles /\ CopyInProgress /\ HandledInPlace
  BY DEF IInv
<1> kind \in KindType /\ files \in FilesType
  BY DEF TypeOK, KindType, FilesType
<1>1. mv' = "idle" /\ CopyInProgress'
  <2>1. pc \in {"playing", "off"} \/ Crash
    BY DEF GameWrites, PlayerAdds, PlayerClears, Reboot
  <2>2. ~Crash => mv' = mv
    BY DEF GameWrites, PlayerAdds, PlayerClears, Reboot, process
  <2>3. Crash => mv' = "idle"
    BY DEF Crash, Leave
  <2> QED  BY <2>1, <2>2, <2>3, IdleElsewhere DEF CopyInProgress
<1>2. pc' \in {"off", "playing"}
  BY DEF GameWrites, Crash, PlayerAdds, PlayerClears, Reboot, Leave, process
<1>3. TargetIsEmpty' /\ ReadyToAttach'
  BY <1>2 DEF TargetIsEmpty, ReadyToAttach
<1>4. ASSUME pc' = "off" PROVE HandledInPlace'
  BY <1>4 DEF HandledInPlace
<1>5. ASSUME NEW i \in Items, NEW p \in Places, NEW f \in Files,
             files' = [files EXCEPT ![i][p] = @ \cup {f}]
      PROVE  /\ \A q \in Places : q # p => files'[i][q] = files[i][q]
             /\ \A j \in Items \ {i} : files'[j] = files[j]
  <2> DEFINE F == files[i][p] \cup {f}
  <2>1. F \in SUBSET Files /\ files' = [files EXCEPT ![i][p] = F]
    BY <1>5 DEF FilesType
  <2> HIDE DEF F
  <2> QED  BY <2>1, FilesOthers
<1>6. CASE GameWrites
  <2> PICK i \in Items, f \in Files :
        /\ files' = [files EXCEPT ![i]["shared"] = @ \cup {f}]
        /\ had' = [had EXCEPT ![i] = @ \cup {f}]
    BY <1>6 DEF GameWrites
  <2>1. kind' = kind /\ pc = "playing" /\ pc' = pc
    BY <1>6 DEF GameWrites, process
  <2>2. HandledInPlace' /\ kind[i]["shared"] = "dir"
    BY <2>1 DEF HandledInPlace, InPlace
  <2>3. OnlyDirsHoldFiles'
    BY <1>5, <2>1, <2>2 DEF OnlyDirsHoldFiles
  <2>4. Effect
    BY <2>1 DEF Effect, FileAdded
  <2> QED  BY <1>1, <1>3, <2>2, <2>3, <2>4 DEF Structure
<1>7. CASE PlayerAdds
  <2> PICK i \in Items, p \in Places, f \in Files :
        /\ SetKind(i, p, "dir")
        /\ files' = [files EXCEPT ![i][p] = @ \cup {f}]
        /\ had' = [had EXCEPT ![i] = @ \cup {f}]
    BY <1>7 DEF PlayerAdds
  <2>1. pc = "off" /\ pc' = pc
    BY <1>7 DEF PlayerAdds, process
  <2>2. /\ kind'[i][p] = "dir"
        /\ \A q \in Places : q # p => kind'[i][q] = kind[i][q]
        /\ \A j \in Items \ {i} : kind'[j] = kind[j]
    BY SetKindOthers DEF Kinds
  <2>3. OnlyDirsHoldFiles'
    BY <1>5, <2>2 DEF OnlyDirsHoldFiles
  <2>4. Effect
    BY <2>1 DEF Effect, FileAdded
  <2> QED  BY <1>1, <1>3, <1>4, <2>1, <2>3, <2>4 DEF Structure
<1>8. CASE PlayerClears
  <2> PICK i \in Items : kind[i]["source"] \in {"alien", "file"} /\ SetKind(i, "source", "absent")
    BY <1>8 DEF PlayerClears
  <2>1. pc' = "off" /\ files' = files /\ had' = had
    BY <1>8 DEF PlayerClears, process, history
  <2>2. /\ kind'[i]["source"] = "absent"
        /\ \A q \in Places : q # "source" => kind'[i][q] = kind[i][q]
        /\ \A j \in Items \ {i} : kind'[j] = kind[j]
    BY SetKindOthers DEF Kinds
  <2>3. OnlyDirsHoldFiles'
    BY <2>1, <2>2 DEF OnlyDirsHoldFiles
  <2> QED  BY <1>1, <1>3, <1>4, <2>1, <2>3 DEF Structure, Effect, SameFiles
<1>9. CASE Crash \/ Reboot
  <2>1. pc' = "off" /\ files' = files /\ had' = had
    BY <1>9 DEF Crash, Reboot, Leave, process, history
  <2>2. CASE UNCHANGED kind
    <3> OnlyDirsHoldFiles'
      BY <2>1, <2>2 DEF OnlyDirsHoldFiles
    <3> QED  BY <1>1, <1>3, <1>4, <2>1 DEF Structure, Effect, SameFiles
  <2>3. CASE kind' = [i \in Items |-> [kind[i] EXCEPT !["source"] = IF @ = "bind" THEN "dir" ELSE @]]
    <3> OnlyDirsHoldFiles'
      BY <2>1, <2>3, DropMountsFacts DEF OnlyDirsHoldFiles, Places
    <3> QED  BY <1>1, <1>3, <1>4, <2>1 DEF Structure, Effect, SameFiles
  <2> QED  BY <1>9, <2>2, <2>3 DEF Crash, Reboot
<1> QED  BY <1>6, <1>7, <1>8, <1>9

----------------------------------------------------------------------------

LEMMA StepFacts == IInv /\ [Next]_vars => Structure' /\ Effect
<1> SUFFICES ASSUME IInv, [Next]_vars PROVE Structure' /\ Effect
  OBVIOUS
<1>1. CASE UNCHANGED vars
  BY <1>1 DEF IInv, Structure, Effect, SameFiles, OnlyDirsHoldFiles, CopyInProgress, Copying, TargetIsEmpty,
              ReadyToAttach, HandledInPlace, InPlace, vars, disk, process, history
<1> QED  BY <1>1, QuietSteps, ItemSteps, MoveSteps, UndoSteps, AroundSteps DEF Next, Recovery, Forward, Around

LEMMA InvInit == Init => IInv
<1> SUFFICES ASSUME Init PROVE IInv
  OBVIOUS
<1>1. TypeOK
  BY TypeInit
<1>2. OnlyDirsHoldFiles /\ NoFileLost
  BY DEF Init, OnlyDirsHoldFiles, NoFileLost, Held, Places
<1> QED  BY <1>1, <1>2 DEF Init, IInv, AtItem, CopyInProgress, TargetIsEmpty, ReadyToAttach, HandledInPlace

LEMMA InvStep == IInv /\ [Next]_vars => IInv'
BY TypeStep, AtStep, StepFacts, NoFileLostStep DEF IInv, Structure, Effect

(* Whatever fails and wherever the transaction is cut, every file an item  *)
(* ever held is complete in one of its two directories.                    *)
THEOREM NothingIsLost == Spec => []NoFileLost
<1>1. IInv => NoFileLost
  BY DEF IInv
<1> QED  BY InvInit, InvStep, <1>1, PTL DEF Spec

(* When the game starts, each old path leads to the shared directory, and  *)
(* everything the item ever held is there.                                 *)
THEOREM GameReachesEverything == Spec => []ReachesEverything
<1>1. IInv => ReachesEverything
  <2> SUFFICES ASSUME IInv, pc = "playing", NEW i \in Items
               PROVE  InPlace(i) /\ had[i] \subseteq files[i]["shared"]
    BY DEF ReachesEverything, InPlace
  <2>1. InPlace(i)
    BY DEF IInv, HandledInPlace
  <2>2. files[i]["source"] = {}
    BY <2>1 DEF IInv, OnlyDirsHoldFiles, InPlace, Places
  <2> QED  BY <2>1, <2>2 DEF IInv, NoFileLost, Held
<1> QED  BY InvInit, InvStep, <1>1, PTL DEF Spec

(* Only Commit and GameEnds or a crash change whether the game runs.       *)
LEMMA PlayingSteps ==
    ASSUME IInv, [Next]_vars, (pc = "playing") # (pc' = "playing")
    PROVE  /\ files' = files
           /\ pc' = "playing" => \A i \in Items : files[i]["source"] = {}
<1>1. pc' = "playing" => Commit
  <2> SUFFICES ASSUME pc # "playing", ~Commit PROVE pc' # "playing"
    OBVIOUS
  <2>1. CASE UNCHANGED vars \/ Around
    BY <2>1 DEF Around, GameWrites, GameEnds, Crash, PlayerAdds, PlayerClears, Reboot, Leave, vars, process
  <2>2. CASE Begin \/ Recovery
    BY <2>2 DEF Begin, Recovery, UndoCopyStep, UndoLast, MarkRecovered, SetRecoveredAside, RollbackDone, Leave, process
  <2>3. CASE Forward
    BY <2>3 DEF Forward, Refuse, OpenTransaction, ItemInPlace, ItemRefused, AnnounceMove, MoveCopyStep, Move,
                MoveFails, MakeShared, AttachLink, MakeMountpoint, AnnounceMount, Mount, AttachFails, Attached,
                Leave, Rollback, NextItem
  <2> QED  BY <2>1, <2>2, <2>3 DEF Next
<1>2. pc = "playing" /\ pc' # "playing" => GameEnds \/ Crash
  <2> SUFFICES ASSUME pc = "playing", pc' # pc PROVE GameEnds \/ Crash
    OBVIOUS
  <2>1. ~UNCHANGED vars /\ ~(GameWrites \/ PlayerAdds \/ PlayerClears \/ Reboot)
    BY DEF GameWrites, PlayerAdds, PlayerClears, Reboot, vars, process
  <2>2. ~Begin /\ ~Recovery
    BY DEF Begin, Recovery, UndoCopyStep, UndoLast, MarkRecovered, SetRecoveredAside, RollbackDone, Undone, Undoing
  <2>3. ~Forward
    BY DEF Forward, Refuse, OpenTransaction, ItemInPlace, ItemRefused, AnnounceMove, MoveCopyStep, Move,
           MoveFails, MakeShared, AttachLink, MakeMountpoint, AnnounceMount, Mount, AttachFails, Commit
  <2> QED  BY <2>1, <2>2, <2>3 DEF Next, Around
<1>3. CASE Commit
  <2>1. at = ItemCount + 1 /\ pc = "commit" /\ files' = files
    BY <1>3 DEF Commit, IInv, AtItem
  <2>2. \A i \in Items : i < at
    BY <2>1, ItemCountAssumption DEF Items
  <2>3. \A i \in Items : InPlace(i)
    BY <2>1, <2>2 DEF IInv, HandledInPlace
  <2> QED  BY <2>1, <2>3 DEF IInv, OnlyDirsHoldFiles, InPlace, Places
<1>4. CASE GameEnds \/ Crash
  BY <1>4 DEF GameEnds, Crash, Leave
<1> QED  BY <1>1, <1>2, <1>3, <1>4

(* The migration is an implementation of SharedData.                       *)
THEOREM MigrationKeepsPromise == Spec => KeepsPromise
<1>1. Init => Promise!Init
  <2> SUFFICES ASSUME Init PROVE files \in FilesType /\ (pc = "playing") = FALSE
    BY DEF Promise!Init, FilesType, Promise!Places, Places
  <2> QED  BY TypeInit DEF Init, TypeOK, FilesType
<1>2. IInv /\ [Next]_vars => [Promise!Next]_Promise!vars
  <2> SUFFICES ASSUME IInv, [Next]_vars PROVE [Promise!Next]_Promise!vars
    OBVIOUS
  <2>1. Effect
    BY StepFacts
  <2>2. CASE (pc = "playing") # (pc' = "playing")
    <3>1. files' = files /\ (pc' = "playing" => \A i \in Items : files[i]["source"] = {})
      BY <2>2, PlayingSteps
    <3>2. CASE pc' = "playing"
      BY <3>1, <3>2 DEF Promise!Next, Promise!Start
    <3>3. CASE pc' # "playing"
      BY <2>2, <3>1, <3>3 DEF Promise!Next, Promise!Stop
    <3> QED  BY <3>2, <3>3
  <2>3. CASE (pc = "playing") = (pc' = "playing")
    <3>1. CASE SameFiles
      BY <2>3, <3>1 DEF SameFiles, Promise!vars
    <3>2. CASE FileMoved
      <4> PICK i \in Items : Transferred(i) /\ pc # "playing"
        BY <3>2 DEF FileMoved
      <4>1. files' \in FilesType
        BY TypeStep DEF IInv, TypeOK, FilesType
      <4> DEFINE to == files'[i]
      <4>2. to \in [Promise!Places -> SUBSET Files]
        BY <4>1 DEF FilesType, Places, Promise!Places
      <4>3. to["source"] \cup to["shared"] = Promise!Held(i) /\ files' = [files EXCEPT ![i] = to]
        BY DEF Transferred, Held, Promise!Held
      <4>4. Promise!Transfer(i)
        BY <2>3, <4>2, <4>3 DEF Promise!Transfer
      <4> QED  BY <4>4 DEF Promise!Next
    <3>3. CASE FileAdded
      <4> PICK i \in Items, p \in Places, f \in Files :
            files' = [files EXCEPT ![i][p] = @ \cup {f}] /\ (pc = "playing" => p = "shared")
        BY <3>3 DEF FileAdded
      <4>1. Promise!Add(i, f, p)
        BY <2>3 DEF Promise!Add
      <4> QED  BY <4>1 DEF Promise!Next, Promise!Places, Places
    <3> QED  BY <2>1, <3>1, <3>2, <3>3 DEF Effect
  <2> QED  BY <2>2, <2>3
<1> QED  BY InvInit, InvStep, <1>1, <1>2, PTL DEF Spec, KeepsPromise, Promise!Spec

----------------------------------------------------------------------------
(* What the undo of a transaction restores, on one filesystem that has     *)
(* links and whose renames back do not fail.  Elsewhere it need not: an mv *)
(* between filesystems that fails leaves half of a copy, and the directory *)
(* made as a mount point is in the way of the rename back when the line    *)
(* that announces the mount is missing.                                    *)

RenamesAndLinks == ~CrossDevice /\ Symlinks /\ "undo" \notin Faults

Has(s, act, i) == \E k \in 1 .. Len(s) : s[k] = [act |-> act, item |-> i]

(* No line twice, and the link of an item after its move.                  *)
InOrder(s) ==
    /\ \A k \in 1 .. Len(s) : s[k].act # "bind"
    /\ \A j, k \in 1 .. Len(s) : s[j] = s[k] => j = k
    /\ \A j, k \in 1 .. Len(s) :
          s[j].item = s[k].item /\ s[j].act = "link" /\ s[k].act = "move" => k < j

Stayed(i) == files[i] = began[i]
WasMoved(i) ==
    /\ began[i]["source"] # {} /\ began[i]["shared"] = {}
    /\ files[i]["source"] = {} /\ files[i]["shared"] = began[i]["source"]
    /\ kind[i]["shared"] = "dir"

(* How far the lines go while an item is handled. *)
Reached(s) ==
    /\ pc = "item" => \A k \in 1 .. Len(s) : s[k].item < at
    /\ pc = "move" => \A k \in 1 .. Len(s) : s[k].item < at \/ s[k] = NewLine("move")
    /\ pc = "attach" => \A k \in 1 .. Len(s) : s[k].item < at \/ (s[k].item = at /\ s[k].act # "link")

Beginning ==
    /\ fresh => pc \in {"item", "move", "attach", "commit", "rollback", "playing"}
    /\ fresh => manifest # "none"
    /\ pc \in {"recover", "preflight"} => actions = <<>>
    /\ pc = "preflight" => manifest # "migrating"
    /\ pc \notin {"mountpoint", "mount"}
    /\ manifest = "none" => journal = <<>>
    /\ pc = "move" => files[at]["source"] # {}

(* The actions of this launch, or what is left of them to be undone: the   *)
(* items with a move line are moved, the others are where they were.       *)
Pending == IF pc = "rollback" THEN undo ELSE actions

Done(s, i) ==
    IF Has(s, "move", i)
    THEN WasMoved(i) /\ kind[i]["source"] = IF Has(s, "link", i) THEN "link" ELSE "absent"
    ELSE Stayed(i)

InMemory ==
    fresh /\ pc # "playing" =>
        /\ InOrder(Pending) /\ Reached(Pending)
        /\ pc = "move" => ~Has(Pending, "move", at)
        /\ \A i \in Items : Done(Pending, i)

(* The journal of an interrupted one is ahead of the disk: an item with a  *)
(* move line is moved or where it was.                                     *)
Announced(i) ==
    IF Has(journal, "move", i)
    THEN /\ began[i]["source"] # {} /\ began[i]["shared"] = {}
         /\ \/ Stayed(i)
            \/ /\ WasMoved(i) /\ kind[i]["source"] \in {"absent", "link"}
               /\ kind[i]["source"] = "link" => Has(journal, "link", i)
    ELSE Stayed(i)

OnDisk ==
    manifest = "migrating" \/ pc = "recover" =>
        /\ pc \in {"off", "recover"} \/ fresh
        /\ pc # "playing"
        /\ InOrder(journal) /\ Reached(journal)
        /\ pc = "move" => Has(journal, "move", at)
        /\ \A i \in Items \ added : Announced(i)

(* What is no longer in undo has been undone. *)
Recovering ==
    pc = "recover" =>
        /\ Len(undo) <= Len(journal) /\ \A k \in 1 .. Len(undo) : undo[k] = journal[k]
        /\ \A k \in Len(undo) + 1 .. Len(journal) : journal[k].item \notin added =>
              /\ journal[k].act = "move" => Stayed(journal[k].item)
              /\ journal[k].act = "link" => kind[journal[k].item]["source"] # "link"

UndoInv == Beginning /\ InMemory /\ OnDisk /\ Recovering

(* Lines taken off and added. *)
LEMMA FrontLines ==
    ASSUME NEW s \in Seq(Line), s # <<>>
    PROVE  /\ Len(s) \in Nat \ {0} /\ Last(s) = s[Len(s)] /\ Last(s) \in Line
           /\ Front(s) \in Seq(Line) /\ Len(Front(s)) = Len(s) - 1
           /\ \A k \in 1 .. Len(s) - 1 : Front(s)[k] = s[k]
<1>1. Len(s) \in Nat \ {0}
  OBVIOUS
<1>2. Last(s) = s[Len(s)] /\ Last(s) \in Line
  BY <1>1 DEF Last
<1>3. Front(s) = SubSeq(s, 1, Len(s) - 1) /\ Front(s) \in Seq(Line)
  BY SeqFacts DEF Front
<1>4. /\ Len(Front(s)) = Len(s) - 1
      /\ \A k \in 1 .. Len(s) - 1 : Front(s)[k] = s[k]
  <2> DEFINE n == Len(s) - 1
  <2>1. 1 \in Int /\ n \in Nat /\ \A k \in 1 .. n : s[k] \in Line
    BY <1>1
  <2> HIDE DEF n
  <2>2. /\ Len(SubSeq(s, 1, n)) = IF 1 <= n THEN n - 1 + 1 ELSE 0
        /\ \A k \in 1 .. n - 1 + 1 : SubSeq(s, 1, n)[k] = s[1 + k - 1]
    BY <2>1, SubSeqProperties
  <2>3. n - 1 + 1 = n /\ (IF 1 <= n THEN n - 1 + 1 ELSE 0) = n /\ \A k \in 1 .. n : 1 + k - 1 = k
    BY <2>1
  <2>4. Len(SubSeq(s, 1, n)) = n /\ \A k \in 1 .. n : SubSeq(s, 1, n)[k] = s[k]
    BY <2>2, <2>3
  <2> QED  BY <1>3, <2>4 DEF n
<1> QED  BY <1>1, <1>2, <1>3, <1>4

LEMMA FrontInOrder ==
    ASSUME NEW s \in Seq(Line), s # <<>>, InOrder(s)
    PROVE  /\ InOrder(Front(s))
           /\ ~Has(Front(s), Last(s).act, Last(s).item)
           /\ Has(s, Last(s).act, Last(s).item)
           /\ \A act \in {"move", "mkdir", "link", "bind"}, i \in Items :
                 Last(s) # [act |-> act, item |-> i] => (Has(Front(s), act, i) <=> Has(s, act, i))
           /\ Last(s).act = "move" => ~Has(s, "link", Last(s).item)
           /\ Last(s).act # "bind"
<1> DEFINE n == Len(s) l == Last(s) f == Front(s)
<1>1. n \in Nat \ {0} /\ l = s[n] /\ l \in Line /\ Len(f) = n - 1 /\ \A k \in 1 .. n - 1 : f[k] = s[k]
  BY FrontLines
<1>2. \A k \in 1 .. n : s[k] \in Line
  OBVIOUS
<1>3. l = [act |-> l.act, item |-> l.item]
  BY <1>1 DEF Line
<1> HIDE DEF n, l, f
<1>4. 1 .. n = (1 .. n - 1) \cup {n}
  BY <1>1
<1>5. /\ \A k \in 1 .. n : s[k].act # "bind"
      /\ \A j, k \in 1 .. n : s[j] = s[k] => j = k
      /\ \A j, k \in 1 .. n : s[j].item = s[k].item /\ s[j].act = "link" /\ s[k].act = "move" => k < j
  BY DEF InOrder, n
<1>6. InOrder(f)
  BY <1>1, <1>4, <1>5 DEF InOrder
<1>7. ~Has(f, l.act, l.item)
  BY <1>1, <1>3, <1>4, <1>5 DEF Has
<1>8. Has(s, l.act, l.item)
  BY <1>1, <1>3, <1>4 DEF Has, n
<1>9. ASSUME NEW act \in {"move", "mkdir", "link", "bind"}, NEW i \in Items, l # [act |-> act, item |-> i]
      PROVE  Has(f, act, i) <=> Has(s, act, i)
  <2>1. Has(s, act, i) <=> \E k \in 1 .. n : s[k] = [act |-> act, item |-> i]
    BY DEF Has, n
  <2>2. Has(f, act, i) <=> \E k \in 1 .. n - 1 : s[k] = [act |-> act, item |-> i]
    BY <1>1 DEF Has
  <2> QED  BY <1>1, <1>4, <1>9, <2>1, <2>2
<1>10. ASSUME l.act = "move" PROVE ~Has(s, "link", l.item)
  <2> SUFFICES ASSUME NEW k \in 1 .. n, s[k] = [act |-> "link", item |-> l.item] PROVE FALSE
    BY DEF Has, n
  <2>1. s[k].item = s[n].item /\ s[k].act = "link" /\ n \in 1 .. n
    BY <1>1
  <2>2. n < k
    BY <1>1, <1>5, <1>10, <2>1
  <2> QED  BY <1>1, <2>2
<1>11. l.act # "bind"
  BY <1>1, <1>4, <1>5
<1> QED  BY <1>6, <1>7, <1>8, <1>9, <1>10, <1>11 DEF l, f

LEMMA AddLine ==
    ASSUME NEW s \in Seq(Line), NEW l \in Line, NEW t, t = Append(s, l) \/ t = s \o <<l>>
    PROVE  /\ t \in Seq(Line) /\ Len(t) = Len(s) + 1 /\ Len(s) \in Nat
           /\ 1 .. Len(t) = 1 .. Len(s) \cup {Len(s) + 1}
           /\ t[Len(s) + 1] = l /\ \A k \in 1 .. Len(s) : t[k] = s[k]
<1>1. Append(s, l) = s \o <<l>>
  OBVIOUS
<1>2. t = Append(s, l)
  BY <1>1
<1>3. Len(t) = Len(s) + 1 /\ Len(s) \in Nat /\ t \in Seq(Line)
  BY <1>2
<1>4. t[Len(s) + 1] = l /\ \A k \in 1 .. Len(s) : t[k] = s[k]
  BY <1>2
<1> QED  BY <1>3, <1>4

LEMMA AddInOrder ==
    ASSUME NEW s \in Seq(Line), NEW l \in Line, NEW t, t = Append(s, l) \/ t = s \o <<l>>,
           InOrder(s), l.act # "bind", ~Has(s, l.act, l.item),
           l.act = "move" => ~Has(s, "link", l.item)
    PROVE  /\ InOrder(t)
           /\ \A act \in {"move", "mkdir", "link", "bind"}, i \in Items :
                 Has(t, act, i) <=> Has(s, act, i) \/ l = [act |-> act, item |-> i]
<1>1. /\ Len(t) = Len(s) + 1 /\ Len(s) \in Nat /\ 1 .. Len(t) = 1 .. Len(s) \cup {Len(s) + 1}
      /\ t[Len(s) + 1] = l /\ \A k \in 1 .. Len(s) : t[k] = s[k]
  BY AddLine
<1>2. \A k \in 1 .. Len(s) : s[k] \in Line
  OBVIOUS
<1>3. l = [act |-> l.act, item |-> l.item] /\ \A k \in 1 .. Len(s) : s[k] = [act |-> s[k].act, item |-> s[k].item]
  BY <1>2 DEF Line
<1>4. \A k \in 1 .. Len(s) : s[k] # l
  BY <1>3 DEF Has
<1>5. \A k \in 1 .. Len(s) : ~(s[k].item = l.item /\ s[k].act = "link" /\ l.act = "move")
  <2> SUFFICES ASSUME NEW k \in 1 .. Len(s), s[k].item = l.item, s[k].act = "link", l.act = "move" PROVE FALSE
    OBVIOUS
  <2>1. s[k] = [act |-> "link", item |-> l.item]
    BY <1>3
  <2> QED  BY <2>1 DEF Has
<1>6. InOrder(t)
  <2>1. \A k \in 1 .. Len(t) : t[k].act # "bind"
    BY <1>1 DEF InOrder
  <2>2. \A j, k \in 1 .. Len(t) : t[j] = t[k] => j = k
    BY <1>1, <1>4 DEF InOrder
  <2>3. \A j, k \in 1 .. Len(t) : t[j].item = t[k].item /\ t[j].act = "link" /\ t[k].act = "move" => k < j
    <3> SUFFICES ASSUME NEW j \in 1 .. Len(t), NEW k \in 1 .. Len(t),
                        t[j].item = t[k].item, t[j].act = "link", t[k].act = "move"
                 PROVE  k < j
      OBVIOUS
    <3>1. CASE j \in 1 .. Len(s) /\ k \in 1 .. Len(s)
      BY <1>1, <3>1 DEF InOrder
    <3>2. CASE k = Len(s) + 1
      <4>1. j \in 1 .. Len(s)
        BY <1>1, <3>2
      <4> QED  BY <1>1, <1>5, <3>2, <4>1
    <3>3. CASE j = Len(s) + 1 /\ k \in 1 .. Len(s)
      BY <1>1, <3>3
    <3> QED  BY <1>1, <3>1, <3>2, <3>3
  <2> QED  BY <2>1, <2>2, <2>3 DEF InOrder
<1> QED  BY <1>1, <1>6 DEF Has

Undoable == RenamesAndLinks /\ IInv /\ UndoInv

LEMMA UndoableFacts ==
    ASSUME Undoable
    PROVE  /\ TypeOK /\ AtItem /\ OnlyDirsHoldFiles
           /\ kind \in KindType /\ files \in FilesType /\ began \in FilesType
           /\ journal \in Seq(Line) /\ actions \in Seq(Line) /\ undo \in Seq(Line)
           /\ mv = "idle" /\ Symlinks
           /\ ~MoveCopyStep /\ \A i \in Items : ~UndoCopyStep(i)
<1>1. TypeOK /\ AtItem /\ OnlyDirsHoldFiles /\ mv = "idle" /\ Symlinks /\ ~CrossDevice
  BY DEF Undoable, RenamesAndLinks, IInv, CopyInProgress
<1>2. kind \in KindType /\ files \in FilesType /\ began \in FilesType
  BY <1>1 DEF TypeOK, KindType, FilesType
<1>3. journal \in Seq(Line) /\ actions \in Seq(Line) /\ undo \in Seq(Line)
  BY <1>1 DEF TypeOK
<1>4. ~MoveCopyStep /\ \A i \in Items : ~UndoCopyStep(i)
  BY <1>1 DEF MoveCopyStep, UndoCopyStep, CopyStep
<1> QED  BY <1>1, <1>2, <1>3, <1>4

(* An item whose files are in both places as they were is as it was. *)
LEMMA BothPlaces ==
    ASSUME files' \in FilesType, began \in FilesType, NEW i \in Items,
           files'[i]["source"] = began[i]["source"], files'[i]["shared"] = began[i]["shared"]
    PROVE  files'[i] = began[i]
<1>1. files'[i] \in [Places -> SUBSET Files] /\ began[i] \in [Places -> SUBSET Files]
  BY DEF FilesType
<1>2. \A p \in Places : files'[i][p] = began[i][p]
  BY DEF Places
<1> QED  BY <1>1, <1>2

(* Outside a way back what the script has in hand are its actions. *)
LEMMA InHandIsActions ==
    ASSUME Pending' = actions', InOrder(actions)', Reached(actions)', \A i \in Items : Done(actions, i)'
    PROVE  InOrder(Pending)' /\ Reached(Pending)' /\ \A i \in Items : Done(Pending, i)'
<1>1. InOrder(Pending)'
  BY DEF InOrder
<1>2. Reached(Pending)'
  BY DEF Reached
<1>3. ASSUME NEW i \in Items PROVE Done(Pending, i)'
  BY DEF Done, Has
<1> QED  BY <1>1, <1>2, <1>3

(* An mv that succeeds, there or back. *)
LEMMA RenameOnly ==
    ASSUME Undoable, NEW i \in Items, NEW from \in Places, NEW to \in Places, from # to, MoveDone(i, from, to)
    PROVE  /\ kind' \in KindType /\ files' \in FilesType
           /\ kind'[i][to] = "dir" /\ kind'[i][from] = "absent"
           /\ files'[i][to] = files[i][from] /\ files'[i][from] = {}
           /\ \A j \in Items \ {i} : kind'[j] = kind[j] /\ files'[j] = files[j]
<1>1. Rename(i, from, to)
  BY DEF MoveDone, Undoable, RenamesAndLinks
<1> QED  BY <1>1, RenameFacts, UndoableFacts

(* What one line undone does, whichever list it is taken from.             *)
LEMMA UndoEffect ==
    ASSUME Undoable, UndoLast, NEW i \in Items, NEW act, Last(undo) = [act |-> act, item |-> i], act # "bind"
    PROVE  /\ Undoing /\ undo # <<>> /\ undo' = Front(undo)
           /\ \A j \in Items \ {i} : kind'[j] = kind[j] /\ files'[j] = files[j]
           /\ kind' \in KindType /\ files' \in FilesType
           /\ act = "link" => /\ files' = files /\ kind'[i]["shared"] = kind[i]["shared"]
                              /\ kind'[i]["source"] = IF kind[i]["source"] \in {"link", "alien"} THEN "absent" ELSE kind[i]["source"]
           /\ act = "mkdir" => /\ files' = files /\ kind'[i]["source"] = kind[i]["source"]
                               /\ files[i]["shared"] # {} => kind'[i]["shared"] = kind[i]["shared"]
           /\ act = "move" => IF CanMoveBack(i)
                              THEN /\ kind'[i]["source"] = "dir" /\ kind'[i]["shared"] = "absent"
                                   /\ files'[i]["source"] = files[i]["shared"] /\ files'[i]["shared"] = {}
                              ELSE kind'[i] = kind[i] /\ files'[i] = files[i]
<1>0. kind \in KindType /\ files \in FilesType /\ "source" \in Places /\ "shared" \in Places /\ "source" # "shared"
      /\ "absent" \in Kinds /\ "undo" \notin Faults
  BY UndoableFacts DEF Places, Kinds, Undoable, RenamesAndLinks
<1>1. PICK j \in Items :
          \/ Undone("bind", j) /\ Detach(j) /\ UNCHANGED <<files, mv>>
          \/ /\ Undone("link", j)
             /\ IF kind[j]["source"] \in {"link", "alien"}
                THEN SetKind(j, "source", "absent") ELSE UNCHANGED kind
             /\ UNCHANGED <<files, mv>>
          \/ Undone("move", j) /\ UndoMove(j)
          \/ /\ Undone("mkdir", j)
             /\ IF EmptyDir(j, "shared")
                THEN SetKind(j, "shared", "absent") ELSE UNCHANGED kind
             /\ UNCHANGED <<files, mv>>
  BY DEF UndoLast
<1>2. Undoing /\ undo # <<>> /\ undo' = Front(undo)
  BY <1>1 DEF UndoLast, Undone, Undoing
<1>3. \A act2, j2 : Undone(act2, j2) => act2 = act /\ j2 = i
  BY DEF Undone
<1>4. CASE Undone("link", j)
  <2>1. act = "link" /\ j = i /\ files' = files
    BY <1>1, <1>3, <1>4
  <2>2. IF kind[i]["source"] \in {"link", "alien"} THEN SetKind(i, "source", "absent") ELSE UNCHANGED kind
    BY <1>1, <1>3, <1>4
  <2>3. CASE kind[i]["source"] \in {"link", "alien"}
    BY <1>0, <1>2, <2>1, <2>2, <2>3, SetKindOthers, UndoableFacts
  <2>4. CASE kind[i]["source"] \notin {"link", "alien"}
    BY <1>0, <1>2, <2>1, <2>2, <2>4
  <2> QED  BY <2>3, <2>4
<1>5. CASE Undone("mkdir", j)
  <2>1. act = "mkdir" /\ j = i /\ files' = files
    BY <1>1, <1>3, <1>5
  <2>2. IF EmptyDir(i, "shared") THEN SetKind(i, "shared", "absent") ELSE UNCHANGED kind
    BY <1>1, <1>3, <1>5
  <2>3. CASE EmptyDir(i, "shared")
    BY <1>0, <1>2, <2>1, <2>2, <2>3, SetKindOthers, UndoableFacts DEF EmptyDir
  <2>4. CASE ~EmptyDir(i, "shared")
    BY <1>0, <1>2, <2>1, <2>2, <2>4
  <2> QED  BY <2>3, <2>4
<1>6. CASE Undone("move", j)
  <2>1. act = "move" /\ j = i /\ UndoMove(i)
    BY <1>1, <1>3, <1>6
  <2>2. CASE CanMoveBack(i)
    <3>1. MoveDone(i, "shared", "source")
      BY <1>0, <2>1, <2>2 DEF UndoMove
    <3>2. /\ kind' \in KindType /\ files' \in FilesType
          /\ kind'[i]["source"] = "dir" /\ kind'[i]["shared"] = "absent"
          /\ files'[i]["source"] = files[i]["shared"] /\ files'[i]["shared"] = {}
          /\ \A k \in Items \ {i} : kind'[k] = kind[k] /\ files'[k] = files[k]
      BY <1>0, <3>1, RenameOnly
    <3> QED  BY <1>2, <2>1, <2>2, <3>2
  <2>3. CASE ~CanMoveBack(i)
    BY <1>0, <1>2, <2>1, <2>3 DEF UndoMove
  <2> QED  BY <2>2, <2>3
<1> QED  BY <1>1, <1>3, <1>4, <1>5, <1>6

LEMMA BeginningStep ==
    ASSUME Undoable, [Next]_vars
    PROVE  Beginning'
<1> Beginning /\ OnDisk
  BY DEF Undoable, UndoInv
<1> USE UndoableFacts DEF Beginning
<1>1. CASE UNCHANGED vars
  BY <1>1 DEF vars, disk, process
<1>2. CASE Begin \/ RollbackDone \/ Refuse \/ GameEnds \/ Crash
  <2>1. CASE Begin
    BY <2>1 DEF Begin, disk
  <2>2. CASE RollbackDone
    BY <2>2 DEF RollbackDone, Leave
  <2>3. CASE Refuse \/ GameEnds \/ Crash
    BY <2>3 DEF Refuse, GameEnds, Crash, Leave, disk
  <2> QED  BY <1>2, <2>1, <2>2, <2>3
<1>3. CASE UndoLast
  BY <1>3 DEF UndoLast, Undone, Undoing
<1>4. CASE MarkRecovered
  BY <1>4 DEF MarkRecovered, process
<1>5. CASE SetRecoveredAside
  <2>1. pc = "recover" /\ manifest' = "none" /\ journal' = <<>> /\ pc' = "preflight" /\ UNCHANGED <<fresh, actions>>
    BY <1>5 DEF SetRecoveredAside
  <2>2. actions = <<>>
    BY <2>1
  <2> QED  BY <2>1, <2>2
<1>6. CASE OpenTransaction
  BY <1>6 DEF OpenTransaction
<1>7. CASE ItemInPlace \/ AttachLink
  BY <1>7 DEF ItemInPlace, AttachLink, Attached, Journal, NextItem
<1>8. CASE ItemRefused \/ MoveFails \/ AttachFails
  BY <1>8 DEF ItemRefused, MoveFails, AttachFails, Rollback
<1>9. CASE AnnounceMove \/ Move \/ MakeShared
  BY <1>9 DEF AnnounceMove, Move, MakeShared, Journal, HasData
<1>10. CASE MakeMountpoint \/ AnnounceMount \/ Mount
  BY <1>10 DEF MakeMountpoint, AnnounceMount, Mount
<1>11. CASE Commit \/ GameWrites \/ PlayerAdds \/ PlayerClears \/ Reboot
  BY <1>11 DEF Commit, GameWrites, PlayerAdds, PlayerClears, Reboot, process
<1> QED  BY <1>1, <1>2, <1>3, <1>4, <1>5, <1>6, <1>7, <1>8, <1>9, <1>10, <1>11
         DEF Next, Recovery, Forward, Around

LEMMA InMemoryStep ==
    ASSUME Undoable, [Next]_vars
    PROVE  InMemory'
<1> SUFFICES ASSUME fresh', pc' # "playing"
             PROVE  /\ InOrder(Pending)' /\ Reached(Pending)'
                    /\ pc' = "move" => ~Has(Pending, "move", at)'
                    /\ \A i \in Items : Done(Pending, i)'
  BY DEF InMemory
<1> DEFINE Goal == /\ InOrder(Pending)' /\ Reached(Pending)'
                   /\ pc' = "move" => ~Has(Pending, "move", at)'
                   /\ \A i \in Items : Done(Pending, i)'
<1> Beginning /\ InMemory
  BY DEF Undoable, UndoInv
<1> USE UndoableFacts DEF Beginning
<1>0. Pending \in Seq(Line) /\ "source" \in Places /\ "shared" \in Places /\ "source" # "shared"
      /\ "dir" \in Kinds /\ "absent" \in Kinds /\ "link" \in Kinds
  BY DEF Pending, Places, Kinds
<1>a. ASSUME fresh, pc # "playing"
      PROVE  /\ InOrder(Pending) /\ Reached(Pending)
             /\ pc = "move" => ~Has(Pending, "move", at)
             /\ \A i \in Items : Done(Pending, i)
  BY <1>a DEF InMemory
<1>b. ASSUME fresh, pc # "playing", Pending' = Pending, files' = files, began' = began,
             \A i \in Items : /\ kind'[i]["source"] = kind[i]["source"]
                              /\ Has(Pending, "move", i) => kind'[i]["shared"] = kind[i]["shared"] \/ kind'[i]["shared"] = "dir"
      PROVE  InOrder(Pending)' /\ \A i \in Items : Done(Pending, i)'
  BY <1>a, <1>b DEF InOrder, Done, Has, Stayed, WasMoved
<1>1. CASE UNCHANGED vars
  BY <1>1, <1>a DEF vars, disk, process, history, Pending, InOrder, Reached, NewLine, Has, Done, Stayed, WasMoved
<1>2. CASE Begin \/ RollbackDone \/ Refuse \/ GameEnds \/ Crash
  BY <1>2 DEF Begin, RollbackDone, Refuse, GameEnds, Crash, Leave
<1>3. CASE MarkRecovered \/ SetRecoveredAside \/ PlayerAdds \/ PlayerClears \/ Reboot \/ GameWrites \/ Commit
  BY <1>3 DEF MarkRecovered, SetRecoveredAside, PlayerAdds, PlayerClears, Reboot, GameWrites, Commit, process
<1>4. CASE OpenTransaction
  <2>1. pc' = "item" /\ actions' = <<>> /\ files' = files /\ began' = files
    BY <1>4 DEF OpenTransaction
  <2>2. Pending' = <<>> /\ Len(<<>>) = 0
    BY <2>1 DEF Pending
  <2> HIDE DEF Pending
  <2>3. \A k \in 1 .. Len(Pending)' : FALSE
    BY <2>2
  <2> QED  BY <2>1, <2>2, <2>3 DEF InOrder, Reached, Has, Done, Stayed
<1>5. CASE ItemInPlace
  <2>1. /\ pc = "item" /\ at \in Items /\ at' = at + 1 /\ pc' \in {"item", "commit"} /\ Pending' = Pending
        /\ files' = files /\ began' = began /\ fresh
    BY <1>5 DEF ItemInPlace, history, Pending, NextItem, AtItem
  <2>2. \A i \in Items : /\ kind'[i]["source"] = kind[i]["source"]
                         /\ kind'[i]["shared"] = kind[i]["shared"] \/ kind'[i]["shared"] = "dir"
    BY <1>0, <1>5, <2>1, SetKindOthers DEF ItemInPlace
  <2>3. Reached(Pending)'
    <3>1. \A k \in 1 .. Len(Pending) : Pending[k].item < at
      BY <1>a, <2>1 DEF Reached
    <3>2. \A k \in 1 .. Len(Pending) : Pending[k].item \in Int
      <4>1. \A k \in 1 .. Len(Pending) : Pending[k] \in Line
        BY <1>0, ElementOfSeq
      <4> QED  BY <4>1 DEF Line, Items
    <3> QED  BY <2>1, <3>1, <3>2 DEF Reached, Items
  <2> QED  BY <1>b, <2>1, <2>2, <2>3
<1>6. CASE ItemRefused \/ MoveFails \/ AttachFails
  <2>1. pc' = "rollback" /\ Pending' = Pending /\ files' = files /\ began' = began /\ fresh /\ kind' = kind
        /\ pc # "playing"
    BY <1>6 DEF ItemRefused, MoveFails, AttachFails, Rollback, history, Pending
  <2> QED  BY <1>b, <2>1 DEF Reached
<1>7. CASE AnnounceMove
  <2>1. /\ pc = "item" /\ at \in Items /\ at' = at /\ pc' = "move" /\ Pending' = Pending
        /\ files' = files /\ began' = began /\ fresh /\ SetKind(at, "shared", "absent")
    BY <1>7 DEF AnnounceMove, history, Pending, AtItem
  <2>2. \A k \in 1 .. Len(Pending) : Pending[k].item < at
    BY <1>a, <2>1 DEF Reached
  <2>3. ~Has(Pending, "move", at)
    BY <2>1, <2>2 DEF Has, Items
  <2>4. \A i \in Items : /\ kind'[i]["source"] = kind[i]["source"]
                         /\ i # at => kind'[i]["shared"] = kind[i]["shared"]
    BY <1>0, <2>1, SetKindOthers
  <2>5. Reached(Pending)'
    BY <2>1, <2>2 DEF Reached
  <2>6. ~Has(Pending, "move", at)'
    BY <2>1, <2>3 DEF Has
  <2> QED  BY <1>b, <2>1, <2>3, <2>4, <2>5, <2>6
<1>c. ASSUME at \in Items, NEW act \in {"move", "mkdir", "link"}, InOrder(actions), ~Has(actions, act, at),
             act = "move" => ~Has(actions, "link", at),
             actions' = Append(actions, NewLine(act)) \/ actions' = actions \o <<NewLine(act)>>
      PROVE  /\ InOrder(actions)'
             /\ \A a \in {"move", "mkdir", "link", "bind"}, i \in Items :
                   Has(actions, a, i)' <=> Has(actions, a, i) \/ (a = act /\ i = at)
             /\ Len(actions') = Len(actions) + 1 /\ Len(actions) \in Nat
             /\ \A k \in 1 .. Len(actions') : (k \in 1 .. Len(actions) /\ actions'[k] = actions[k]) \/ actions'[k] = NewLine(act)
  <2> DEFINE l == NewLine(act)
  <2>1. l \in Line /\ l.act = act /\ l.item = at
    BY <1>c DEF NewLine, Line
  <2>2. l = [act |-> act, item |-> at]
    BY DEF NewLine
  <2> DEFINE t == actions'
  <2>3. t = Append(actions, l) \/ t = actions \o <<l>>
    BY <1>c
  <2> HIDE DEF l, t
  <2>4. /\ InOrder(t)
        /\ \A a \in {"move", "mkdir", "link", "bind"}, i \in Items :
              Has(t, a, i) <=> Has(actions, a, i) \/ l = [act |-> a, item |-> i]
    <3>1. actions \in Seq(Line) /\ InOrder(actions) /\ l.act # "bind" /\ ~Has(actions, l.act, l.item)
          /\ (l.act = "move" => ~Has(actions, "link", l.item))
      BY <1>c, <2>1
    <3> HIDE UndoableFacts DEF Beginning
    <3> QED  BY <2>1, <2>3, <3>1, AddInOrder
  <2>5. /\ Len(t) = Len(actions) + 1 /\ Len(actions) \in Nat
        /\ \A k \in 1 .. Len(t) : (k \in 1 .. Len(actions) /\ t[k] = actions[k]) \/ t[k] = l
    BY <2>1, <2>3, AddLine
  <2>6. \A a \in {"move", "mkdir", "link", "bind"}, i \in Items :
              Has(t, a, i) <=> Has(actions, a, i) \/ (a = act /\ i = at)
    BY <2>2, <2>4
  <2>7. InOrder(actions)' <=> InOrder(t)
    BY DEF t, InOrder
  <2>8. \A a, i : Has(actions, a, i)' <=> Has(t, a, i)
    BY DEF t, Has
  <2> QED  BY <2>4, <2>5, <2>6, <2>7, <2>8 DEF t, l
<1>8. CASE Move
  <2>1. /\ pc = "move" /\ pc' = "attach" /\ at \in Items /\ at' = at /\ fresh /\ began' = began
        /\ actions' = Append(actions, NewLine("move")) /\ MoveDone(at, "source", "shared")
    BY <1>8 DEF Move, history, AtItem
  <2>2. Pending = actions /\ Pending' = actions'
    BY <2>1 DEF Pending
  <2>3. InOrder(actions) /\ Reached(actions) /\ ~Has(actions, "move", at) /\ \A i \in Items : Done(actions, i)
    BY <1>a, <2>1, <2>2
  <2>4. \A k \in 1 .. Len(actions) : actions[k].item < at
    BY <2>1, <2>3 DEF Reached, Has, NewLine
  <2>5. ~Has(actions, "link", at)
    BY <2>1, <2>4 DEF Has, Items
  <2>6. /\ InOrder(actions)'
        /\ \A a \in {"move", "mkdir", "link", "bind"}, i \in Items :
                   Has(actions, a, i)' <=> Has(actions, a, i) \/ (a = "move" /\ i = at)
        /\ \A k \in 1 .. Len(actions') : (k \in 1 .. Len(actions) /\ actions'[k] = actions[k]) \/ actions'[k] = NewLine("move")
    BY <1>c, <2>1, <2>3, <2>5
  <2>7. /\ kind'[at]["shared"] = "dir" /\ kind'[at]["source"] = "absent"
        /\ files'[at]["shared"] = files[at]["source"] /\ files'[at]["source"] = {}
        /\ \A j \in Items \ {at} : kind'[j] = kind[j] /\ files'[j] = files[j]
    BY <1>0, <2>1, RenameOnly
  <2>8. files[at] = began[at] /\ files[at]["source"] # {} /\ files[at]["shared"] = {}
    BY <2>1, <2>3 DEF Done, Stayed, Undoable, IInv, TargetIsEmpty
  <2>9. ASSUME NEW i \in Items PROVE Done(actions, i)'
    BY <2>1, <2>3, <2>5, <2>6, <2>7, <2>8 DEF Done, Stayed, WasMoved
  <2>10. Reached(actions)'
    BY <2>1, <2>4, <2>6 DEF Reached, NewLine
  <2>11. InOrder(Pending)' /\ Reached(Pending)' /\ \A i \in Items : Done(Pending, i)'
    BY <2>2, <2>6, <2>9, <2>10, InHandIsActions
  <2> QED  BY <2>1, <2>11
<1>9. CASE MakeShared
  <2>1. /\ pc = "item" /\ pc' = "attach" /\ at \in Items /\ at' = at /\ fresh /\ began' = began /\ files' = files
        /\ kind' = [kind EXCEPT ![at] = [source |-> "absent", shared |-> "dir"]]
        /\ actions' = actions \/ actions' = actions \o <<NewLine("mkdir")>>
    BY <1>9 DEF MakeShared, history, AtItem
  <2>2. Pending = actions /\ Pending' = actions'
    BY <2>1 DEF Pending
  <2>3. InOrder(actions) /\ Reached(actions) /\ \A i \in Items : Done(actions, i)
    BY <1>a, <2>1, <2>2
  <2>4. \A k \in 1 .. Len(actions) : actions[k].item < at
    BY <2>1, <2>3 DEF Reached
  <2>5. \A a : ~Has(actions, a, at)
    BY <2>1, <2>4 DEF Has, Items
  <2>6. \A j \in Items \ {at} : kind'[j] = kind[j]
    BY <2>1 DEF KindType
  <2>7. /\ InOrder(actions)' /\ Reached(actions)'
        /\ \A a \in {"move", "link"}, i \in Items : Has(actions, a, i)' <=> Has(actions, a, i)
    <3>1. CASE actions' = actions
      BY <2>1, <2>3, <2>4, <3>1 DEF InOrder, Reached, Has
    <3>2. CASE actions' = actions \o <<NewLine("mkdir")>>
      <4>1. /\ InOrder(actions)'
            /\ \A a \in {"move", "mkdir", "link", "bind"}, i \in Items :
                   Has(actions, a, i)' <=> Has(actions, a, i) \/ (a = "mkdir" /\ i = at)
            /\ \A k \in 1 .. Len(actions') : (k \in 1 .. Len(actions) /\ actions'[k] = actions[k]) \/ actions'[k] = NewLine("mkdir")
        BY <1>c, <2>1, <2>3, <2>5, <3>2
      <4> QED  BY <2>1, <2>4, <4>1 DEF Reached, NewLine
    <3> QED  BY <2>1, <3>1, <3>2
  <2>8. ASSUME NEW i \in Items PROVE Done(actions, i)'
    BY <2>1, <2>3, <2>5, <2>6, <2>7 DEF Done, Stayed, WasMoved
  <2>9. InOrder(Pending)' /\ Reached(Pending)' /\ \A i \in Items : Done(Pending, i)'
    BY <2>2, <2>7, <2>8, InHandIsActions
  <2> QED  BY <2>1, <2>9
<1>10. CASE AttachLink
  <2>1. /\ pc = "attach" /\ pc' \in {"item", "commit"} /\ at \in Items /\ at' = at + 1 /\ fresh /\ began' = began
        /\ files' = files /\ SetKind(at, "source", "link") /\ actions' = Append(actions, NewLine("link"))
    BY <1>10 DEF AttachLink, Attached, history, AtItem, NextItem
  <2>2. Pending = actions /\ Pending' = actions'
    BY <2>1 DEF Pending
  <2>3. InOrder(actions) /\ Reached(actions) /\ \A i \in Items : Done(actions, i)
    BY <1>a, <2>1, <2>2
  <2>4. \A k \in 1 .. Len(actions) : actions[k].item < at \/ (actions[k].item = at /\ actions[k].act # "link")
    BY <2>1, <2>3 DEF Reached
  <2>5. ~Has(actions, "link", at)
    BY <2>1, <2>4 DEF Has, Items
  <2>6. /\ InOrder(actions)'
        /\ \A a \in {"move", "mkdir", "link", "bind"}, i \in Items :
                   Has(actions, a, i)' <=> Has(actions, a, i) \/ (a = "link" /\ i = at)
        /\ \A k \in 1 .. Len(actions') : (k \in 1 .. Len(actions) /\ actions'[k] = actions[k]) \/ actions'[k] = NewLine("link")
    BY <1>c, <2>1, <2>3, <2>5
  <2>7. /\ kind'[at]["source"] = "link" /\ kind'[at]["shared"] = kind[at]["shared"]
        /\ \A j \in Items \ {at} : kind'[j] = kind[j]
    BY <1>0, <2>1, SetKindOthers
  <2>8. ASSUME NEW i \in Items PROVE Done(actions, i)'
    BY <2>1, <2>3, <2>6, <2>7 DEF Done, Stayed, WasMoved
  <2>9. Reached(actions)'
    <3>1. \A k \in 1 .. Len(actions) : actions[k].item < at + 1
      <4>1. \A k \in 1 .. Len(actions) : actions[k] \in Line
        BY ElementOfSeq
      <4>2. at \in Int /\ \A k \in 1 .. Len(actions) : actions[k].item \in Int
        BY <2>1, <4>1 DEF Line, Items
      <4> QED  BY <2>4, <4>2
    <3>2. NewLine("link").item < at + 1
      BY <2>1 DEF NewLine, Items
    <3>3. \A k \in 1 .. Len(actions') : actions'[k].item < at'
      BY <2>1, <2>6, <3>1, <3>2
    <3> QED  BY <2>1, <3>3 DEF Reached
  <2>10. InOrder(Pending)' /\ Reached(Pending)' /\ \A i \in Items : Done(Pending, i)'
    BY <2>2, <2>6, <2>8, <2>9, InHandIsActions
  <2> QED  BY <2>1, <2>10
<1>11. CASE MakeMountpoint \/ AnnounceMount \/ Mount
  BY <1>11 DEF MakeMountpoint, AnnounceMount, Mount
<1>12. CASE UndoLast
  <2>1. pc = "rollback" /\ pc' = pc /\ began' = began /\ fresh /\ Pending = undo /\ Pending' = undo'
    BY <1>12 DEF UndoLast, Undone, Undoing, history, Pending
  <2>2. InOrder(undo) /\ \A i \in Items : Done(undo, i)
    BY <1>a, <2>1
  <2>3. undo # <<>> /\ undo' = Front(undo)
    BY <1>12 DEF UndoLast, Undone, Undoing
  <2>4. PICK i \in Items, act \in {"move", "mkdir", "link", "bind"} : Last(undo) = [act |-> act, item |-> i]
    BY <2>3, FrontLines DEF Line
  <2>5. /\ InOrder(Front(undo))
        /\ ~Has(Front(undo), act, i) /\ Has(undo, act, i)
        /\ \A a \in {"move", "mkdir", "link", "bind"}, j \in Items :
                 (a # act \/ j # i) => (Has(Front(undo), a, j) <=> Has(undo, a, j))
        /\ act = "move" => ~Has(undo, "link", i)
        /\ act # "bind"
    BY <2>2, <2>3, <2>4, FrontInOrder
  <2>6. /\ \A j \in Items \ {i} : kind'[j] = kind[j] /\ files'[j] = files[j]
        /\ kind' \in KindType /\ files' \in FilesType
        /\ act = "link" => /\ files' = files /\ kind'[i]["shared"] = kind[i]["shared"]
                           /\ kind'[i]["source"] = IF kind[i]["source"] \in {"link", "alien"} THEN "absent" ELSE kind[i]["source"]
        /\ act = "mkdir" => /\ files' = files /\ kind'[i]["source"] = kind[i]["source"]
                            /\ files[i]["shared"] # {} => kind'[i]["shared"] = kind[i]["shared"]
        /\ act = "move" => IF CanMoveBack(i)
                           THEN /\ kind'[i]["source"] = "dir" /\ kind'[i]["shared"] = "absent"
                                /\ files'[i]["source"] = files[i]["shared"] /\ files'[i]["shared"] = {}
                           ELSE kind'[i] = kind[i] /\ files'[i] = files[i]
    BY <1>12, <2>4, <2>5, UndoEffect
  <2>7. \A a, j : Has(undo, a, j)' <=> Has(Front(undo), a, j)
    BY <2>3 DEF Has
  <2>8. ASSUME NEW j \in Items \ {i} PROVE Done(undo, j)'
    <3>1. Done(undo, j)
      BY <2>2
    <3>2. kind'[j] = kind[j] /\ files'[j] = files[j]
      BY <2>6
    <3>3. Stayed(j)' <=> Stayed(j)
      BY <2>1, <3>2 DEF Stayed
    <3>4. WasMoved(j)' <=> WasMoved(j)
      BY <2>1, <3>2 DEF WasMoved
    <3> QED  BY <2>7, <2>5, <3>1, <3>2, <3>3, <3>4 DEF Done
  <2>9. Done(undo, i)'
    <3>1. Done(undo, i)
      BY <2>2
    <3>2. CASE act = "move"
      <4>1. WasMoved(i) /\ kind[i]["source"] = "absent"
        BY <2>5, <3>1, <3>2 DEF Done
      <4>2. CanMoveBack(i)
        BY <4>1 DEF CanMoveBack, WasMoved
      <4>3. files'[i]["source"] = began[i]["source"] /\ files'[i]["shared"] = began[i]["shared"]
        BY <2>6, <3>2, <4>1, <4>2 DEF WasMoved
      <4>4. files'[i] = began[i]
        BY <2>6, <4>3, UndoableFacts, BothPlaces
      <4> QED  BY <2>1, <2>3, <2>5, <3>2, <4>4 DEF Done, Has, Stayed
    <3>3. CASE act \in {"mkdir", "link"}
      <4>1. files' = files /\ began' = began
        BY <2>1, <2>6, <3>3
      <4>2. (Has(undo, "move", i)' <=> Has(undo, "move", i)) /\ (act = "mkdir" => (Has(undo, "link", i)' <=> Has(undo, "link", i)))
            /\ (act = "link" => Has(undo, "link", i) /\ ~Has(undo, "link", i)')
        BY <2>5, <2>7, <3>3
      <4>3. CASE ~Has(undo, "move", i)
        BY <3>1, <4>1, <4>2, <4>3 DEF Done, Stayed
      <4>4. CASE Has(undo, "move", i)
        <5>1. WasMoved(i) /\ kind[i]["source"] = IF Has(undo, "link", i) THEN "link" ELSE "absent"
          BY <3>1, <4>4 DEF Done
        <5>2. files[i]["shared"] # {} /\ kind'[i]["shared"] = kind[i]["shared"]
          BY <2>6, <3>3, <5>1 DEF WasMoved
        <5>3. WasMoved(i)'
          BY <4>1, <5>1, <5>2 DEF WasMoved
        <5>4. kind'[i]["source"] = IF Has(undo, "link", i)' THEN "link" ELSE "absent"
          BY <2>6, <3>3, <4>2, <5>1
        <5> QED  BY <4>2, <4>4, <5>3, <5>4 DEF Done
      <4> QED  BY <4>3, <4>4
    <3> QED  BY <2>5, <3>2, <3>3
  <2>10. InOrder(undo)' /\ Reached(undo)'
    BY <2>1, <2>3, <2>5 DEF InOrder, Reached
  <2>11. InOrder(Pending)' /\ Reached(Pending)' /\ \A j \in Items : Done(Pending, j)'
    BY <2>1, <2>8, <2>9, <2>10 DEF InOrder, Reached, Done, Has
  <2> QED  BY <2>1, <2>11
<1> QED  BY <1>1, <1>2, <1>3, <1>4, <1>5, <1>6, <1>7, <1>8, <1>9, <1>10, <1>11, <1>12
         DEF Next, Recovery, Forward, Around

LEMMA LineItems == (\A s \in Seq(Line) : \A k \in 1 .. Len(s) : s[k].item \in Int) /\ Items \subseteq Int
<1>1. Items \subseteq Int
  BY DEF Items
<1>2. \A l \in Line : l.item \in Items
  BY DEF Line
<1>3. \A s \in Seq(Line) : \A k \in 1 .. Len(s) : s[k] \in Line
  BY ElementOfSeq
<1> QED  BY <1>1, <1>2, <1>3

(* A line of the item being handled, added to a list. *)
LEMMA LineOfItem ==
    ASSUME at \in Items, NEW s \in Seq(Line), NEW act \in {"move", "mkdir", "link"}, NEW l, l = NewLine(act),
           InOrder(s), ~Has(s, act, at), act = "move" => ~Has(s, "link", at), NEW t, t = Append(s, l) \/ t = s \o <<l>>
    PROVE  /\ InOrder(t)
           /\ \A a \in {"move", "mkdir", "link", "bind"}, i \in Items : Has(t, a, i) <=> Has(s, a, i) \/ (a = act /\ i = at)
           /\ \A k \in 1 .. Len(t) : (k \in 1 .. Len(s) /\ t[k] = s[k]) \/ t[k] = l
<1>1. l = [act |-> act, item |-> at] /\ l \in Line
  BY DEF NewLine, Line
<1>2. l.act = act /\ l.item = at
  BY <1>1
<1>3. l.act # "bind" /\ ~Has(s, l.act, l.item) /\ (l.act = "move" => ~Has(s, "link", l.item))
  BY <1>2
<1>4. /\ InOrder(t)
      /\ \A a \in {"move", "mkdir", "link", "bind"}, i \in Items : Has(t, a, i) <=> Has(s, a, i) \/ l = [act |-> a, item |-> i]
  <2>1. l \in Line
    BY <1>1
  <2> QED  BY <1>3, <2>1, AddInOrder
<1>5. \A a \in {"move", "mkdir", "link", "bind"}, i \in Items : Has(t, a, i) <=> Has(s, a, i) \/ (a = act /\ i = at)
  <2>1. \A a, i : l = [act |-> a, item |-> i] <=> (a = act /\ i = at)
    BY <1>1
  <2> QED  BY <1>4, <2>1
<1>6. \A k \in 1 .. Len(t) : (k \in 1 .. Len(s) /\ t[k] = s[k]) \/ t[k] = l
  BY <1>1, AddLine
<1> QED  BY <1>4, <1>5, <1>6

(* Recovery puts an item back, or finds that it never left.                *)
LEMMA RecoveryRestores ==
    ASSUME Undoable, UndoLast, pc = "recover",
           NEW i \in Items \ added, Last(undo) = [act |-> "move", item |-> i]
    PROVE  files'[i] = began[i] /\ began[i]["source"] # {} /\ began[i]["shared"] = {}
<1> OnDisk /\ Recovering
  BY DEF Undoable, UndoInv
<1> USE UndoableFacts
<1>1. InOrder(journal) /\ Announced(i)
  BY DEF OnDisk
<1>2. undo # <<>> /\ Len(undo) \in Nat \ {0} /\ Last(undo) = undo[Len(undo)] /\ Len(journal) \in Nat
  BY FrontLines DEF UndoLast, Undone, Undoing
<1>3. Len(undo) <= Len(journal) /\ journal[Len(undo)] = [act |-> "move", item |-> i]
  BY <1>2 DEF Recovering
<1>4. Len(undo) \in 1 .. Len(journal)
  BY <1>2, <1>3
<1>5. Has(journal, "move", i)
  BY <1>3, <1>4 DEF Has
<1>6. began[i]["source"] # {} /\ began[i]["shared"] = {}
  BY <1>1, <1>5 DEF Announced
<1>7. IF CanMoveBack(i)
      THEN /\ kind'[i]["source"] = "dir" /\ kind'[i]["shared"] = "absent"
           /\ files'[i]["source"] = files[i]["shared"] /\ files'[i]["shared"] = {}
      ELSE kind'[i] = kind[i] /\ files'[i] = files[i]
  BY UndoEffect
<1>8. files' \in FilesType
  BY UndoEffect
<1>9. CASE Stayed(i)
  <2>1. files[i]["source"] # {}
    BY <1>6, <1>9 DEF Stayed
  <2>2. kind[i]["source"] = "dir"
    BY <2>1 DEF OnlyDirsHoldFiles, Places
  <2>3. ~CanMoveBack(i)
    BY <2>2 DEF CanMoveBack
  <2> QED  BY <1>6, <1>7, <1>9, <2>3 DEF Stayed
<1>10. CASE ~Stayed(i)
  <2>1. WasMoved(i) /\ kind[i]["source"] \in {"absent", "link"} /\ (kind[i]["source"] = "link" => Has(journal, "link", i))
    BY <1>1, <1>5, <1>10 DEF Announced
  <2>2. kind[i]["source"] # "link"
    <3> SUFFICES ASSUME kind[i]["source"] = "link" PROVE FALSE
      OBVIOUS
    <3>1. PICK k \in 1 .. Len(journal) : journal[k] = [act |-> "link", item |-> i]
      BY <2>1 DEF Has
    <3>2. Len(undo) < k
      BY <1>1, <1>3, <1>4, <3>1 DEF InOrder
    <3>3. k \in Len(undo) + 1 .. Len(journal)
      BY <1>2, <3>1, <3>2
    <3> QED  BY <3>1, <3>3 DEF Recovering
  <2>3. CanMoveBack(i)
    BY <2>1, <2>2 DEF CanMoveBack, WasMoved
  <2>4. files'[i]["source"] = began[i]["source"] /\ files'[i]["shared"] = began[i]["shared"]
    BY <1>7, <2>1, <2>3 DEF WasMoved
  <2>5. files'[i] = began[i]
    BY <1>8, <2>4, UndoableFacts, BothPlaces
  <2> QED  BY <1>6, <2>5
<1> QED  BY <1>9, <1>10

(* What a step of the undo leaves announced. *)
LEMMA UndoAnnounced ==
    ASSUME Undoable, UndoLast, manifest = "migrating" \/ pc = "recover", NEW i \in Items \ added
    PROVE  Announced(i)'
<1> OnDisk /\ InMemory /\ Beginning
  BY DEF Undoable, UndoInv
<1> USE UndoableFacts
<1>1. undo # <<>> /\ began' = began /\ journal' = journal /\ pc \in {"recover", "rollback"}
  BY DEF UndoLast, Undone, Undoing, history
<1>2. Announced(i)
  BY DEF OnDisk
<1>3. PICK j \in Items, act \in {"move", "mkdir", "link", "bind"} : Last(undo) = [act |-> act, item |-> j]
  BY <1>1, FrontLines DEF Line
<1>4. CASE pc = "recover" /\ act = "bind"
  <2>1. undo[Len(undo)].act = "bind" /\ Len(undo) \in Nat \ {0} /\ Len(journal) \in Nat
    BY <1>1, <1>3, <1>4, FrontLines
  <2>2. Len(undo) \in 1 .. Len(journal) /\ undo[Len(undo)] = journal[Len(undo)]
    BY <1>4, <2>1 DEF Undoable, UndoInv, Recovering
  <2> QED  BY <1>4, <2>1, <2>2 DEF OnDisk, InOrder
<1>5. ASSUME pc = "rollback" PROVE InOrder(undo) /\ Done(undo, j)
  BY <1>1, <1>5 DEF OnDisk, InMemory, Pending
<1>6. CASE act # "bind"
  <2>1. /\ \A k \in Items \ {j} : kind'[k] = kind[k] /\ files'[k] = files[k]
        /\ kind' \in KindType /\ files' \in FilesType
        /\ act = "link" => /\ files' = files /\ kind'[j]["shared"] = kind[j]["shared"]
                           /\ kind'[j]["source"] = IF kind[j]["source"] \in {"link", "alien"} THEN "absent" ELSE kind[j]["source"]
        /\ act = "mkdir" => /\ files' = files /\ kind'[j]["source"] = kind[j]["source"]
                            /\ files[j]["shared"] # {} => kind'[j]["shared"] = kind[j]["shared"]
        /\ act = "move" => IF CanMoveBack(j)
                           THEN /\ kind'[j]["source"] = "dir" /\ kind'[j]["shared"] = "absent"
                                /\ files'[j]["source"] = files[j]["shared"] /\ files'[j]["shared"] = {}
                           ELSE kind'[j] = kind[j] /\ files'[j] = files[j]
    BY <1>3, <1>6, UndoEffect
  <2>2. CASE j # i
    <3>1. kind'[i] = kind[i] /\ files'[i] = files[i]
      BY <2>1, <2>2
    <3> QED  BY <1>1, <1>2, <3>1 DEF Announced, Has, Stayed, WasMoved
  <2>3. CASE j = i /\ act = "move"
    <3>1. files'[i] = began[i]
      <4>1. CASE pc = "recover"
        BY <1>3, <2>3, <4>1, RecoveryRestores
      <4>2. CASE pc = "rollback"
        <5>1. Has(undo, "move", i) /\ ~Has(undo, "link", i)
          BY <1>1, <1>3, <1>5, <2>3, <4>2, FrontInOrder
        <5>2. WasMoved(i) /\ kind[i]["source"] = "absent"
          BY <1>5, <2>3, <4>2, <5>1 DEF Done
        <5>3. CanMoveBack(i)
          BY <5>2 DEF CanMoveBack, WasMoved
        <5>4. files'[i]["source"] = began[i]["source"] /\ files'[i]["shared"] = began[i]["shared"]
          BY <2>1, <2>3, <5>2, <5>3 DEF WasMoved
        <5> QED  BY <2>1, <5>4 DEF FilesType, Places
      <4> QED  BY <1>1, <4>1, <4>2
    <3> QED  BY <1>1, <1>2, <3>1 DEF Announced, Has, Stayed
  <2>4. CASE j = i /\ act \in {"mkdir", "link"}
    <3>1. files' = files /\ kind'[i]["source"] \in {kind[i]["source"], "absent"}
          /\ (files[i]["shared"] # {} => kind'[i]["shared"] = kind[i]["shared"])
      BY <2>1, <2>4
    <3>2. Stayed(i) => Stayed(i)'
      BY <1>1, <3>1 DEF Stayed
    <3>3. WasMoved(i) => WasMoved(i)'
      BY <1>1, <3>1 DEF WasMoved
    <3> QED  BY <1>1, <1>2, <3>1, <3>2, <3>3 DEF Announced, Has
  <2> QED  BY <1>6, <2>2, <2>3, <2>4
<1>7. CASE pc = "rollback" /\ act = "bind"
  BY <1>1, <1>3, <1>5, <1>7, FrontInOrder
<1> QED  BY <1>1, <1>4, <1>6, <1>7

LEMMA OnDiskStep ==
    ASSUME Undoable, [Next]_vars
    PROVE  OnDisk'
<1> SUFFICES ASSUME manifest' = "migrating" \/ pc' = "recover"
             PROVE  /\ pc' \in {"off", "recover"} \/ fresh'
                    /\ pc' # "playing"
                    /\ InOrder(journal)' /\ Reached(journal)'
                    /\ pc' = "move" => Has(journal, "move", at)'
                    /\ \A i \in Items \ added' : Announced(i)'
  BY DEF OnDisk
<1> Beginning /\ InMemory /\ OnDisk
  BY DEF Undoable, UndoInv
<1> USE UndoableFacts DEF Beginning
<1>0. "source" \in Places /\ "shared" \in Places /\ "source" # "shared"
      /\ "dir" \in Kinds /\ "absent" \in Kinds /\ "link" \in Kinds
  BY DEF Places, Kinds
<1>a. ASSUME manifest = "migrating" \/ pc = "recover"
      PROVE  /\ pc \in {"off", "recover"} \/ fresh
             /\ pc # "playing"
             /\ InOrder(journal) /\ Reached(journal)
             /\ pc = "move" => Has(journal, "move", at)
             /\ \A i \in Items \ added : Announced(i)
  BY <1>a DEF OnDisk
<1>b. ASSUME manifest = "migrating" \/ pc = "recover", journal' = journal, began' = began,
             \A i \in Items \ added' : /\ i \notin added /\ files'[i] = files[i]
                                       /\ kind[i]["shared"] = "dir" => kind'[i]["shared"] = "dir"
                                       /\ kind'[i]["source"] \in {kind[i]["source"], "absent"} \/ kind[i]["source"] = "bind"
      PROVE  InOrder(journal)' /\ \A i \in Items \ added' : Announced(i)'
  <2>1. InOrder(journal)'
    BY <1>a, <1>b DEF InOrder
  <2> SUFFICES ASSUME NEW i \in Items \ added' PROVE Announced(i)'
    BY <2>1
  <2>2. Announced(i)
    BY <1>a, <1>b
  <2>3. Stayed(i) => Stayed(i)'
    BY <1>b DEF Stayed
  <2>4. WasMoved(i) => WasMoved(i)'
    BY <1>b DEF WasMoved
  <2>5. \A a : Has(journal, a, i)' <=> Has(journal, a, i)
    BY <1>b DEF Has
  <2> QED  BY <1>b, <2>2, <2>3, <2>4, <2>5 DEF Announced
<1>1. CASE UNCHANGED vars
  BY <1>1, <1>a DEF vars, disk, process, history, InOrder, Reached, NewLine, Has, Announced, Stayed, WasMoved
<1>2. CASE Begin \/ MarkRecovered
  <2>1. /\ manifest = "migrating" \/ pc = "recover"
        /\ pc' = "recover" /\ journal' = journal /\ began' = began /\ files' = files /\ kind' = kind /\ added' = added
    BY <1>2 DEF Begin, MarkRecovered, disk, process, history
  <2> QED  BY <1>b, <2>1 DEF Reached
<1>3. CASE SetRecoveredAside \/ RollbackDone \/ Refuse \/ ItemRefused \/ Commit \/ GameWrites \/ GameEnds
  <2>1. CASE SetRecoveredAside \/ Refuse
    BY <1>a, <2>1 DEF SetRecoveredAside, Refuse, Leave, disk
  <2>2. CASE ItemRefused
    <3>1. manifest' # "migrating" /\ pc' = "rollback"
      BY <1>a, <2>2 DEF ItemRefused, Rollback
    <3> QED  BY <3>1
  <2>3. CASE Commit
    <3>1. manifest' # "migrating" /\ pc' = "playing"
      BY <1>a, <2>3 DEF Commit
    <3> QED  BY <3>1
  <2>4. CASE RollbackDone
    BY <1>a, <2>4 DEF RollbackDone, Leave
  <2>5. CASE GameWrites \/ GameEnds
    BY <1>a, <2>5 DEF GameWrites, GameEnds, Leave, process
  <2> QED  BY <1>3, <2>1, <2>2, <2>3, <2>4, <2>5
<1>4. CASE OpenTransaction
  <2>1. pc' = "item" /\ journal' = <<>> /\ fresh' /\ files' = files /\ began' = files
    BY <1>4, <1>a DEF OpenTransaction
  <2>2. \A k \in 1 .. Len(journal)' : FALSE
    BY <2>1
  <2> QED  BY <2>1, <2>2 DEF InOrder, Reached, Has, Announced, Stayed
<1>5. CASE UndoLast
  <2>1. /\ manifest = "migrating" \/ pc = "recover"
        /\ pc' = pc /\ journal' = journal /\ added' = added /\ fresh' = fresh /\ pc \in {"recover", "rollback"}
    BY <1>5 DEF UndoLast, Undone, Undoing, history
  <2>2. InOrder(journal)' /\ Reached(journal)'
    BY <1>a, <2>1 DEF InOrder, Reached
  <2>3. \A i \in Items \ added' : Announced(i)'
    BY <1>5, <2>1, UndoAnnounced
  <2> QED  BY <1>a, <2>1, <2>2, <2>3
<1>6. CASE ItemInPlace
  <2>1. /\ pc = "item" /\ at \in Items /\ at' = at + 1 /\ pc' \in {"item", "commit"} /\ journal' = journal
        /\ files' = files /\ began' = began /\ added' = added /\ fresh' = fresh /\ manifest = "migrating"
    BY <1>6 DEF ItemInPlace, history, NextItem, AtItem
  <2>2. \A i \in Items : /\ kind'[i]["source"] = kind[i]["source"]
                         /\ kind'[i]["shared"] = kind[i]["shared"] \/ kind'[i]["shared"] = "dir"
    BY <1>0, <1>6, <2>1, SetKindOthers DEF ItemInPlace
  <2>3. Reached(journal)'
    <3>1. \A k \in 1 .. Len(journal) : journal[k].item < at
      BY <1>a, <2>1 DEF Reached
    <3>2. at \in Int /\ \A k \in 1 .. Len(journal) : journal[k].item \in Int
      BY <2>1, LineItems
    <3> QED  BY <2>1, <3>1, <3>2 DEF Reached
  <2> QED  BY <1>a, <1>b, <2>1, <2>2, <2>3
<1>7. CASE MoveFails \/ AttachFails
  <2>1. /\ manifest = "migrating" /\ pc' = "rollback" /\ journal' = journal /\ began' = began /\ added' = added
        /\ files' = files /\ kind' = kind /\ fresh' = fresh /\ pc \notin {"off", "recover"}
    BY <1>7 DEF MoveFails, AttachFails, Rollback, history
  <2> QED  BY <1>a, <1>b, <2>1 DEF Reached
<1>8. CASE AnnounceMove
  <2>1. /\ pc = "item" /\ at \in Items /\ at' = at /\ pc' = "move" /\ manifest = "migrating"
        /\ files' = files /\ began' = began /\ added' = added /\ fresh' = fresh /\ SetKind(at, "shared", "absent")
        /\ HasData(at, "source") /\ ~Collides(at)
    BY <1>8 DEF AnnounceMove, history, AtItem
  <2>2. InOrder(journal) /\ (\A k \in 1 .. Len(journal) : journal[k].item < at) /\ fresh
    BY <1>a, <2>1 DEF Reached
  <2>3. \A a : ~Has(journal, a, at)
    BY <2>1, <2>2 DEF Has, Items
  <2> DEFINE l == NewLine("move") t == journal'
  <2>4. t = Append(journal, l) \/ t = journal \o <<l>>
    BY <1>8, <2>2 DEF AnnounceMove, Journal
  <2>5. l = NewLine("move")
    OBVIOUS
  <2> HIDE DEF l, t
  <2>6. /\ InOrder(t)
        /\ \A a \in {"move", "mkdir", "link", "bind"}, i \in Items : Has(t, a, i) <=> Has(journal, a, i) \/ (a = "move" /\ i = at)
        /\ \A k \in 1 .. Len(t) : (k \in 1 .. Len(journal) /\ t[k] = journal[k]) \/ t[k] = l
    <3>1. journal \in Seq(Line) /\ at \in Items /\ InOrder(journal) /\ ~Has(journal, "move", at) /\ ~Has(journal, "link", at)
      BY <2>1, <2>2, <2>3
    <3> HIDE UndoableFacts DEF Beginning
    <3> QED  BY <2>4, <2>5, <3>1, LineOfItem
  <2>7. /\ InOrder(journal)' /\ Reached(journal)' /\ Has(journal, "move", at)'
        /\ \A a \in {"move", "mkdir", "link", "bind"}, i \in Items : Has(journal, a, i)' <=> Has(journal, a, i) \/ (a = "move" /\ i = at)
    BY <2>1, <2>2, <2>5, <2>6 DEF t, InOrder, Reached, Has, NewLine
  <2>8. ASSUME NEW i \in Items \ added' PROVE Announced(i)'
    <3>1. Announced(i) /\ i \in Items
      BY <1>a, <2>1
    <3>2. CASE i # at
      <4>1. kind'[i] = kind[i] /\ files'[i] = files[i]
        BY <1>0, <2>1, <3>2, SetKindOthers
      <4>2. \A a \in {"move", "link"} : Has(journal, a, i)' <=> Has(journal, a, i)
        BY <2>7, <3>2
      <4> QED  BY <2>1, <3>1, <4>1, <4>2 DEF Announced, Stayed, WasMoved
    <3>3. CASE i = at
      <4>1. Stayed(at)
        BY <2>3, <3>1, <3>3 DEF Announced
      <4>2. files[at]["source"] # {} /\ files[at]["shared"] = {}
        BY <1>0, <2>1 DEF HasData, Collides, OnlyDirsHoldFiles
      <4> QED  BY <2>1, <2>7, <3>3, <4>1, <4>2 DEF Announced, Stayed
    <3> QED  BY <3>2, <3>3
  <2> QED  BY <2>1, <2>2, <2>7, <2>8
<1>9. CASE Move
  <2>1. /\ pc = "move" /\ pc' = "attach" /\ at \in Items /\ at' = at /\ began' = began /\ added' = added /\ fresh' = fresh
        /\ journal' = journal /\ manifest = "migrating" /\ MoveDone(at, "source", "shared")
    BY <1>9 DEF Move, history, AtItem
  <2>2. InOrder(journal) /\ Reached(journal) /\ Has(journal, "move", at) /\ fresh
    BY <1>a, <2>1
  <2>3. InOrder(journal)' /\ Reached(journal)'
    BY <2>1, <2>2 DEF InOrder, Reached, NewLine
  <2>4. /\ kind'[at]["shared"] = "dir" /\ kind'[at]["source"] = "absent"
        /\ files'[at]["shared"] = files[at]["source"] /\ files'[at]["source"] = {}
        /\ \A j \in Items \ {at} : kind'[j] = kind[j] /\ files'[j] = files[j]
    BY <1>0, <2>1, RenameOnly
  <2>5. ASSUME NEW i \in Items \ added' PROVE Announced(i)'
    <3>1. Announced(i)
      BY <1>a, <2>1
    <3>2. \A a, j : Has(journal, a, j)' <=> Has(journal, a, j)
      BY <2>1 DEF Has
    <3>3. CASE i # at
      <4>1. kind'[i] = kind[i] /\ files'[i] = files[i]
        BY <2>4, <3>3
      <4> QED  BY <2>1, <3>1, <3>2, <4>1 DEF Announced, Stayed, WasMoved
    <3>4. CASE i = at
      <4>1. began[at]["source"] # {} /\ began[at]["shared"] = {} /\ files[at]["source"] = began[at]["source"]
        BY <2>1, <2>2, <3>1, <3>4 DEF Announced, Stayed, WasMoved
      <4>2. WasMoved(at)'
        BY <2>1, <2>4, <4>1 DEF WasMoved
      <4> QED  BY <2>1, <2>2, <2>4, <3>2, <3>4, <4>1, <4>2 DEF Announced
    <3> QED  BY <3>3, <3>4
  <2> QED  BY <2>1, <2>2, <2>3, <2>5
<1>10. CASE MakeShared
  <2>1. /\ pc = "item" /\ pc' = "attach" /\ at \in Items /\ at' = at /\ began' = began /\ files' = files /\ added' = added
        /\ fresh' = fresh /\ manifest = "migrating"
        /\ kind' = [kind EXCEPT ![at] = [source |-> "absent", shared |-> "dir"]]
    BY <1>10 DEF MakeShared, history, AtItem
  <2>2. InOrder(journal) /\ (\A k \in 1 .. Len(journal) : journal[k].item < at) /\ fresh
    BY <1>a, <2>1 DEF Reached
  <2>3. \A a : ~Has(journal, a, at)
    BY <2>1, <2>2 DEF Has, Items
  <2>4. kind'[at]["source"] = "absent" /\ kind'[at]["shared"] = "dir" /\ \A j \in Items \ {at} : kind'[j] = kind[j]
    BY <2>1 DEF KindType
  <2> DEFINE l == NewLine("mkdir") t == journal'
  <2>5. t = journal \/ t = journal \o <<l>>
    BY <1>10, <2>2 DEF MakeShared, Journal
  <2>6. l = NewLine("mkdir")
    OBVIOUS
  <2> HIDE DEF l, t
  <2>7. /\ InOrder(t)
        /\ \A a \in {"move", "link"}, i \in Items : Has(t, a, i) <=> Has(journal, a, i)
        /\ \A k \in 1 .. Len(t) : (k \in 1 .. Len(journal) /\ t[k] = journal[k]) \/ t[k] = l
    <3>1. CASE t = journal
      BY <2>2, <3>1
    <3>2. CASE t = journal \o <<l>>
      <4>1. /\ InOrder(t)
            /\ \A a \in {"move", "mkdir", "link", "bind"}, i \in Items : Has(t, a, i) <=> Has(journal, a, i) \/ (a = "mkdir" /\ i = at)
            /\ \A k \in 1 .. Len(t) : (k \in 1 .. Len(journal) /\ t[k] = journal[k]) \/ t[k] = l
        <5>1. journal \in Seq(Line) /\ at \in Items /\ InOrder(journal) /\ ~Has(journal, "mkdir", at)
          BY <2>1, <2>2, <2>3
        <5> HIDE UndoableFacts DEF Beginning
        <5>2. "mkdir" \in {"move", "mkdir", "link"} /\ "mkdir" # "move" /\ (t = Append(journal, l) \/ t = journal \o <<l>>)
          BY <3>2
        <5> QED  BY <2>6, <5>1, <5>2, LineOfItem
      <4> QED  BY <4>1
    <3> QED  BY <2>5, <3>1, <3>2
  <2>8. /\ InOrder(journal)' /\ Reached(journal)'
        /\ \A a \in {"move", "link"}, i \in Items : Has(journal, a, i)' <=> Has(journal, a, i)
    <3>1. InOrder(journal)' /\ \A a \in {"move", "link"}, i \in Items : Has(journal, a, i)' <=> Has(journal, a, i)
      BY <2>7 DEF t, InOrder, Has
    <3>2. Reached(journal)'
      <4>1. l.item = at /\ l.act # "link"
        BY <2>6 DEF NewLine
      <4>2. \A k \in 1 .. Len(t) : t[k].item < at \/ (t[k].item = at /\ t[k].act # "link")
        BY <2>2, <2>7, <4>1
      <4> QED  BY <2>1, <4>2 DEF t, Reached
    <3> QED  BY <3>1, <3>2
  <2>9. ASSUME NEW i \in Items \ added' PROVE Announced(i)'
    <3>1. Announced(i) /\ i \in Items
      BY <1>a, <2>1
    <3>2. CASE i # at
      BY <2>1, <2>4, <2>8, <3>1, <3>2 DEF Announced, Stayed, WasMoved
    <3>3. CASE i = at
      BY <2>1, <2>3, <2>8, <3>1, <3>3 DEF Announced, Stayed
    <3> QED  BY <3>2, <3>3
  <2> QED  BY <2>1, <2>2, <2>8, <2>9
<1>11. CASE AttachLink
  <2>1. /\ pc = "attach" /\ pc' \in {"item", "commit"} /\ at \in Items /\ at' = at + 1 /\ began' = began /\ added' = added
        /\ fresh' = fresh /\ files' = files /\ manifest = "migrating" /\ SetKind(at, "source", "link")
    BY <1>11 DEF AttachLink, Attached, history, AtItem, NextItem
  <2>2. /\ InOrder(journal) /\ fresh
        /\ \A k \in 1 .. Len(journal) : journal[k].item < at \/ (journal[k].item = at /\ journal[k].act # "link")
    BY <1>a, <2>1 DEF Reached
  <2>3. ~Has(journal, "link", at)
    BY <2>1, <2>2 DEF Has, Items
  <2> DEFINE l == NewLine("link") t == journal'
  <2>4. t = Append(journal, l) \/ t = journal \o <<l>>
    BY <1>11, <2>2 DEF AttachLink, Journal
  <2>5. l = NewLine("link")
    OBVIOUS
  <2> HIDE DEF l, t
  <2>6. /\ InOrder(t)
        /\ \A a \in {"move", "mkdir", "link", "bind"}, i \in Items : Has(t, a, i) <=> Has(journal, a, i) \/ (a = "link" /\ i = at)
        /\ \A k \in 1 .. Len(t) : (k \in 1 .. Len(journal) /\ t[k] = journal[k]) \/ t[k] = l
    BY <2>1, <2>2, <2>3, <2>4, <2>5, LineOfItem
  <2>7. /\ InOrder(journal)'
        /\ \A a \in {"move", "mkdir", "link", "bind"}, i \in Items : Has(journal, a, i)' <=> Has(journal, a, i) \/ (a = "link" /\ i = at)
    BY <2>6 DEF t, InOrder, Has
  <2>8. Reached(journal)'
    <3>1. at \in Int /\ \A k \in 1 .. Len(journal) : journal[k].item \in Int
      BY <2>1, LineItems
    <3>2. \A k \in 1 .. Len(journal) : journal[k].item < at + 1
      BY <2>2, <3>1
    <3>3. l.item < at + 1
      BY <2>5, <3>1 DEF NewLine
    <3>4. \A k \in 1 .. Len(t) : t[k].item < at'
      BY <2>1, <2>6, <3>2, <3>3
    <3> QED  BY <2>1, <3>4 DEF Reached, t
  <2>9. kind'[at]["source"] = "link" /\ kind'[at]["shared"] = kind[at]["shared"] /\ \A j \in Items \ {at} : kind'[j] = kind[j]
    BY <1>0, <2>1, SetKindOthers
  <2>10. ASSUME NEW i \in Items \ added' PROVE Announced(i)'
    <3>1. Announced(i) /\ i \in Items
      BY <1>a, <2>1
    <3>2. CASE i # at
      <4>1. kind'[i] = kind[i] /\ files'[i] = files[i]
        BY <2>1, <2>9, <3>2
      <4>2. \A a \in {"move", "link"} : Has(journal, a, i)' <=> Has(journal, a, i)
        BY <2>7, <3>2
      <4> QED  BY <2>1, <3>1, <4>1, <4>2 DEF Announced, Stayed, WasMoved
    <3>3. CASE i = at
      <4>1. Has(journal, "link", i)' /\ (Has(journal, "move", i)' <=> Has(journal, "move", i))
        BY <2>7, <3>1, <3>3
      <4>2. (Stayed(i)' <=> Stayed(i)) /\ (WasMoved(i)' <=> WasMoved(i))
        BY <2>1, <2>9, <3>3 DEF Stayed, WasMoved
      <4>3. began'[i] = began[i] /\ kind'[i]["source"] = "link"
        BY <2>1, <2>9, <3>3
      <4> QED  BY <3>1, <4>1, <4>2, <4>3 DEF Announced
    <3> QED  BY <3>2, <3>3
  <2> QED  BY <2>1, <2>2, <2>7, <2>8, <2>10
<1>12. CASE MakeMountpoint \/ AnnounceMount \/ Mount
  BY <1>12 DEF MakeMountpoint, AnnounceMount, Mount
<1>13. CASE Crash \/ Reboot
  <2>1. /\ manifest = "migrating" /\ pc' = "off" /\ journal' = journal /\ began' = began /\ added' = added /\ files' = files
        /\ \/ kind' = kind
           \/ kind' = [i \in Items |-> [kind[i] EXCEPT !["source"] = IF @ = "bind" THEN "dir" ELSE @]]
    BY <1>13 DEF Crash, Reboot, Leave, process, history
  <2>2. \A i \in Items : /\ kind'[i]["shared"] = kind[i]["shared"]
                         /\ kind'[i]["source"] = kind[i]["source"] \/ kind[i]["source"] = "bind"
    BY <2>1, DropMountsFacts
  <2> QED  BY <1>b, <2>1, <2>2 DEF Reached
<1>14. CASE PlayerAdds
  <2>1. pc = "off" /\ pc' = "off" /\ manifest = "migrating" /\ journal' = journal /\ began' = began
    BY <1>14 DEF PlayerAdds, process
  <2>2. PICK i \in Items, p \in Places : /\ SetKind(i, p, "dir") /\ added' = added \cup {i}
                                         /\ \E f \in Files : files' = [files EXCEPT ![i][p] = @ \cup {f}]
    BY <1>14 DEF PlayerAdds
  <2>3. \A j \in Items \ added' : j \notin added /\ kind'[j] = kind[j] /\ files'[j] = files[j]
    BY <1>0, <2>2, SetKindOthers DEF FilesType
  <2> QED  BY <1>b, <2>1, <2>3 DEF Reached
<1>15. CASE PlayerClears
  <2>1. /\ pc = "off" /\ pc' = "off" /\ manifest = "migrating" /\ journal' = journal /\ began' = began
        /\ files' = files /\ added' = added
    BY <1>15 DEF PlayerClears, process, history
  <2>2. \A j \in Items : kind'[j]["shared"] = kind[j]["shared"] /\ kind'[j]["source"] \in {kind[j]["source"], "absent"}
    BY <1>0, <1>15, SetKindOthers DEF PlayerClears
  <2> QED  BY <1>b, <2>1, <2>2 DEF Reached
<1> QED  BY <1>1, <1>2, <1>3, <1>4, <1>5, <1>6, <1>7, <1>8, <1>9, <1>10, <1>11, <1>12, <1>13, <1>14, <1>15
         DEF Next, Recovery, Forward, Around

LEMMA RecoveringStep ==
    ASSUME Undoable, [Next]_vars
    PROVE  Recovering'
<1> SUFFICES ASSUME pc' = "recover"
             PROVE  /\ Len(undo') <= Len(journal') /\ \A k \in 1 .. Len(undo') : undo'[k] = journal'[k]
                    /\ \A k \in Len(undo') + 1 .. Len(journal') : journal'[k].item \notin added' =>
                          /\ journal'[k].act = "move" => Stayed(journal[k].item)'
                          /\ journal'[k].act = "link" => kind'[journal'[k].item]["source"] # "link"
  BY DEF Recovering
<1> Beginning /\ OnDisk /\ Recovering
  BY DEF Undoable, UndoInv
<1> USE UndoableFacts
<1>1. CASE UNCHANGED vars
  BY <1>1 DEF vars, disk, process, history, Recovering, Stayed
<1>2. CASE Begin
  <2>1. undo' = journal /\ journal' = journal
    BY <1>2 DEF Begin, disk
  <2>2. Len(journal) \in Nat
    OBVIOUS
  <2>3. Len(journal) + 1 .. Len(journal) = {}
    BY <2>2
  <2> QED  BY <2>1, <2>2, <2>3
<1>3. CASE MarkRecovered
  BY <1>3 DEF MarkRecovered, process, history, Recovering, Stayed
<1>4. CASE UndoLast
  <2>1. undo # <<>> /\ undo' = Front(undo) /\ pc = "recover" /\ journal' = journal /\ began' = began /\ added' = added
    BY <1>4 DEF UndoLast, Undone, Undoing, history
  <2> DEFINE n == Len(undo) m == Len(journal)
  <2>2. /\ n \in Nat \ {0} /\ Last(undo) = undo[n] /\ Last(undo) \in Line
        /\ Len(Front(undo)) = n - 1 /\ \A k \in 1 .. n - 1 : Front(undo)[k] = undo[k]
    BY <2>1, FrontLines
  <2>3. /\ n <= m /\ m \in Nat /\ \A k \in 1 .. n : undo[k] = journal[k]
        /\ \A k \in n + 1 .. m : journal[k].item \notin added =>
              /\ journal[k].act = "move" => Stayed(journal[k].item)
              /\ journal[k].act = "link" => kind[journal[k].item]["source"] # "link"
    BY <2>1 DEF Recovering
  <2>4. InOrder(journal) /\ \A k \in 1 .. m : journal[k] \in Line
    BY <2>1, ElementOfSeq DEF OnDisk
  <2> HIDE DEF n, m
  <2>5. n \in 1 .. m /\ Last(undo) = journal[n]
    BY <2>2, <2>3
  <2>6. PICK i \in Items, act \in {"move", "mkdir", "link", "bind"} : Last(undo) = [act |-> act, item |-> i]
    BY <2>2 DEF Line
  <2>7. act # "bind" /\ journal[n].act = act /\ journal[n].item = i
    <3>1. journal[n] = [act |-> act, item |-> i]
      BY <2>5, <2>6
    <3>2. journal[n].act = act /\ journal[n].item = i
      BY <3>1
    <3>3. journal[n].act # "bind"
      BY <2>4, <2>5 DEF InOrder, m
    <3> QED  BY <3>2, <3>3
  <2>8. /\ \A j \in Items \ {i} : kind'[j] = kind[j] /\ files'[j] = files[j]
        /\ act = "link" => /\ files' = files
                           /\ kind'[i]["source"] = IF kind[i]["source"] \in {"link", "alien"} THEN "absent" ELSE kind[i]["source"]
        /\ act = "mkdir" => files' = files /\ kind'[i]["source"] = kind[i]["source"]
        /\ act = "move" => IF CanMoveBack(i) THEN kind'[i]["source"] = "dir" ELSE kind'[i] = kind[i]
    BY <1>4, <2>6, <2>7, UndoEffect
  <2>9. ASSUME NEW k \in n .. m, journal[k].item \notin added
        PROVE  /\ journal[k].act = "move" => Stayed(journal[k].item)'
               /\ journal[k].act = "link" => kind'[journal[k].item]["source"] # "link"
    <3>1. k \in 1 .. m /\ journal[k] \in Line /\ journal[k].item \in Items
      BY <2>2, <2>3, <2>4 DEF Line
    <3>2. CASE k = n
      <4>1. journal[k].act = act /\ journal[k].item = i /\ i \notin added
        BY <2>7, <2>9, <3>2
      <4>2. act = "move" => files'[i] = began[i]
        BY <1>4, <2>1, <2>6, <4>1, RecoveryRestores
      <4>3. act = "link" => kind'[i]["source"] # "link"
        BY <2>8
      <4> QED  BY <2>1, <4>1, <4>2, <4>3 DEF Stayed
    <3>3. CASE k # n
      <4>1. k \in n + 1 .. m /\ n < k
        BY <2>2, <2>3, <3>1, <3>3
      <4>2. /\ journal[k].act = "move" => Stayed(journal[k].item)
            /\ journal[k].act = "link" => kind[journal[k].item]["source"] # "link"
        BY <2>3, <2>9, <4>1
      <4>3. CASE journal[k].item # i
        <5>1. kind'[journal[k].item] = kind[journal[k].item] /\ files'[journal[k].item] = files[journal[k].item]
          BY <2>8, <3>1, <4>3
        <5> QED  BY <2>1, <4>2, <5>1 DEF Stayed
      <4>4. CASE journal[k].item = i
        <5>1. journal[n].act = act /\ journal[n].item = i
          BY <2>7
        <5>2. ASSUME journal[k].act = "move" PROVE Stayed(i)'
          <6>1. act # "link"
            BY <2>2, <2>4, <2>5, <3>1, <4>1, <4>4, <5>1, <5>2 DEF InOrder, m
          <6>2. act # "move"
            <7> SUFFICES ASSUME act = "move" PROVE FALSE
              OBVIOUS
            <7>1. journal[k] = journal[n]
              BY <2>4, <2>5, <3>1, <4>4, <5>1, <5>2 DEF Line
            <7> QED  BY <2>4, <2>5, <3>1, <3>3, <7>1 DEF InOrder, m
          <6>3. files' = files
            BY <2>7, <2>8, <6>1, <6>2
          <6> QED  BY <2>1, <4>2, <4>4, <5>2, <6>3 DEF Stayed
        <5>3. ASSUME journal[k].act = "link" PROVE kind'[i]["source"] # "link"
          <6>1. kind[i]["source"] # "link"
            BY <4>2, <4>4, <5>3
          <6> QED  BY <2>7, <2>8, <6>1
        <5> QED  BY <2>1, <4>4, <5>2, <5>3 DEF Stayed
      <4> QED  BY <4>3, <4>4
    <3> QED  BY <3>2, <3>3
  <2>10. Len(undo') = n - 1 /\ Len(journal') = m /\ (n - 1) + 1 .. m = n .. m
    BY <2>1, <2>2 DEF m
  <2>11. Len(undo') <= Len(journal') /\ \A k \in 1 .. Len(undo') : undo'[k] = journal'[k]
    BY <2>1, <2>2, <2>3, <2>10
  <2> QED  BY <2>1, <2>9, <2>10, <2>11
<1>5. CASE Forward \/ Around \/ SetRecoveredAside \/ RollbackDone
  <2>1. pc' = "recover" => pc = "recover"
    BY <1>5 DEF Forward, Around, SetRecoveredAside, RollbackDone, Refuse, OpenTransaction, ItemInPlace, ItemRefused,
       AnnounceMove, MoveCopyStep, Move, MoveFails, MakeShared, AttachLink, MakeMountpoint, AnnounceMount, Mount, Attached,
       AttachFails, Commit, GameWrites, GameEnds, Crash, PlayerAdds, PlayerClears, Reboot, Leave, Rollback, NextItem, process
  <2>2. pc # "recover"
    BY <1>5 DEF Forward, Around, SetRecoveredAside, RollbackDone, Refuse, OpenTransaction, ItemInPlace, ItemRefused,
       AnnounceMove, MoveCopyStep, Move, MoveFails, MakeShared, AttachLink, MakeMountpoint, AnnounceMount, Mount,
       AttachFails, Commit, GameWrites, GameEnds, Crash, PlayerAdds, PlayerClears, Reboot, Leave
  <2> QED  BY <2>1, <2>2
<1> QED  BY <1>1, <1>2, <1>3, <1>4, <1>5 DEF Next, Recovery

----------------------------------------------------------------------------
LEMMA UndoInit == Init => UndoInv
<1> SUFFICES ASSUME Init PROVE UndoInv
  OBVIOUS
<1>1. pc = "off" /\ manifest = "none" /\ journal = <<>> /\ fresh = FALSE
  BY DEF Init
<1> QED  BY <1>1 DEF UndoInv, Beginning, InMemory, OnDisk, Recovering

LEMMA UndoStep == Undoable /\ [Next]_vars => Undoable'
<1> SUFFICES ASSUME Undoable, [Next]_vars PROVE Undoable'
  OBVIOUS
<1>1. UndoInv'
  BY BeginningStep, InMemoryStep, OnDiskStep, RecoveringStep DEF UndoInv
<1>2. IInv'
  BY InvStep DEF Undoable
<1>3. RenamesAndLinks'
  BY DEF Undoable, RenamesAndLinks
<1> QED  BY <1>1, <1>2, <1>3 DEF Undoable

LEMMA UndoAlways == ASSUME RenamesAndLinks PROVE Spec => []Undoable
<1>1. Init => Undoable
  BY InvInit, UndoInit DEF Undoable
<1> QED  BY <1>1, UndoStep, PTL DEF Spec

LEMMA NothingLeft == \A act, i : ~Has(<<>>, act, i)
BY DEF Has

(* On one filesystem the undo of a failed transaction ends with every file *)
(* where it was when the transaction began, whatever failed and after      *)
(* whichever item (mcpe_migration_rollback, migrate_data.sh).              *)
THEOREM FailureIsUndone ==
    ASSUME RenamesAndLinks
    PROVE  Spec => []FailedTransactionIsUndone
<1>1. Undoable => FailedTransactionIsUndone
  <2> SUFFICES ASSUME Undoable, pc = "rollback", undo = <<>>, fresh PROVE files = began
    BY DEF FailedTransactionIsUndone
  <2>1. \A i \in Items : Done(<<>>, i)
    BY DEF Undoable, UndoInv, InMemory, Pending
  <2>2. \A i \in Items : files[i] = began[i]
    BY <2>1, NothingLeft DEF Done, Stayed
  <2> QED  BY <2>2, UndoableFacts DEF FilesType
<1> QED  BY <1>1, UndoAlways, PTL

(* On one filesystem the recovery of a transaction that was cut anywhere   *)
(* ends with every item the player left alone whole where it was, also     *)
(* when the recovery itself was cut and began again.                       *)
THEOREM InterruptionIsUndone ==
    ASSUME RenamesAndLinks
    PROVE  Spec => []InterruptedTransactionIsUndone
<1>1. Undoable => InterruptedTransactionIsUndone
  <2> SUFFICES ASSUME Undoable, pc = "recover", undo = <<>>, NEW i \in Items \ added PROVE files[i] = began[i]
    BY DEF InterruptedTransactionIsUndone
  <2>1. Announced(i)
    BY DEF Undoable, UndoInv, OnDisk
  <2>2. CASE ~Has(journal, "move", i)
    BY <2>1, <2>2 DEF Announced, Stayed
  <2>3. CASE Has(journal, "move", i)
    <3>1. PICK k \in 1 .. Len(journal) : journal[k] = [act |-> "move", item |-> i]
      BY <2>3 DEF Has
    <3>2. Len(undo) = 0 /\ k \in Len(undo) + 1 .. Len(journal)
      BY <3>1
    <3> QED  BY <3>1, <3>2 DEF Undoable, UndoInv, Recovering, Stayed
  <2> QED  BY <2>2, <2>3
<1> QED  BY <1>1, UndoAlways, PTL
=============================================================================
