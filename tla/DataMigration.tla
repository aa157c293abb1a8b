--------------------------- MODULE DataMigration ---------------------------
(***************************************************************************)
(* lib/migrate_data.sh: the player's directories leave the port directory  *)
(* ("source") for the edition-neutral root ("shared"), and the old path    *)
(* becomes a symbolic link, or a bind mount where the filesystem has no    *)
(* links.  The transaction is journaled in config/migration.pending and    *)
(* may be cut between any two steps, by a kill or by a power loss.         *)
(*                                                                         *)
(* An item's directory is the set of its complete files, so an interrupted *)
(* copy is a proper subset.  The Knulli merge, the RGDS adoption of a      *)
(* legacy payload and the free-space check are not here.  Definitions      *)
(* ending in Bug are mutations, used by nothing here.                      *)
(***************************************************************************)
EXTENDS Naturals, Sequences, SequencesExt

CONSTANTS
    ItemCount,    \* the loop runs over items 1 .. ItemCount
    Files,
    Faults,       \* what may fail: "mv", "attach", and the "undo" of an mv
    CrossDevice,  \* the two places are on different filesystems
    Symlinks      \* the filesystem of the port can hold links

Items == 1 .. ItemCount

ASSUME ItemCountAssumption == ItemCount \in Nat \ {0}
ASSUME FaultsAssumption == Faults \subseteq {"mv", "attach", "undo"}
ASSUME DevicesAssumption == CrossDevice \in BOOLEAN /\ Symlinks \in BOOLEAN

VARIABLES
    kind,      \* kind[i][p]: what the path of item i is at place p
    files,     \* files[i][p]: the complete files in it
    manifest,  \* the last state= of migration.pending; "none" without the file
    journal,   \* its move=, mkdir=, link= and bind= lines
    pc,        \* what the launcher is doing; "off" when none runs
    at,        \* item
    fresh,     \* new_transaction
    actions,   \* MCPE_MIGRATION_ACTIONS
    undo,      \* the lines or actions still to be undone
    mv,        \* a copying mv: "idle", "copy" or "delete"
    (* History variables. *)
    had,       \* had[i]: every file the item ever held
    began,     \* where the files were when the transaction began
    added,     \* the items the player added to behind the launcher's back
    cutShort   \* the last launch was killed or lost its power

disk == <<kind, files, manifest, journal>>
process == <<pc, at, fresh, actions, undo, mv>>
history == <<had, began, added, cutShort>>
vars == <<disk, process, history>>

Places == {"source", "shared"}
Kinds == {"absent", "dir", "link", "bind", "alien", "file"}
Manifests == {"none", "migrating", "rollback", "recovered", "ready"}
Line == [act : {"move", "mkdir", "link", "bind"}, item : Items]
Phases == {"off", "recover", "preflight", "item", "move", "attach", "mountpoint",
           "mount", "rollback", "commit", "playing"}

TypeOK ==
    /\ kind \in [Items -> [Places -> Kinds]]
    /\ files \in [Items -> [Places -> SUBSET Files]]
    /\ manifest \in Manifests
    /\ journal \in Seq(Line)
    /\ pc \in Phases
    /\ at \in 1 .. ItemCount + 1
    /\ fresh \in BOOLEAN
    /\ actions \in Seq(Line)
    /\ undo \in Seq(Line)
    /\ mv \in {"idle", "copy", "delete"}
    /\ had \in [Items -> SUBSET Files]
    /\ began \in [Items -> [Places -> SUBSET Files]]
    /\ added \in SUBSET Items
    /\ cutShort \in BOOLEAN

Held(i) == files[i]["source"] \cup files[i]["shared"]

(* A first launch after an update from a 1.x payload: each old path is a   *)
(* directory, missing, or something the player put there.                  *)
Init ==
    /\ kind \in [Items -> {[source |-> s, shared |-> "absent"] :
                             s \in {"absent", "dir", "alien", "file"}}]
    /\ files \in [Items -> {[source |-> F, shared |-> {}] : F \in SUBSET Files}]
    /\ \A i \in Items : kind[i]["source"] # "dir" => files[i]["source"] = {}
    /\ manifest = "none" /\ journal = <<>>
    /\ pc = "off" /\ at = 1 /\ fresh = FALSE /\ actions = <<>> /\ undo = <<>>
    /\ mv = "idle"
    /\ had = [i \in Items |-> files[i]["source"]]
    /\ began = files
    /\ added = {}
    /\ cutShort = FALSE

----------------------------------------------------------------------------
(* The filesystem. *)

EmptyDir(i, p) == kind[i][p] = "dir" /\ files[i][p] = {}

(* mcpe_paths_same_directory, for a path that is no link. *)
EmptyMountpointBug(i) == kind[i]["source"] = "bind" \/ EmptyDir(i, "source")
SamePath(i) == kind[i]["source"] = "bind" /\ kind[i]["shared"] = "dir"

HasData(i, p) == kind[i][p] = "dir" /\ files[i][p] # {}
CollisionIgnoredBug(i) == FALSE
Collides(i) == HasData(i, "source") /\ HasData(i, "shared")

SetKind(i, p, k) == kind' = [kind EXCEPT ![i][p] = k]

(* mv within one filesystem is a rename. *)
Rename(i, from, to) ==
    /\ files' = [files EXCEPT ![i] = [p \in Places |-> IF p = to THEN files[i][from] ELSE {}]]
    /\ kind' = [kind EXCEPT ![i] = [p \in Places |-> IF p = to THEN "dir" ELSE "absent"]]

(* Between filesystems it copies the tree and then deletes the original.   *)
StartCopy(i, to) ==
    /\ mv = "idle" /\ mv' = "copy"
    /\ SetKind(i, to, "dir")
    /\ UNCHANGED files

CopyFile(i, from, to) ==
    /\ mv = "copy"
    /\ \E f \in files[i][from] \ files[i][to] :
          files' = [files EXCEPT ![i][to] = @ \cup {f}]
    /\ UNCHANGED <<kind, mv>>

CopyDone(i, from, to) ==
    /\ mv = "copy" /\ files[i][from] \subseteq files[i][to]
    /\ mv' = "delete"
    /\ UNCHANGED <<kind, files>>

DeleteFile(i, from) ==
    /\ mv = "delete"
    /\ \E f \in files[i][from] : files' = [files EXCEPT ![i][from] = @ \ {f}]
    /\ UNCHANGED <<kind, mv>>

DeleteDone(i, from) ==
    /\ mv = "delete" /\ files[i][from] = {}
    /\ mv' = "idle"
    /\ SetKind(i, from, "absent")
    /\ UNCHANGED files

CopyStep(i, from, to) ==
    /\ CrossDevice
    /\ StartCopy(i, to) \/ CopyFile(i, from, to) \/ CopyDone(i, from, to) \/ DeleteFile(i, from)

(* mv returns 0. *)
MoveDone(i, from, to) ==
    \/ ~CrossDevice /\ Rename(i, from, to) /\ UNCHANGED mv
    \/ CrossDevice /\ DeleteDone(i, from)

----------------------------------------------------------------------------
(* Recovery of an interrupted transaction, and rollback of a failed one:   *)
(* the same undo, from the journal and from the actions in memory.         *)

Begin ==
    /\ pc = "off"
    /\ IF manifest = "migrating"
       THEN pc' = "recover" /\ undo' = journal
       ELSE pc' = "preflight" /\ undo' = <<>>
    /\ at' = 1 /\ fresh' = FALSE /\ actions' = <<>> /\ mv' = "idle"
    /\ cutShort' = FALSE
    /\ UNCHANGED <<disk, had, began, added>>

Undoing == pc \in {"recover", "rollback"} /\ undo # <<>>
Undone(act, i) == Undoing /\ Last(undo) = [act |-> act, item |-> i]

(* [ -e dst ] && [ ! -e src ]; mv is already past it once it copies. *)
CanMoveBack(i) ==
    mv # "idle" \/ (kind[i]["shared"] # "absent" /\ kind[i]["source"] = "absent")

UndoCopyStep(i) ==
    /\ Undone("move", i) /\ CanMoveBack(i)
    /\ CopyStep(i, "shared", "source")
    /\ UNCHANGED <<manifest, journal, pc, at, fresh, actions, undo, history>>

(* mcpe_detach_shared_path: umount, and remove an empty mount point.       *)
(* Nothing runs from the mount yet, so the umount is taken to succeed.     *)
Detach(i) ==
    IF kind[i]["source"] = "bind" \/ EmptyDir(i, "source")
    THEN SetKind(i, "source", "absent") ELSE UNCHANGED kind

UndoMove(i) ==
    \/ CanMoveBack(i) /\ MoveDone(i, "shared", "source")
    \/ CanMoveBack(i) /\ "undo" \in Faults /\ mv' = "idle" /\ UNCHANGED <<kind, files>>
    \/ ~CanMoveBack(i) /\ UNCHANGED <<kind, files, mv>>

UndoLast ==
    /\ \E i \in Items :
          \/ Undone("bind", i) /\ Detach(i) /\ UNCHANGED <<files, mv>>
          \/ /\ Undone("link", i)
             /\ IF kind[i]["source"] \in {"link", "alien"}
                THEN SetKind(i, "source", "absent") ELSE UNCHANGED kind
             /\ UNCHANGED <<files, mv>>
          \/ Undone("move", i) /\ UndoMove(i)
          \/ /\ Undone("mkdir", i)
             /\ IF EmptyDir(i, "shared")
                THEN SetKind(i, "shared", "absent") ELSE UNCHANGED kind
             /\ UNCHANGED <<files, mv>>
    /\ undo' = Front(undo)
    /\ UNCHANGED <<manifest, journal, pc, at, fresh, actions, history>>

MarkRecovered ==
    /\ pc = "recover" /\ undo = <<>> /\ manifest = "migrating"
    /\ manifest' = "recovered"
    /\ UNCHANGED <<kind, files, journal, process, history>>

SetRecoveredAside ==
    /\ pc = "recover" /\ undo = <<>> /\ manifest = "recovered"
    /\ manifest' = "none" /\ journal' = <<>>
    /\ pc' = "preflight"
    /\ UNCHANGED <<kind, files, at, fresh, actions, undo, mv, history>>

(* return 1: the launcher stops. *)
Leave == pc' = "off" /\ at' = 1 /\ fresh' = FALSE /\ actions' = <<>> /\ undo' = <<>> /\ mv' = "idle"

RollbackDone ==
    /\ pc = "rollback" /\ undo = <<>>
    /\ IF fresh THEN manifest' = "none" /\ journal' = <<>>   \* migration.failed
                ELSE UNCHANGED <<manifest, journal>>
    /\ Leave
    /\ UNCHANGED <<kind, files, history>>

----------------------------------------------------------------------------
(* The forward path. *)

LinkRefusedBug(i) ==
    /\ ~SamePath(i)
    /\ kind[i]["source"] \in {"file", "link"} \/ Collides(i)

PreflightRefuses(i) ==
    /\ ~SamePath(i)
    /\ kind[i]["source"] = "file" \/ Collides(i)

Refuse ==
    /\ pc = "preflight"
    /\ \E i \in Items : PreflightRefuses(i)
    /\ Leave
    /\ UNCHANGED <<disk, history>>

OpenTransaction ==
    /\ pc = "preflight"
    /\ \A i \in Items : ~PreflightRefuses(i)
    /\ IF manifest = "none"
       THEN manifest' = "migrating" /\ fresh' = TRUE /\ began' = files
       ELSE UNCHANGED <<manifest, fresh, began>>
    /\ pc' = "item"
    /\ UNCHANGED <<kind, files, journal, at, actions, undo, mv, had, added, cutShort>>

NewLine(act) == [act |-> act, item |-> at]
UnjournaledBug(acts) == journal' = journal
Journal(acts) == journal' = IF fresh THEN journal \o acts ELSE journal

LastItemSkippedBug == IF at + 1 >= ItemCount THEN "commit" ELSE "item"
NextItem == IF at = ItemCount THEN "commit" ELSE "item"

(* The path is a link to the shared directory, or bound to it. *)
ItemInPlace ==
    /\ pc = "item"
    /\ \/ kind[at]["source"] = "link" /\ SetKind(at, "shared", "dir")
       \/ SamePath(at) /\ UNCHANGED kind
    /\ at' = at + 1 /\ pc' = NextItem
    /\ UNCHANGED <<files, manifest, journal, fresh, actions, undo, mv, history>>

UndoInOrderBug == pc' = "rollback" /\ undo' = Reverse(actions)
Rollback == pc' = "rollback" /\ undo' = actions

ItemRefused ==
    /\ pc = "item"
    /\ kind[at]["source"] \in {"alien", "file"} \/ Collides(at)
    /\ manifest' = IF fresh THEN "rollback" ELSE manifest
    /\ Rollback
    /\ UNCHANGED <<kind, files, journal, at, fresh, actions, mv, history>>

(* rmdir of an empty shared directory, and the journal line of the move. *)
AnnounceMove ==
    /\ pc = "item" /\ HasData(at, "source") /\ ~Collides(at)
    /\ SetKind(at, "shared", "absent")
    /\ Journal(<<NewLine("move")>>)
    /\ pc' = "move"
    /\ UNCHANGED <<files, manifest, at, fresh, actions, undo, mv, history>>

MoveCopyStep ==
    /\ pc = "move"
    /\ CopyStep(at, "source", "shared")
    /\ UNCHANGED <<manifest, journal, pc, at, fresh, actions, undo, history>>

Move ==
    /\ pc = "move"
    /\ MoveDone(at, "source", "shared")
    /\ actions' = Append(actions, NewLine("move"))
    /\ pc' = "attach"
    /\ UNCHANGED <<manifest, journal, at, fresh, undo, history>>

(* A failed mv keeps what it has copied or not yet deleted. *)
MoveFails ==
    /\ pc = "move" /\ "mv" \in Faults
    /\ mv' = "idle"
    /\ Rollback
    /\ UNCHANGED <<kind, files, manifest, journal, at, fresh, actions, history>>

(* Nothing to move: make the shared directory, drop an empty old one. *)
MakeShared ==
    /\ pc = "item" /\ kind[at]["source"] \in {"absent", "dir"} /\ ~HasData(at, "source")
    /\ LET made == IF kind[at]["shared"] = "dir" THEN <<>> ELSE <<NewLine("mkdir")>>
       IN  Journal(made) /\ actions' = actions \o made
    /\ kind' = [kind EXCEPT ![at] = [source |-> "absent", shared |-> "dir"]]
    /\ pc' = "attach"
    /\ UNCHANGED <<files, manifest, at, fresh, undo, mv, history>>

Attached(k, act) ==
    /\ SetKind(at, "source", k)
    /\ actions' = Append(actions, NewLine(act))
    /\ at' = at + 1 /\ pc' = NextItem
    /\ UNCHANGED <<files, manifest, fresh, undo, mv, history>>

AttachLink ==
    /\ pc = "attach" /\ Symlinks
    /\ Journal(<<NewLine("link")>>)
    /\ Attached("link", "link")

(* ln failed: the mount point is made before its line is in the journal. *)
MakeMountpoint ==
    /\ pc = "attach" /\ ~Symlinks
    /\ Journal(<<NewLine("link")>>)
    /\ SetKind(at, "source", "dir")
    /\ pc' = "mountpoint"
    /\ UNCHANGED <<files, manifest, at, fresh, actions, undo, mv, history>>

AnnounceMount ==
    /\ pc = "mountpoint"
    /\ Journal(<<NewLine("bind")>>)
    /\ pc' = "mount"
    /\ UNCHANGED <<kind, files, manifest, at, fresh, actions, undo, mv, history>>

Mount ==
    /\ pc = "mount"
    /\ Attached("bind", "bind")
    /\ UNCHANGED journal

(* No line could be written, no mount command, or the mount failed. *)
AttachFails ==
    /\ "attach" \in Faults
    /\ \/ pc \in {"attach", "mountpoint"} /\ UNCHANGED kind
       \/ pc = "mount" /\ SetKind(at, "source", "absent")
    /\ Rollback
    /\ UNCHANGED <<files, manifest, journal, at, fresh, actions, mv, history>>

Commit ==
    /\ pc = "commit"
    /\ manifest' = IF fresh THEN "ready" ELSE manifest
    /\ pc' = "playing"
    /\ UNCHANGED <<kind, files, journal, at, fresh, actions, undo, mv, history>>

----------------------------------------------------------------------------
(* Around the migration. *)

(* The game, or the setup steps before it, write to the shared directory.  *)
GameWrites ==
    /\ pc = "playing"
    /\ \E i \in Items : \E f \in Files \ had[i] :
          /\ files' = [files EXCEPT ![i]["shared"] = @ \cup {f}]
          /\ had' = [had EXCEPT ![i] = @ \cup {f}]
    /\ UNCHANGED <<kind, manifest, journal, process, began, added, cutShort>>

(* mcpe_mark_migration_success after a clean return; else only the exit. *)
GameEnds ==
    /\ pc = "playing"
    /\ \/ manifest' = "none" /\ journal' = <<>>
       \/ UNCHANGED <<manifest, journal>>
    /\ Leave
    /\ UNCHANGED <<kind, files, history>>

(* A kill, or a power loss, which also drops the bind mounts. *)
Crash ==
    /\ pc # "off"
    /\ Leave
    /\ \/ UNCHANGED kind
       \/ kind' = [i \in Items |-> [kind[i] EXCEPT !["source"] = IF @ = "bind" THEN "dir" ELSE @]]
    /\ cutShort' = TRUE
    /\ UNCHANGED <<files, manifest, journal, had, began, added>>

(* The player copies a file into either directory from outside. *)
PlayerAdds ==
    /\ pc = "off"
    /\ \E i \in Items, p \in Places : \E f \in Files \ had[i] :
          /\ kind[i][p] = "dir" \/ (p = "source" /\ kind[i][p] = "absent")
          /\ SetKind(i, p, "dir")
          /\ files' = [files EXCEPT ![i][p] = @ \cup {f}]
          /\ had' = [had EXCEPT ![i] = @ \cup {f}]
          /\ added' = added \cup {i}
    /\ UNCHANGED <<manifest, journal, process, began, cutShort>>

(* The player replaces or removes a link or file that stops the launch. *)
PlayerClears ==
    /\ pc = "off"
    /\ \E i \in Items : kind[i]["source"] \in {"alien", "file"} /\ SetKind(i, "source", "absent")
    /\ UNCHANGED <<files, manifest, journal, process, history>>

Reboot ==
    /\ pc = "off"
    /\ kind' = [i \in Items |-> [kind[i] EXCEPT !["source"] = IF @ = "bind" THEN "dir" ELSE @]]
    /\ UNCHANGED <<files, manifest, journal, process, history>>

Recovery == (\E i \in Items : UndoCopyStep(i)) \/ UndoLast \/ MarkRecovered \/ SetRecoveredAside \/ RollbackDone
Forward ==
    \/ Refuse \/ OpenTransaction \/ ItemInPlace \/ ItemRefused \/ AnnounceMove
    \/ MoveCopyStep \/ Move \/ MoveFails \/ MakeShared \/ AttachLink \/ MakeMountpoint
    \/ AnnounceMount \/ Mount \/ AttachFails \/ Commit
Around == GameWrites \/ GameEnds \/ Crash \/ PlayerAdds \/ PlayerClears \/ Reboot

Next == Begin \/ Recovery \/ Forward \/ Around

Spec == Init /\ [][Next]_vars

----------------------------------------------------------------------------
(* Properties. *)

(* Whatever fails and wherever it is cut, every file an item ever held is  *)
(* complete in one of its two directories.                                 *)
NoFileLost == \A i \in Items : had[i] \subseteq Held(i)

(* The game is only started when each old path leads to the shared         *)
(* directory and that directory holds everything: also after a reboot that *)
(* dropped the bind mounts, and for files copied in meanwhile.             *)
ReachesEverything ==
    pc = "playing" => \A i \in Items :
        /\ kind[i]["source"] \in {"link", "bind"}
        /\ kind[i]["shared"] = "dir"
        /\ had[i] \subseteq files[i]["shared"]

(* The undo of a failed transaction puts every file where it was when the  *)
(* transaction began: each step of it finds the paths as the step it       *)
(* undoes left them.                                                       *)
FailedTransactionIsUndone ==
    (pc = "rollback" /\ undo = <<>> /\ fresh) => files = began

(* "A power loss during the move phase is distinguishable from a completed *)
(* migration awaiting its first clean launch. Only the former is rolled    *)
(* back" (migrate_data.sh:258-259): when the recovery is done, an item the *)
(* player left alone is whole where it was.                                *)
InterruptedTransactionIsUndone ==
    (pc = "recover" /\ undo = <<>>) =>
        \A i \in Items \ added : files[i] = began[i]

(* The migration does what SharedData promises.                            *)
Promise == INSTANCE SharedData WITH playing <- pc = "playing"
KeepsPromise == Promise!Spec

(* The launcher's own steps go on until it plays or stops. *)
FairSpec == Spec /\ WF_vars(Begin \/ Recovery \/ Forward)

(* A launcher that is no longer cut short and whose steps no longer fail    *)
(* plays in the end, and again at every later launch, whatever the cuts,   *)
(* failures and reboots before left behind, unless something of the player *)
(* is in the way.                                                          *)
Blocked == \E i \in Items : kind[i]["source"] \in {"alien", "file"} \/ i \in added
EventuallyPlays == <>[](~cutShort /\ pc # "rollback") => []<>(pc = "playing" \/ Blocked)
=============================================================================
