----------------------------- MODULE PortUpdate -----------------------------
(***************************************************************************)
(* update_port.sh: one program directory ("target") is replaced by the one *)
(* of a downloaded release, the old one is kept beside it ("rollback"),    *)
(* and the player's settings move from one to the other by way of a work   *)
(* directory.  Started from the menu of the same edition, or of the other  *)
(* one (install_rgds).                                                     *)
(*                                                                         *)
(* One action per command.  A command may fail; the power may go, or the   *)
(* script be killed, between two commands and inside an rm -rf; INT and    *)
(* TERM run the trap, which removes the work directory and does not end    *)
(* the script.  Renames are within one filesystem.  Download, checks and   *)
(* extraction only write the work directory and are one step.  The shared  *)
(* data hangs below the target as links, or as bind mounts where the       *)
(* filesystem has no links; a mount moves with the directory above it, and *)
(* rm -rf goes into it.  What a loop does to different items does not      *)
(* depend on their order.  Definitions ending in Bug are mutations.        *)
(***************************************************************************)
EXTENDS Naturals

CONSTANTS
    Kept,        \* config, runtime, logs, fmod
    Config,      \* the one of them line 146 makes
    Shipped,     \* those a payload brings along itself
    Shared,      \* apk, versions, profiles, backups
    Symlinks,    \* the filesystem has links
    MaxUpdates,  \* bound: updates
    MaxTrouble   \* bound: failed commands, cuts and signals

ASSUME UpdateAssumption ==
    /\ Config \in Kept /\ Shipped \subseteq Kept /\ Symlinks \in BOOLEAN
    /\ MaxUpdates \in Nat /\ MaxTrouble \in Nat

VARIABLES
    pc,       \* the command the script is at; "off" when it does not run
    todo,     \* what the loop at pc has left
    target,   \* $TARGET_DIR
    rollback, \* $ROLLBACK
    entry,    \* the script in $ENTRY_DIR
    work,     \* $WORK exists
    persist,  \* $WORK/persist
    backup,   \* $WORK/entry.previous
    release,  \* number of the release to install
    shared,   \* shared[i]: the shared data of i is all there
    (* history *)
    trouble,  \* failed commands, cuts and signals so far
    hits,     \* where they hit this update
    before    \* target, entry and trouble as this update found them

inWork == <<work, persist, backup>>
history == <<trouble, hits, before>>
vars == <<pc, todo, target, rollback, entry, inWork, release, shared, history>>

Contents == {"none", "own", "fresh"}   \* own: the player's
Nothing == [i \in Kept |-> "none"]
Absent == [is |-> "none", version |-> 0, kept |-> Nothing, links |-> {}, mounts |-> {}]
Payload(v) == [Absent EXCEPT !.is = "whole", !.version = v,
                             !.kept = [i \in Kept |-> IF i \in Shipped THEN "fresh" ELSE "none"]]
NoFile == [is |-> "none", version |-> 0]

Presence == {"none", "part", "whole"}
Exists(d) == d.is # "none"
Whole(d) == d.is = "whole"
Dir == [is : Presence, version : Nat, kept : [Kept -> Contents],
        links : SUBSET Shared, mounts : SUBSET Shared]
File == [is : Presence, version : Nat]
Stages == {"fetch", "persist", "aside", "activate", "restore", "giveback", "return",
           "links", "entry", "remove", "putback", "putentry"}

TypeOK ==
    /\ pc \in Stages \cup {"off", "done", "failed"} /\ todo \subseteq Kept \cup Shared
    /\ target \in Dir /\ rollback \in Dir /\ entry \in File
    /\ \A d \in {target, rollback} : ~Exists(d) => d = Absent
    /\ work \in BOOLEAN /\ persist \in [Kept -> Contents] /\ backup \in File
    /\ release \in 0 .. MaxUpdates /\ shared \in [Shared -> BOOLEAN]
    /\ trouble \in 0 .. MaxTrouble /\ hits \subseteq Stages \cup {"clear", "signal"}
    /\ before \in [target : Dir, entry : File, trouble : 0 .. trouble]

Init ==
    /\ pc = "off" /\ todo = {} /\ release = 0
    /\ target = [Payload(0) EXCEPT !.kept = [i \in Kept |-> "own"]]
    /\ rollback = Absent /\ entry = [is |-> "whole", version |-> 0]
    /\ work = FALSE /\ persist = Nothing /\ backup = NoFile
    /\ shared = [i \in Shared |-> TRUE]
    /\ trouble = 0 /\ hits = {} /\ before = [target |-> target, entry |-> entry, trouble |-> 0]

(***************************************************************************)
(* mv and rm -rf on directories.                                           *)
(***************************************************************************)

(* mv d into a place: into the directory that is already there, if one is. *)
Placed(d, there) ==
    IF Exists(there) THEN [there EXCEPT !.mounts = @ \cup d.mounts] ELSE d

With(d, i, content) == [d EXCEPT !.kept[i] = content]

(* What rm -rf leaves of d when it is broken off, and when it is through:  *)
(* a busy mount point cannot be removed, only emptied.                     *)
Ruin(d) == [Absent EXCEPT !.is = "part", !.mounts = d.mounts]
Removed(d) == IF d.mounts = {} THEN Absent ELSE Ruin(d)
Emptied(d) == shared' = [i \in Shared |-> shared[i] /\ i \notin d.mounts]

Works == UNCHANGED <<trouble, hits>>
FailsAt(stage) == trouble < MaxTrouble /\ trouble' = trouble + 1 /\ hits' = hits \cup {stage}
Fails == FailsAt(pc)
WorksInWork == work /\ Works       \* a command that needs $WORK
FailsInWork == Fails \/ (~work /\ Works)

(***************************************************************************)
(* Up to the swap.                                                         *)
(***************************************************************************)

(* The launcher of this edition has attached the shared data, made what    *)
(* was missing, and starts the updater, which migrates again; the other    *)
(* edition's takes the directory as it is.                                 *)
Attached(d) ==
    [d EXCEPT !.kept = [i \in Kept |-> IF @[i] = "none" THEN "fresh" ELSE @[i]],
              !.links = IF Symlinks THEN Shared ELSE @,
              !.mounts = IF Symlinks THEN @ ELSE Shared]
Begin ==
    /\ pc = "off" /\ release < MaxUpdates /\ release' = release + 1
    /\ \/ Whole(target) /\ Whole(entry) /\ target' = Attached(target)
       \/ UNCHANGED target
    /\ before' = [target |-> target', entry |-> entry, trouble |-> trouble]
    /\ work' = TRUE /\ pc' = "fetch" /\ hits' = {}
    /\ UNCHANGED <<todo, rollback, entry, persist, backup, shared, trouble>>

Rejected ==   \* no network, a bad archive, or the installed release
    /\ pc = "fetch" /\ pc' = "failed"
    /\ UNCHANGED <<todo, target, rollback, entry, inWork, release, shared, history>>

VerifiedBug ==
    /\ pc = "fetch" /\ work
    /\ pc' = "persist" /\ todo' = Kept
    /\ UNCHANGED <<target, rollback, entry, inWork, release, shared, history>>
Verified ==
    /\ pc = "fetch" /\ work
    /\ IF Exists(target) THEN pc' = "persist" /\ todo' = Kept
       ELSE pc' = "activate" /\ UNCHANGED todo
    /\ UNCHANGED <<target, rollback, entry, inWork, release, shared, history>>

Persist(i) ==
    /\ pc = "persist" /\ i \in todo /\ todo' = todo \ {i}
    /\ \/ /\ target.kept[i] # "none" /\ WorksInWork
          /\ persist' = [persist EXCEPT ![i] = target.kept[i]]
          /\ target' = With(target, i, "none")
       \/ target.kept[i] # "none" /\ FailsInWork /\ UNCHANGED <<persist, target>>
       \/ target.kept[i] = "none" /\ Works /\ UNCHANGED <<persist, target>>
    /\ UNCHANGED <<pc, rollback, entry, work, backup, release, shared, before>>

ClearRollback ==
    /\ pc = "persist" /\ todo = {} /\ pc' = "aside"
    /\ Emptied(rollback)
    /\ \/ rollback' = Removed(rollback) /\ Works
       \/ rollback' = Ruin(rollback) /\ Exists(rollback) /\ FailsAt("clear")
    /\ UNCHANGED <<todo, target, entry, inWork, release, before>>

MoveAside ==
    /\ pc = "aside"
    /\ \/ /\ Works /\ pc' = "activate"
          /\ rollback' = Placed(target, rollback) /\ target' = Absent
       \/ Fails /\ pc' = "failed" /\ UNCHANGED <<target, rollback>>
    /\ UNCHANGED <<todo, entry, inWork, release, shared, before>>

Activate ==
    /\ pc = "activate"
    /\ \/ WorksInWork /\ target' = Payload(release) /\ pc' = "return" /\ todo' = Kept
       \/ FailsInWork /\ pc' = "restore" /\ UNCHANGED <<target, todo>>
    /\ UNCHANGED <<rollback, entry, inWork, release, shared, before>>

(***************************************************************************)
(* The way back when the new payload could not be put in place.            *)
(***************************************************************************)

Restore ==
    /\ pc = "restore" /\ pc' = "giveback" /\ todo' = Kept
    /\ \/ Exists(rollback) /\ Works /\ target' = Placed(rollback, target) /\ rollback' = Absent
       \/ Exists(rollback) /\ Fails /\ UNCHANGED <<target, rollback>>
       \/ ~Exists(rollback) /\ Works /\ UNCHANGED <<target, rollback>>
    /\ UNCHANGED <<entry, inWork, release, shared, before>>

GiveBack(i) ==
    /\ pc = "giveback" /\ i \in todo /\ todo' = todo \ {i}
    /\ \/ /\ persist[i] # "none" /\ Exists(target) /\ Works
          /\ target' = With(target, i, persist[i])
          /\ persist' = [persist EXCEPT ![i] = "none"]
       \/ persist[i] # "none" /\ Fails /\ UNCHANGED <<target, persist>>
       \/ (persist[i] = "none" \/ ~Exists(target)) /\ Works /\ UNCHANGED <<target, persist>>
    /\ UNCHANGED <<pc, rollback, entry, work, backup, release, shared, before>>

GaveBack ==
    /\ pc = "giveback" /\ todo = {} /\ pc' = "failed"
    /\ UNCHANGED <<todo, target, rollback, entry, inWork, release, shared, history>>

(***************************************************************************)
(* Completing the new payload.                                             *)
(***************************************************************************)

(* mv; where the payload has the item itself, cp -a over it, whose failure *)
(* nobody looks at, and rm.                                                *)
ReturnBug(i) ==
    /\ pc = "return" /\ i \in todo /\ todo' = todo \ {i} /\ Works
    /\ target' = IF target.kept[i] = "none" THEN With(target, i, persist[i]) ELSE target
    /\ persist' = [persist EXCEPT ![i] = "none"]
    /\ UNCHANGED <<pc, rollback, entry, work, backup, release, shared, before>>
Return(i) ==
    /\ pc = "return" /\ i \in todo /\ todo' = todo \ {i}
    /\ \/ /\ persist[i] # "none" /\ Works
          /\ target' = With(target, i, persist[i])
          /\ persist' = [persist EXCEPT ![i] = "none"]
       \/ /\ persist[i] # "none" /\ Fails /\ UNCHANGED target
          /\ persist' = IF target.kept[i] = "none" THEN persist ELSE [persist EXCEPT ![i] = "none"]
       \/ persist[i] = "none" /\ Works /\ UNCHANGED <<target, persist>>
    /\ UNCHANGED <<pc, rollback, entry, work, backup, release, shared, before>>

Returned ==
    /\ pc = "return" /\ todo = {}
    /\ pc' = "links" /\ todo' = IF Exists(rollback) THEN rollback.links ELSE {}
    /\ UNCHANGED <<target, rollback, entry, inWork, release, shared, history>>

Link(i) ==
    /\ pc = "links" /\ i \in todo
    /\ \/ Works /\ target' = [target EXCEPT !.links = @ \cup {i}] /\ todo' = todo \ {i} /\ UNCHANGED pc
       \/ Fails /\ pc' = "remove" /\ todo' = {} /\ UNCHANGED target
    /\ UNCHANGED <<rollback, entry, inWork, release, shared, before>>

(* The channel is written, and the entry script saved if there is one.     *)
Channel ==
    /\ pc = "links" /\ todo = {} /\ pc' = "entry"
    /\ target' = With(target, Config, IF target.kept[Config] = "none" THEN "fresh" ELSE target.kept[Config])
    /\ \/ WorksInWork /\ backup' = entry
       \/ Exists(entry) /\ Fails /\ work /\ backup' = [entry EXCEPT !.is = "part"]
       \/ ~work /\ Works /\ UNCHANGED backup
    /\ UNCHANGED <<todo, rollback, entry, work, persist, release, shared, before>>

Entry ==
    /\ pc = "entry"
    /\ \/ WorksInWork /\ entry' = [is |-> "whole", version |-> release] /\ pc' = "done"
       \/ work /\ Fails /\ pc' = "remove" /\ \E torn \in {entry, [entry EXCEPT !.is = "part"]} : entry' = torn
       \/ ~work /\ Works /\ pc' = "remove" /\ UNCHANGED entry
    /\ UNCHANGED <<todo, target, rollback, inWork, release, shared, before>>

(***************************************************************************)
(* The way back when links or entry script could not be written.           *)
(***************************************************************************)

RemoveTarget ==
    /\ pc = "remove" /\ pc' = "putback"
    /\ Emptied(target)
    /\ \/ target' = Removed(target) /\ Works
       \/ target' = Ruin(target) /\ Fails
    /\ UNCHANGED <<todo, rollback, entry, inWork, release, before>>

PutBackBug ==
    /\ pc = "putback" /\ pc' = "putentry"
    /\ UNCHANGED <<todo, target, rollback, entry, inWork, release, shared, history>>
PutBack ==
    /\ pc = "putback" /\ pc' = "putentry"
    /\ \/ Exists(rollback) /\ Works /\ target' = Placed(rollback, target) /\ rollback' = Absent
       \/ Exists(rollback) /\ Fails /\ UNCHANGED <<target, rollback>>
       \/ ~Exists(rollback) /\ Works /\ UNCHANGED <<target, rollback>>
    /\ UNCHANGED <<todo, entry, inWork, release, shared, before>>

PutBackEntry ==
    /\ pc = "putentry" /\ pc' = "failed"
    /\ \/ Exists(backup) /\ Works /\ entry' = backup
       \/ Exists(backup) /\ Fails /\ entry' = [entry EXCEPT !.is = "part"]
       \/ ~Exists(backup) /\ Works /\ UNCHANGED entry
    /\ UNCHANGED <<todo, target, rollback, inWork, release, shared, before>>

(***************************************************************************)
(* The end of the script, orderly or not.                                  *)
(***************************************************************************)

NoWork == work' = FALSE /\ persist' = Nothing /\ backup' = NoFile

Exit ==   \* the trap removes the work directory
    /\ pc \in {"done", "failed"} /\ pc' = "off" /\ NoWork
    /\ UNCHANGED <<todo, target, rollback, entry, release, shared, history>>

Signal ==
    /\ pc \in Stages /\ trouble < MaxTrouble /\ NoWork
    /\ trouble' = trouble + 1 /\ hits' = hits \cup {"signal"}
    /\ UNCHANGED <<pc, todo, target, rollback, entry, release, shared, before>>

Unmounted(d) == [d EXCEPT !.mounts = {}]

(* What is in the work directory afterwards is not looked for again.       *)
Cut ==
    /\ pc \in Stages /\ trouble < MaxTrouble /\ trouble' = trouble + 1
    /\ pc' = "off" /\ NoWork /\ todo' = {}
    /\ \/ target' = Unmounted(target) /\ rollback' = Unmounted(rollback) /\ UNCHANGED shared
       \/ /\ pc = "persist" /\ todo = {} /\ Exists(rollback)
          /\ rollback' = Unmounted(Ruin(rollback)) /\ Emptied(rollback)
          /\ target' = Unmounted(target)
       \/ /\ pc = "remove"
          /\ target' = Unmounted(Ruin(target)) /\ Emptied(target)
          /\ rollback' = Unmounted(rollback)
    /\ UNCHANGED <<entry, release, hits, before>>

Reboot ==
    /\ pc = "off"
    /\ target' = Unmounted(target) /\ rollback' = Unmounted(rollback)
    /\ UNCHANGED <<pc, todo, entry, inWork, release, shared, history>>

Next ==
    \/ Begin \/ Rejected \/ Verified \/ ClearRollback \/ MoveAside \/ Activate
    \/ Restore \/ GaveBack \/ Returned \/ Channel \/ Entry
    \/ RemoveTarget \/ PutBack \/ PutBackEntry \/ Exit
    \/ \E i \in Kept : Persist(i) \/ GiveBack(i) \/ Return(i)
    \/ \E i \in Shared : Link(i)
    \/ Signal \/ Cut \/ Reboot

Spec == Init /\ [][Next]_vars

(***************************************************************************)
(* Properties.                                                             *)
(***************************************************************************)

Here == trouble - before.trouble   \* troubles of this update

(* One failed command, power cut or signal, wherever in whichever update,  *)
(* never leaves the device without a complete program directory: the old   *)
(* one is only removed when another is in place.  The exception is an      *)
(* rm -rf of the old rollback that fails, which nobody checks.             *)
SurvivesOneTrouble ==
    Symlinks /\ trouble <= 1 /\ "clear" \notin hits => Whole(target) \/ Whole(rollback)

(* "previous code restored", "previous payload restored" (lines 142, 156): *)
(* after a failed update the old program is there as it was, with its      *)
(* links and its entry script, if nothing failed on the way back as well;  *)
(* and with the player's settings, if it is rejected or cannot put the new *)
(* program in place.                                                       *)
FailureRestoresPrevious ==
    Symlinks /\ pc = "failed" /\ Here <= 1 /\ Exists(before.target) =>
        /\ entry = before.entry
        /\ Whole(before.target) => /\ Whole(target)
                                   /\ target.version = before.target.version
                                   /\ target.links = before.target.links
        /\ hits \subseteq {"activate"} => target = before.target

(* What says it is installed is: the new program and its entry script, and *)
(* if nothing failed on the way, every setting and link of the old, which  *)
(* is itself retained as the rollback.                                     *)
DoneIsComplete ==
    pc = "done" =>
        /\ Whole(target) /\ target.version = release
        /\ entry = [is |-> "whole", version |-> release]
        /\ Symlinks /\ Here = 0 /\ Exists(before.target) =>
              /\ \A i \in Kept : before.target.kept[i] # "none" => target.kept[i] = before.target.kept[i]
              /\ target.links = before.target.links
              /\ rollback.is = before.target.is /\ rollback.version = before.target.version

(* update_port.sh:101: "Shared APKs/worlds/versions live outside           *)
(* TARGET_DIR and therefore cannot be touched by this swap."               *)
SharedDataUntouched == \A i \in Shared : shared[i]
=============================================================================
