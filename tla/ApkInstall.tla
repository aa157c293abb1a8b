----------------------------- MODULE ApkInstall -----------------------------
(***************************************************************************)
(* apkmeta.py --install: the transaction that turns an APK set into        *)
(* directories below versions/, one per ABI of the set.  It works in a     *)
(* staging directory, names its targets in a journal, renames the staged   *)
(* directories into place and removes the journal; the next installation   *)
(* rolls back what a journal still names.  The launcher's menu removes     *)
(* versions with rm -rf, and every start of the launcher writes the        *)
(* metadata a version lacks.                                               *)
(*                                                                         *)
(* One action per filesystem step; removing a tree is one step per entry,  *)
(* in any order.  A step may fail, and the power may go between two steps. *)
(* One version of the game; the lock on versions/ and the launcher, which  *)
(* waits for the installer, make one process act at a time.  os.sync comes *)
(* before the first rename and renames are durable in their order.  What   *)
(* the inspection of an APK set decides is a free choice.  Definitions     *)
(* ending in Bug are mutations.                                            *)
(***************************************************************************)
EXTENDS Naturals

CONSTANTS
    Abis,         \* arm64, armhf
    MaxInstalls,  \* bound: installations started
    MaxTrouble,   \* bound: failed steps
    MaxCuts       \* bound: power cuts

ASSUME InstallAssumption ==
    MaxInstalls \in Nat /\ MaxTrouble \in Nat /\ MaxCuts \in Nat

VARIABLES
    held,        \* held[a]: entries of the version's directory, "dir" itself too
    tag,         \* tag[a]: the transaction its version.json names
    journal,     \* .install-transaction.json
    staging,     \* transactions whose staging directory is there
    pc,          \* the installer's step; "off": the launcher does not run
    tid,         \* this transaction
    wanted,      \* ABIs of the APK set
    left,        \* targets to rename, or to roll back
    erasing,     \* the version that is being removed
    trouble, cuts,
    (* history *)
    installed,   \* versions that were installed and not deleted
    dismantled,  \* versions whose removal was begun
    before,      \* versions the installation found
    outcome      \* of the last installation

disk == <<held, tag, journal, staging>>
bounded == <<trouble, cuts>>
vars == <<held, tag, journal, staging, pc, tid, wanted, left, erasing, trouble, cuts,
          installed, dismantled, before, outcome>>

Entries == {"library", "assets", "metadata"}
Full == Entries \cup {"dir"}
Whole(a) == held[a] = Full
Exists(a) == held[a] # {}
NoJournal == [tid |-> 0, targets |-> {}]   \* transactions count from 1
Foreign == 0                               \* metadata of no transaction
Steps == {"rollback", "unlink", "mkdir", "journal", "inspect", "extract", "commit", "finish",
          "except", "undo", "undone"}
Bodies == {"erase", "undo erase", "delete"}

TypeOK ==
    /\ held \in [Abis -> SUBSET Full] /\ tag \in [Abis -> 0 .. MaxInstalls]
    /\ \A a \in Abis : held[a] # {} => "dir" \in held[a]
    /\ journal \in [tid : 0 .. MaxInstalls, targets : SUBSET Abis]
    /\ staging \subseteq 0 .. MaxInstalls
    /\ pc \in Steps \cup Bodies \cup {"off", "idle"} /\ tid \in 0 .. MaxInstalls
    /\ wanted \subseteq Abis /\ left \subseteq Abis /\ erasing \subseteq Abis
    /\ trouble \in 0 .. MaxTrouble /\ cuts \in 0 .. MaxCuts
    /\ installed \subseteq Abis /\ dismantled \subseteq Abis
    /\ before \subseteq Abis
    /\ outcome \in {"none", "installed", "present", "failed"}

(* The player may have versions of earlier ports, without metadata or with. *)
Init ==
    /\ held \in [Abis -> {{}, Full, Full \ {"metadata"}}] /\ tag = [a \in Abis |-> Foreign]
    /\ journal = NoJournal /\ staging = {} /\ pc = "off" /\ tid = 0
    /\ wanted = {} /\ left = {} /\ erasing = {} /\ trouble = 0 /\ cuts = 0
    /\ installed = {a \in Abis : Exists(a)} /\ dismantled = {}
    /\ before = {} /\ outcome = "none"

(***************************************************************************)
(* The launcher.                                                           *)
(***************************************************************************)

(* migrate_version_metadata.py: a version whose library is there gets the  *)
(* metadata it lacks, without a transaction.                               *)
Boot ==
    /\ pc = "off" /\ pc' = "idle"
    /\ LET bare == {a \in Abis : "library" \in held[a] /\ "metadata" \notin held[a]} IN
       /\ held' = [a \in Abis |-> IF a \in bare THEN held[a] \cup {"metadata"} ELSE held[a]]
       /\ tag' = [a \in Abis |-> IF a \in bare THEN Foreign ELSE tag[a]]
    /\ UNCHANGED <<journal, staging, tid, wanted, left, erasing, bounded,
                   installed, dismantled, before, outcome>>

Quit ==
    /\ pc = "idle" /\ pc' = "off"
    /\ UNCHANGED <<disk, tid, wanted, left, erasing, bounded, installed, dismantled, before, outcome>>

Delete(a) ==
    /\ pc = "idle" /\ Exists(a)
    /\ pc' = "delete" /\ erasing' = {a}
    /\ installed' = installed \ {a} /\ dismantled' = dismantled \cup {a}
    /\ UNCHANGED <<disk, tid, wanted, left, bounded, before, outcome>>

(* One entry goes; the directory itself when it is empty.                  *)
Erase(a, e) ==
    /\ pc \in Bodies /\ a \in erasing /\ e \in held[a]
    /\ e = "dir" => held[a] = {"dir"}
    /\ held' = [held EXCEPT ![a] = @ \ {e}]
    /\ tag' = IF e = "metadata" THEN [tag EXCEPT ![a] = Foreign] ELSE tag
    /\ UNCHANGED <<journal, staging, pc, tid, wanted, left, erasing, bounded,
                   installed, dismantled, before, outcome>>

(* The tree is gone, or -- rm -rf goes on, shutil.rmtree raises -- it is   *)
(* given up.                                                               *)
Erased ==
    /\ pc \in Bodies /\ \A a \in erasing : ~Exists(a)
    /\ left' = left \ erasing /\ erasing' = {}
    /\ pc' = CASE pc = "erase" -> "rollback" [] pc = "undo erase" -> "undo" [] pc = "delete" -> "idle"
    /\ dismantled' = dismantled \ erasing
    /\ UNCHANGED <<disk, tid, wanted, bounded, installed, before, outcome>>

Fails == trouble < MaxTrouble /\ trouble' = trouble + 1
Over(how) == pc' = "idle" /\ wanted' = {} /\ left' = {} /\ erasing' = {} /\ outcome' = how

EraseFails ==
    /\ pc \in Bodies /\ \E a \in erasing : Exists(a)
    /\ Fails /\ Over(IF pc = "delete" THEN outcome ELSE "failed")
    /\ UNCHANGED <<disk, tid, cuts, installed, dismantled, before>>

(***************************************************************************)
(* rollback_transaction, for a journal that was found and for one's own.   *)
(***************************************************************************)
Mine(a) == "metadata" \in held[a] /\ tag[a] = journal.tid

RollbackNothing(a) ==
    /\ pc \in {"rollback", "undo"} /\ a \in left /\ ~Exists(a) /\ left' = left \ {a}
    /\ UNCHANGED <<disk, pc, tid, wanted, erasing, bounded, installed, dismantled, before, outcome>>

RollbackTarget(a) ==
    /\ pc \in {"rollback", "undo"} /\ a \in left /\ Exists(a) /\ Mine(a)
    /\ erasing' = {a} /\ dismantled' = dismantled \cup {a}
    /\ pc' = IF pc = "rollback" THEN "erase" ELSE "undo erase"
    /\ UNCHANGED <<disk, tid, wanted, left, bounded, installed, before, outcome>>

(* Not tagged as the transaction's: the journal stays.                     *)
Refuse(a) ==
    /\ pc \in {"rollback", "undo"} /\ a \in left /\ Exists(a) /\ ~Mine(a) /\ Over("failed")
    /\ UNCHANGED <<disk, tid, bounded, installed, dismantled, before>>

(* ignore_errors                                                           *)
RollbackStage ==
    /\ pc \in {"rollback", "undo"} /\ left = {}
    /\ \/ staging' = staging \ {journal.tid} /\ UNCHANGED trouble
       \/ Fails /\ UNCHANGED staging
    /\ pc' = IF pc = "rollback" THEN "unlink" ELSE "undone"
    /\ UNCHANGED <<held, tag, journal, tid, wanted, left, erasing, cuts,
                   installed, dismantled, before, outcome>>

Unlink ==
    /\ pc \in {"unlink", "undone"}
    /\ \/ /\ journal' = NoJournal /\ UNCHANGED trouble
          /\ IF pc = "unlink" THEN pc' = "mkdir" /\ UNCHANGED <<wanted, left, erasing, outcome>>
                              ELSE Over("failed")
       \/ Fails /\ Over("failed") /\ UNCHANGED journal
    /\ UNCHANGED <<held, tag, staging, tid, cuts, installed, dismantled, before>>

(***************************************************************************)
(* install                                                                 *)
(***************************************************************************)
Start(set) ==
    /\ pc = "idle" /\ tid < MaxInstalls /\ set # {}
    /\ tid' = tid + 1 /\ wanted' = set /\ before' = {a \in Abis : Exists(a)} /\ outcome' = "none"
    /\ IF journal = NoJournal THEN pc' = "mkdir" /\ left' = {}
                              ELSE pc' = "rollback" /\ left' = journal.targets
    /\ UNCHANGED <<disk, erasing, bounded, installed, dismantled>>

MakeStage ==
    /\ pc = "mkdir" /\ staging' = staging \cup {tid} /\ pc' = "journal"
    /\ UNCHANGED <<held, tag, journal, tid, wanted, left, erasing, bounded,
                   installed, dismantled, before, outcome>>

WriteJournal ==
    /\ pc = "journal" /\ journal' = [tid |-> tid, targets |-> {}] /\ pc' = "inspect"
    /\ UNCHANGED <<held, tag, staging, tid, wanted, left, erasing, bounded,
                   installed, dismantled, before, outcome>>

(* Not one valid set, blocked, or untested and not confirmed.              *)
Reject ==
    /\ pc = "inspect" /\ pc' = "except"
    /\ UNCHANGED <<disk, tid, wanted, left, erasing, bounded, installed, dismantled, before, outcome>>

Present == {a \in wanted : Exists(a)}

(* All of it is there: the function returns, journal and staging stay.     *)
AlreadyInstalled ==
    /\ pc = "inspect" /\ Present = wanted /\ Over("present")
    /\ UNCHANGED <<disk, tid, bounded, installed, dismantled, before>>

ChooseBug ==   \* the journal is not written again
    /\ pc = "inspect" /\ Present # wanted
    /\ left' = wanted \ Present /\ pc' = "extract"
    /\ UNCHANGED <<disk, tid, wanted, erasing, bounded, installed, dismantled, before, outcome>>

Choose ==
    /\ pc = "inspect" /\ Present # wanted
    /\ left' = wanted \ Present /\ journal' = [tid |-> tid, targets |-> left']
    /\ pc' = "extract"
    /\ UNCHANGED <<held, tag, staging, tid, wanted, erasing, bounded,
                   installed, dismantled, before, outcome>>

(* Space check and extraction of every ABI; one that is already present    *)
(* has no target to look up (KeyError).                                    *)
Extract ==
    /\ pc = "extract" /\ pc' = IF Present = {} THEN "commit" ELSE "except"
    /\ UNCHANGED <<disk, tid, wanted, left, erasing, bounded, installed, dismantled, before, outcome>>

Commit(a) ==
    /\ pc = "commit" /\ a \in left
    /\ held' = [held EXCEPT ![a] = Full] /\ tag' = [tag EXCEPT ![a] = tid]
    /\ left' = left \ {a}
    /\ UNCHANGED <<journal, staging, pc, tid, wanted, erasing, bounded,
                   installed, dismantled, before, outcome>>

RemoveStage ==
    /\ pc = "commit" /\ left = {} /\ staging' = staging \ {tid} /\ pc' = "finish"
    /\ UNCHANGED <<held, tag, journal, tid, wanted, left, erasing, bounded,
                   installed, dismantled, before, outcome>>

FinishBug ==   \* the journal stays
    /\ pc = "finish" /\ Over("installed")
    /\ installed' = installed \cup journal.targets
    /\ UNCHANGED <<disk, tid, bounded, dismantled, before>>

Finish ==
    /\ pc = "finish" /\ journal' = NoJournal /\ Over("installed")
    /\ installed' = installed \cup journal.targets
    /\ UNCHANGED <<held, tag, staging, tid, bounded, dismantled, before>>

StepFails ==
    /\ pc \in {"mkdir", "journal", "inspect", "extract", "commit", "finish"}
    /\ Fails /\ pc' = "except"
    /\ UNCHANGED <<disk, tid, wanted, left, erasing, cuts, installed, dismantled, before, outcome>>

ExceptBug ==   \* only the staging directory and the journal are removed
    /\ pc = "except"
    /\ staging' = staging \ {tid} /\ journal' = NoJournal /\ Over("failed")
    /\ UNCHANGED <<held, tag, tid, bounded, installed, dismantled, before>>

(* The handler rolls back what its own journal names, and without one      *)
(* removes the staging directory.                                          *)
Except ==
    /\ pc = "except"
    /\ IF journal # NoJournal
       THEN pc' = "undo" /\ left' = journal.targets /\ UNCHANGED <<staging, wanted, erasing, outcome>>
       ELSE staging' = staging \ {tid} /\ Over("failed")
    /\ UNCHANGED <<held, tag, journal, tid, bounded, installed, dismantled, before>>

Cut ==
    /\ pc # "off" /\ cuts < MaxCuts /\ cuts' = cuts + 1
    /\ pc' = "off" /\ wanted' = {} /\ left' = {} /\ erasing' = {}
    /\ UNCHANGED <<disk, tid, trouble, installed, dismantled, before, outcome>>

Install ==
    \/ RollbackStage \/ Unlink \/ MakeStage \/ WriteJournal \/ Reject \/ AlreadyInstalled
    \/ Choose \/ Extract \/ RemoveStage \/ Finish \/ StepFails \/ Except \/ Erased \/ EraseFails
    \/ \E a \in Abis : \/ RollbackNothing(a) \/ RollbackTarget(a) \/ Refuse(a) \/ Commit(a)
                       \/ \E e \in Full : Erase(a, e)

Next ==
    \/ Install \/ Boot \/ Quit \/ Cut
    \/ \E a \in Abis : Delete(a)
    \/ \E set \in SUBSET Abis : Start(set)

Spec == Init /\ [][Next]_vars

(***************************************************************************)
(* Properties.                                                             *)
(***************************************************************************)

(* README.md: previous versions stay intact.  No installation, failed,     *)
(* interrupted, rolled back or repeated, takes an entry from a version     *)
(* that was installed before and that the player has not deleted.          *)
InstalledStays == \A a \in installed : Full \ {"metadata"} \subseteq held[a]

(* What the menu can show is finished, is being removed, or is named in    *)
(* the journal under its own transaction, so that the next installation    *)
(* may roll it back.                                                       *)
ShownIsAccountedFor ==
    \A a \in Abis : Exists(a) => \/ a \in installed \cup dismantled
                                 \/ a \in journal.targets /\ Mine(a)

(* An installation that failed and has removed its journal leaves no       *)
(* version that it did not find.                                           *)
FailureIsUndone ==
    pc = "idle" /\ outcome = "failed" /\ journal = NoJournal
    => \A a \in Abis : Exists(a) => a \in before
=============================================================================
