----------------------------- MODULE ApkPublish -----------------------------
(***************************************************************************)
(* downloader/run.sh download: the APK files of one version are fetched    *)
(* into a staging directory, validated, and exchanged for those of the     *)
(* same version in the apk folder; the old ones wait in the staging        *)
(* directory's "previous".  The names of the new ones go into a result     *)
(* file for the launcher.                                                  *)
(*                                                                         *)
(* One action per mv, in any order.  A mv, the result file or the cleanup  *)
(* may fail; rm -f of a file just moved does not.  A power cut or a signal *)
(* ends the script between two steps and leaves the staging directory,     *)
(* which no later download looks at.  Sign-in and fetching are one step,   *)
(* which files they yield and whether they validate a free choice.         *)
(* Definitions ending in Bug are mutations.                                *)
(***************************************************************************)
EXTENDS Naturals

CONSTANTS
    Files,         \* names of the version's APK files
    MaxDownloads   \* bound: downloads started

VARIABLES
    apk,       \* apk[f]: which download the file in the apk folder is of
    fetched,   \* files in the staging directory
    aside,     \* aside[f]: the same of the file in staging/previous
    moved,     \* names already in the apk folder
    result,    \* names in the result file
    phase,     \* step of the script; "done" or "failed" until the launcher looks
    gen,       \* this download
    (* history *)
    held0,     \* apk as the download found it
    hit        \* steps of this download that failed

card == <<apk, fetched, aside>>
vars == <<apk, fetched, aside, moved, result, phase, gen, held0, hit>>

None == 0                           \* no such file; 1 is the player's own
NoFiles == [f \in Files |-> None]
There(folder) == {f \in Files : folder[f] # None}
Phases == {"fetch", "validate", "aside", "place", "undo", "restore", "result", "clean", "drop"}

Init ==
    /\ apk \in [Files -> {None, 1}] /\ fetched = {} /\ aside = NoFiles
    /\ moved = {} /\ result = {} /\ phase = "idle" /\ gen = 1
    /\ held0 = NoFiles /\ hit = {}

Goes(to) == phase' = to /\ UNCHANGED hit
FailsTo(to) == phase' = to /\ hit' = hit \cup {phase}

Download ==
    /\ phase = "idle" /\ gen <= MaxDownloads /\ gen' = gen + 1
    /\ result' = {} /\ phase' = "fetch" /\ held0' = apk /\ hit' = {}
    /\ UNCHANGED <<card, moved>>

(* No runtime, no session, no staging directory.                           *)
NotFetched ==
    /\ phase = "fetch" /\ Goes("failed")
    /\ UNCHANGED <<card, moved, result, gen, held0>>

Fetch(set) ==
    /\ phase = "fetch" /\ Goes("validate") /\ fetched' = set
    /\ UNCHANGED <<apk, aside, moved, result, gen, held0>>

(* Without a valid set, or if "previous" cannot be made, nothing is moved. *)
Validate ==
    /\ phase = "validate"
    /\ Goes("drop") \/ (fetched # {} /\ Goes("aside"))
    /\ UNCHANGED <<card, moved, result, gen, held0>>

SetAside(f) ==
    /\ phase = "aside" /\ apk[f] # None /\ Goes("aside")
    /\ aside' = [aside EXCEPT ![f] = apk[f]] /\ apk' = [apk EXCEPT ![f] = None]
    /\ UNCHANGED <<fetched, moved, result, gen, held0>>

AllAsideBug ==   \* the pattern misses some of the old files
    /\ phase = "aside" /\ Goes("place")
    /\ UNCHANGED <<card, moved, result, gen, held0>>

AllAside ==
    /\ phase = "aside" /\ There(apk) = {} /\ Goes("place")
    /\ UNCHANGED <<card, moved, result, gen, held0>>

(* The function returns at once; what is already aside stays there.        *)
SetAsideFails ==
    /\ phase = "aside" /\ There(apk) # {} /\ FailsTo("drop")
    /\ UNCHANGED <<card, moved, result, gen, held0>>

Place(f) ==
    /\ phase = "place" /\ f \in fetched /\ Goes("place")
    /\ fetched' = fetched \ {f} /\ apk' = [apk EXCEPT ![f] = gen] /\ moved' = moved \cup {f}
    /\ UNCHANGED <<aside, result, gen, held0>>

AllPlaced ==
    /\ phase = "place" /\ fetched = {} /\ Goes("result")
    /\ UNCHANGED <<card, moved, result, gen, held0>>

PlaceFailsBug ==   \* the new ones are not taken back
    /\ phase = "place" /\ fetched # {} /\ FailsTo("restore")
    /\ UNCHANGED <<card, moved, result, gen, held0>>

PlaceFails ==
    /\ phase = "place" /\ fetched # {} /\ FailsTo("undo")
    /\ UNCHANGED <<card, moved, result, gen, held0>>

TakeBack(f) ==
    /\ phase = "undo" /\ f \in moved /\ Goes("undo")
    /\ apk' = [apk EXCEPT ![f] = None] /\ moved' = moved \ {f}
    /\ UNCHANGED <<fetched, aside, result, gen, held0>>

AllTakenBackBug ==   \* the old ones are not put back
    /\ phase = "undo" /\ moved = {} /\ Goes("drop")
    /\ UNCHANGED <<card, moved, result, gen, held0>>

AllTakenBack ==
    /\ phase = "undo" /\ moved = {} /\ Goes("restore")
    /\ UNCHANGED <<card, moved, result, gen, held0>>

Restore(f) ==
    /\ phase = "restore" /\ aside[f] # None /\ Goes("restore")
    /\ apk' = [apk EXCEPT ![f] = aside[f]] /\ aside' = [aside EXCEPT ![f] = None]
    /\ UNCHANGED <<fetched, moved, result, gen, held0>>

(* The others are still tried: at most these stay in the staging directory. *)
Restored ==
    /\ phase = "restore"
    /\ (There(aside) = {} /\ Goes("drop")) \/ (There(aside) # {} /\ FailsTo("drop"))
    /\ UNCHANGED <<card, moved, result, gen, held0>>

(* No command here is checked: the file may be short, or not there.        *)
WriteResult ==
    /\ phase = "result"
    /\ \/ Goes("clean") /\ result' = moved
       \/ \E part \in (SUBSET moved) \ {moved} : FailsTo("clean") /\ result' \in {part, result}
    /\ UNCHANGED <<card, moved, gen, held0>>

(* The removal of the staging directory is the script's exit status.       *)
Clean ==
    /\ phase = "clean"
    /\ \/ Goes("done") /\ aside' = NoFiles
       \/ FailsTo("drop") /\ UNCHANGED aside
    /\ moved' = {}
    /\ UNCHANGED <<apk, fetched, result, gen, held0>>

Drop ==
    /\ phase = "drop" /\ Goes("failed")
    /\ fetched' = {} /\ aside' = NoFiles /\ UNCHANGED <<apk, moved, result, gen, held0>>

Stop ==
    /\ phase' = "idle" /\ fetched' = {} /\ aside' = NoFiles /\ moved' = {}
    /\ held0' = NoFiles /\ hit' = {} /\ UNCHANGED <<apk, result, gen>>

Step ==
    \/ NotFetched \/ Validate \/ AllAside \/ SetAsideFails \/ AllPlaced \/ PlaceFails
    \/ AllTakenBack \/ Restored \/ WriteResult \/ Clean \/ Drop
    \/ \E set \in SUBSET Files : Fetch(set)
    \/ \E f \in Files : SetAside(f) \/ Place(f) \/ TakeBack(f) \/ Restore(f)
=============================================================================
