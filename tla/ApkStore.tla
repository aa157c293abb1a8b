------------------------------ MODULE ApkStore ------------------------------
(***************************************************************************)
(* The launcher's menu between the downloader (ApkPublish) and the         *)
(* installer (ApkInstall).  It starts one, waits for it, and after a       *)
(* download that succeeded hands the files named in the result file to the *)
(* installer.  A power cut ends all of it.                                 *)
(***************************************************************************)
EXTENDS ApkInstall

CONSTANTS Files, MaxDownloads

VARIABLES
    apk, fetched, aside, moved, result, phase, gen, held0, hit,
    handed   \* files of the download that are being installed

Downloader == INSTANCE ApkPublish

installer == <<held, tag, journal, staging, pc, tid, wanted, left, erasing, trouble, cuts,
               installed, dismantled, before, outcome>>
downloader == <<apk, fetched, aside, moved, result, phase, gen, held0, hit>>
storeVars == <<installer, downloader, handed>>

InMenu == pc = "idle" /\ phase = "idle"

StoreInit == Init /\ Downloader!Init /\ handed = {}

Launcher ==
    /\ phase = "idle" /\ UNCHANGED <<downloader, handed>>
    /\ Boot \/ Quit \/ \E a \in Abis : Delete(a)

(* The request names files of the folder; without one that exists the      *)
(* installer takes all there are.                                          *)
MenuInstall ==
    /\ InMenu /\ Downloader!There(apk) # {}
    /\ \E set \in SUBSET Abis : Start(set)
    /\ UNCHANGED <<downloader, handed>>

DeleteApk(f) ==
    /\ InMenu /\ f \in Downloader!There(apk)
    /\ apk' = [apk EXCEPT ![f] = Downloader!None]
    /\ UNCHANGED <<installer, fetched, aside, moved, result, phase, gen, held0, hit, handed>>

MenuDownload ==
    /\ InMenu /\ tid < MaxInstalls /\ Downloader!Download
    /\ UNCHANGED <<installer, handed>>

DownloadStep ==
    /\ Downloader!Step /\ UNCHANGED <<installer, handed>>

DownloadFailed ==
    /\ phase = "failed" /\ phase' = "idle"
    /\ held0' = Downloader!NoFiles /\ hit' = {}
    /\ UNCHANGED <<installer, apk, fetched, aside, moved, result, gen, handed>>

Named == {f \in result : apk[f] # Downloader!None}

DownloadDone ==
    /\ phase = "done" /\ phase' = "idle" /\ result' = {} /\ handed' = Named
    /\ held0' = Downloader!NoFiles
    /\ \/ Named = {} /\ UNCHANGED installer
       \/ Named # {} /\ \E set \in SUBSET Abis : Start(set)
    /\ UNCHANGED <<apk, fetched, aside, moved, gen, hit>>

InstallStep ==
    /\ Install /\ UNCHANGED downloader
    /\ handed' = IF pc' = "idle" THEN {} ELSE handed

PowerCut == Cut /\ Downloader!Stop /\ handed' = {}

StoreNext ==
    \/ Launcher \/ MenuInstall \/ MenuDownload \/ DownloadStep \/ DownloadFailed
    \/ DownloadDone \/ InstallStep \/ PowerCut
    \/ \E f \in Files : DeleteApk(f)

StoreSpec == StoreInit /\ [][StoreNext]_storeVars

(***************************************************************************)
(* Properties.                                                             *)
(***************************************************************************)
(* apkmeta.py: splits from different Play downloads are never mixed.  All  *)
(* files of the version in the apk folder are of one download, at every    *)
(* step of an exchange, of its undoing, and after a power cut.             *)
NeverMixed ==
    \A f, g \in Downloader!There(apk) : apk[f] = apk[g]

(* What is installed after a download is of that download, and all of it   *)
(* unless the result file could not be written.                            *)
InstallsTheDownload ==
    handed # {} => /\ \A f \in handed : apk[f] = gen
                   /\ "result" \notin hit => handed = Downloader!There(apk)

(* A download that is not valid, or of which a file could not be moved     *)
(* into the folder, leaves the folder as it was.                           *)
FailedDownloadRestores ==
    phase = "failed" /\ hit \subseteq {"place"} => apk = held0
=============================================================================
