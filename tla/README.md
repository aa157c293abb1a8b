# Verification of the Minecraft Bedrock handheld port

TLA+ models of the run-time logic of this repository, the TLC runs that check
them on small instances, and TLAPS proofs of what holds for every instance.
Paths are relative to the repository; `PM` stands for
`portmaster/minecraftbedrock/minecraftbedrock`.

The port starts an unmodified Bedrock client on ARM handhelds. Around it stand
shell scripts that own the device for the length of a session, a Python state
machine that picks how safely to launch, transactions that move the player's
data, replace the port and install the game, and, on the two-screen RG DS, a hook library in the game's process
and a daemon that draws the lower screen. The programs are small; what makes
them hard is that any of them may be cut off by a power switch, that they talk
through files, shared memory and key presses, and that they run on firmware
nobody here owns.

## 1. Inventory

| Part | Keeps | Does | What makes it correct |
|---|---|---|---|
| Failsafe ladder (`PM/failsafe_state.py`, `PM/lib/failsafe.sh`) | `launch_state.json`: per key (build, CFW, version, ABI) rung, floor, streak, pending | plan a rung before the launch, record the outcome after it | escalates on evidence only, never forgets it, climbs back carefully, never goes under a rung known bad |
| Stage breadcrumb (`PM/lib/common.sh`) | `logs/stage.txt`, one file for all keys | begin a run, name its stage | the next run reads where the last one stopped |
| Launcher (`Minecraft Bedrock.sh`) | the settings and the version of this run | setup, menu, version, plan, launch, record, give back | each step runs once and in order, also when the player leaves |
| Game runners (`PM/run_bedrock.sh`, `run_bedrock32.sh`) | environment, an instance lock (32 bit) | pick libraries and profile, start the client | the exit status says what happened |
| Launch session (`PM/weston_launch.sh`) | frontend, governors, framebuffer mode, and what it changed of them | take the device over, start the wrapper, wait, clean up | the device is given back whatever happens |
| Startup watchdog (`PM/lib/watchdog.sh`) | stall and elapsed counters | end a client without progress | never a slow one, always a stuck one |
| Shared-data migration (`PM/lib/migrate_data.sh`) | `migration.pending`, the moved directories, links or bind mounts | move `apk`, `versions`, `profiles`, `backups` out of the port | no file is lost; the game never sees half |
| Port updater (`PM/update_port.sh`) | `WORK`, the program directory, its rollback, the entry script | fetch, verify, set settings aside, swap, put them back | after any failure there is a program, after most the old one with its settings; the player's data is not touched |
| On-device downloader (`PM/downloader/*`) | a staging directory, `apk/`, a result file | sign in, fetch, verify, exchange | APKs are replaced as a set, or not at all |
| APK installation (`PM/setup_apk.sh`, `apkmeta.py`, `apk_groups.py`, ...) | `versions/<v>`, a staging directory, a journal | validate, extract, rename into place, roll back what a journal names | a version is whole or owned by the journal; versions the player has are never touched |
| Menu (`PM/menu/main.lua`) | a cursor, result files | ask the player | the launcher reads only complete answers |
| Screenshot watcher (`PM/screenshot_watch.py`) | key state per input device | chord to screenshot | no stuck key after a device goes |
| Companion bridge (`bottomscreen/telemetry/companion_bridge.c`) | one queued move, one unconfirmed move, published slots, a status word | submit inventory moves on the game thread, predict, confirm, roll back | client and server agree; what is reported is so |
| Frame cache (`bottomscreen/telemetry/frame_freezer.c`) | one framebuffer copy | hide the native inventory on the upper screen | shown only while needed |
| Lower-screen daemon (`bottomscreen/bottomd/*`) | page, gesture, flip, panels, the open inventory context | draw, route touches to itself or the game, send commands | every finger and key it puts down comes up, every screen it opens is closed |
| Telemetry and mirror records (`telemetry_writer.c`, `mirror_writer.c`, `bottomd/mirror.c`) | one seqlocked record each | publish samples to a reader, on both sides of which processes come and go | a reader never uses half a record, and notices when nothing comes |
| RGDS session and keyboard (`release/rgds_session.sh`, `release/input_state.py`, `device/osk_*.sh`, `device/thor-keyboard.sh`, `device/osk_supervisor.py`) | pid files, the claim of the keyboard, the service the firmware ran | start and stop the lower screen, show, hide and supervise the keyboard | the keyboard never covers the screen for good, nothing outlives the session, the firmware's own service comes back |
| Terrain map (`bedrockmap/bedrockmap.cpp`, `bottomd/terrain_loop.sh`) | a copy of the world database, one list of waypoints per world | follow the world that is open, switch its waypoints, render tiles | a mark stays with its world, works on a consistent copy |
| PC acquisition tool (`tools/mcbedrock-get`) | a download directory | sign in and download | outside the device |
| Build, packaging, patches (`scripts`, `source_release`) | nothing at run time | | |

How they interact: the launcher calls the migration, the menu, the ladder's
`plan`, the runner, and the ladder's `record`, in that order; the runner calls
`weston_launch.sh`, which starts both watchdogs beside the wrapper; the startup
watchdog and the runner write the breadcrumb the ladder reads one run later.
The menu starts the downloader and the installer as children and waits for
them; a result file carries the names from one to the other. The updater runs
the migration first and swaps the directory the launcher runs from. On the RG DS
the daemon and the bridge share one command record and one state record and have
the game's inventory key as a second, unreliable channel; the telemetry record
tells the daemon where the player is and which screen the game shows.

What is hard: power cuts between any two steps (ladder, breadcrumb, migration,
updater, installer, downloader); ways back that are written for some failures
and not for others (updater, downloader); signals between two commands and
processes watching each other (session, watchdogs); several actors and a network
between a tap and its confirmation (companion); memory shared without a lock
(telemetry); fingers that are down while the owner of a panel changes (lower
input); evidence kept in two places with different lifetimes (ladder and
breadcrumb, journal and metadata). `PROJECT.json` lists the hazards by line, with
the properties that stand against each.

## 2. Plan

In order of what a fault costs the player; all but the last two are built.
Proofs are in modules named after what they are about, with `Proofs` at the end; those of
`LowerInput`, `WaypointStore` and `OskCover` are together in `LowerScreenProofs`.

1. `FailsafeState`, `FailsafeLadder` - proved.
2. `SharedData` (abstract), `DataMigration` refining it - proved.
3. `LaunchSession` - proved.
4. `PortUpdate` - proved.
5. `ApkInstall`, `ApkPublish` and their composition `ApkStore` - proved, the installer's
   part by way of a refinement.
6. `CompanionMove` - its bookkeeping proved, and with a prompt server what it reports.
7. `TelemetryRecord` - proved.
8. `LowerInput` - proved.
9. `WaypointStore` - proved.
10. `OskCover` - proved; `MCLowerScreen` runs both.
11. Left: the object guards of the companion bridge and a player who leaves the
   world during a confirmation; today both are assumed away.
12. Left: `RgdsSession`, the start and stop of the lower-screen services with their
   eight-second kill, composed with `LaunchSession`.

"Proved" means every safety property of the passing runs; section 5 says from which
assumptions. What the runs check under fairness is not proved. Worth proving next:
the same for `RgdsSession`, and that `ApkPublish` implements an exchange in one step,
which today is said by its three properties.

## 3. Modules

### FailsafeState, FailsafeLadder

`FailsafeState` is the arithmetic of `failsafe_state.py`: `PlanEntry`/`PlanRung`
for `plan`, `ClassifyRecorded`, `RecordEntry` for `record`, `EntryFor` for the
range check of every load. A ladder entry is what the file keeps of a key, minus
the fields that are written and never read.

`FailsafeLadder` puts it into runs of the launcher. `ladder` is
`launch_state.json` (replaced by rename, hence whole), `crumb` is `stage.txt`
(truncated and rewritten, hence possibly empty after a cut). Actions: `Boot`
(`mcpe_stage_begin` takes the old breadcrumb), the setup stages,
`ChooseVersion` (completes the key, reads the pin), `LeaveBeforePlan`, `Plan` or
`PlanFails` (the script cannot run: rung 0, no pending mark), the launch stages,
`GameReturns`, `Record` or `RecordFails`, the final stages, and `PowerLoss`
anywhere. Rung 3 does not start the game (`"diagnostic"`). History
variables hold what an observer saw: failures per key, clean returns in a row,
whether a pin ever chose, and where an attempt died.

### SharedData, DataMigration

`SharedData` is the promise: files of an item are in the old or the shared place
and never in neither; nothing leaves the old place while the game runs; the game
starts only when nothing is left there.

`DataMigration` is `migrate_data.sh`, one action per command that changes the
disk: `AnnounceMove` and `AnnounceMount` write the journal line before the act,
`Move` is a rename or, between filesystems, `MoveCopyStep` file by file and then
the deletion; `MakeShared`, `AttachLink`, `MakeMountpoint`, `Mount`; `Commit`; and
the ways back: `Rollback` with `UndoLast` for a failed transaction in the same run,
the same undo from the manifest's lines in `"recover"` at the next launch, and
`MarkRecovered`/`SetRecoveredAside`. A directory is the set of its complete files.
`Crash` cuts anywhere and may take the bind mounts along; `Reboot`, `PlayerAdds`
and `PlayerClears` happen between launches. Not here: the Knulli merge, the RGDS
adoption of an older payload, the free-space check, a failing unmount.

### CompanionMove

A tap on the lower screen to its acknowledgement. Processes: `bottomd` (`Tap`,
`OpenContext`, `CloseContext`), the game thread, which in each frame runs a HUD
tick or not, takes the command, works in the native context and decides about
the cached frame (`HudTick`/`OtherTick`, `ProcessCommand`,
`NotQuiet`/`TakePending`/`CheckInContext`, `TopFrame`, in that order), the network
(`wire`, `answers`, both in order), the server, and the player. The server
accepts a request whose stacks it has, or refuses any. Durations are flags:
`quiet` (100 ms without a HUD tick), `held` (a match held long enough),
`expired` (5 s), `frozen = "due"`. Three switches say what may go wrong: the key
press (`KeyCanFail`), the server's delay (`SlowServer`), the frame time
(`SlowFrames`). History variables hold which moves the server accepted and which were
acknowledged as done (`accepted`, `reported`). `MCCompanionMove` adds only the symmetry of the slots.
Not here: hook installation and object guards, leaving the world, craft and chat
commands, and the seqlock of the two records, which are read and written whole
(`TelemetryRecord` is about one that is not).

### LaunchSession

`weston_launch.sh` from its traps to its exit. `pc` names the command the script
is at; a signal is taken between two commands and leads to `cleanup`, or, once
`CLEANED_UP` is set, to the exit (bash ends an EXIT trap that way). `Tune(p)` is one
turn of the loop that saves and raises a knob, `Tuned` sets
`PERFORMANCE_ACTIVE`. The wrapper and the client are the game: the client may
draw, stop, stick, go on, crash. `mcpe_watchdog_body` and `shutdown_watchdog` are
loops of their own with a counter each; `Second` is one second of all clocks and
waits for a loop that has something to do (`Due`), which gives the loops the
priority a one-second sleep gives them. A pipeline that was killed starts no
client any more; a wrapper that never starts one, a client that only spins, and
clients of other sessions are left out.

### PortUpdate

`update_port.sh`, one action per command: `Verified` or `Rejected` (download, checks
and extraction only write `WORK` and are one choice), `Persist(i)`, `ClearRollback`,
the renames `MoveAside` and `Activate`, `Return(i)` of the settings, `Link(i)`,
`Channel`, the `Entry` script with its `entry.previous`; and the ways back: `Restore` and
`GiveBack(i)` of a failed activation, `RemoveTarget`, `PutBack` and `PutBackEntry` of a
failed link or entry. `before` remembers what this update found, `hits` where something
went wrong. Any command may fail; `Cut` ends the script between two commands, also
inside an `rm -rf`, and loses nothing that is on the disk; `Signal` is INT or TERM,
whose trap removes `WORK` and goes on. Settings are `"own"` or `"fresh"` (what a
payload ships). The shared data hangs below the target as links, which a rename
carries along, or as bind mounts, which move with the directory above them; a
`rm -rf` that meets a mount goes into it.

### ApkInstall, ApkPublish, ApkStore

`ApkInstall` is the transaction of `apkmeta.py`. A version is a set of entries and the
transaction its `version.json` names. Steps: `Start`, the rollback of a journal
found (entry by entry, only what bears the journal's own transaction), `MakeStage`,
`WriteJournal`, `Extract`, one `Commit` per ABI, `Finish`, and the `Except` branch. `Boot` is
`migrate_version_metadata.py`, which gives a version without metadata one of no
transaction; `Delete` is the menu's `rm -rf`. A step may fail (`StepFails`, `EraseFails`), a `Cut` comes anywhere.

`ApkPublish` is the exchange of `downloader/run.sh`: old files aside, new ones into
place, and the undo in the reverse direction, one `mv` per action, then the result
file and the cleanup. A file is the number of the download it is of.

`ApkStore` is the menu between the two: it downloads, hands the names of the result
file to the installer, installs what is in the folder, deletes APKs and versions.
Every step of it is a step of `ApkInstall` or leaves its variables alone
(`StepOfTheInstaller`), so what is proved of the installer holds of the whole.
`MCApkStore` adds only the symmetry of ABIs and file names.

Not here: bytes of APK, ELF and manifest; more than one version of the game (a
second one shares the journal and nothing else); the lock file; sign-in.

### TelemetryRecord

The game's writer (`telemetry_writer.c`) and the daemon's reader (`bottomd.c`,
`mcpe_telemetry_abi.h`) on one record, store by store and load by load: `Camera` and
`Container` begin an update and make the sequence number odd, `Store` stores one field,
`End` makes it even; `Load`, `Copy` of each field, and `Accept` or `Retry` are an attempt of
the reader, who has `Attempts`. The file is created empty and then
sized, so that a reader may map it before it has bytes; touching it then is a
SIGBUS (`"crashed"`). The game may end at any step and start again on the same
file, whose record it then initialises in place. Ages are ticks that saturate
past `Stale`. The death, frame and peer fields are left out: nothing decides on
them across two samples. Stores are taken to be seen in program order, which is
what the release fences of the writer ask for.

### LowerInput

Fingers on both panels to taps, tabs, pans and to the game. One frame of bottomd is
`Sample` (the page follows the game's screens), `Release`, `Flip`, then the reading of the
panels report by report (`PollGame` until `GamePolled`, `PollInterface` until
`InterfaceRead`), and one step per event; the player's `Press`, `Slide`, `Lift` and `PressSelect` come between frames, and so
does `Enumerate`, with which Sway learns of a new device. A panel has a queue of
reports; a poll hands over at most `MaxEvents` of them and drops the rest of what it read
(`lost` for the game, `cut` for the interface). `tch_slider` outlives gestures, as in
the code. History variables hold where a gesture began, which panel the interface was
last read from (`driver`) and which page a game screen covered.

Not here: the CHAT page, what a tap on the map does, a panel that cannot be grabbed, the fallback
without evdev and what Sway delivers of the upper panel after the INPUT page's button, failing
writes to uinput, a second finger.

### WaypointStore

`terrain_loop.sh` beside the frames of bottomd, on the files they share. The script: `Select`
(the world is another), `KeepOpen` and `KeepWrite` (cp of the old list under the old
world's name), `Glob` with `ClearList`, `ClearTmp`, `ClearLabel` (the removal loop, whose globs
are expanded first), `LoadList` and `WriteList`, `NameList` (the label). bottomd: `Publish`
(where the player is), `Poll` and `Read` (the time of the file, then its lines), `Tap` and
`SaveRename`. The player opens worlds (`Enter`), joins servers (`Join`) and taps. `Cut` ends the
session between any two commands, `Start` begins the next. The time of the file counts in
seconds: `same`, `seenNow`, `listNow` say what bottomd's remembered time and the file's have to
do with each other and with the current second, `Tick` ends it. `mine` tells whether the open
file of cp is still the one under the name. `own` is what the player meant. `Patient` is a
player who taps only when the switch is over and the map shows the world's own list.
Not here: failing copies and writes, a list longer than the daemon's limit, the rendering.

### OskCover

The keyboard of the RG DS: `osk_show.sh` (`ShowCall`, and `Check` to `Signal` with the wrapper's
`start` and `show`), `osk_hide.sh` (`HideCall`, and `Unclaim` to `Braces` with the wrapper's
`stop`), `osk_supervisor.py` (`Supervise`, `Age`, `Resume`), and the last hide of the session
(`End`). Any number of them run at once, command by command. The keyboard is external: it maps
its window (a cover), installs its handlers, crashes or hangs when it likes; a hung one
ignores SIGTERM. Time limits of the scripts may pass at any moment (`WaitReady`).
Not here: `osk_watchdog.py`, which `osk_show.sh:63` starts if it is there and which the
release does not ship; where the window is placed; the game's focus; a Sway that does not
answer the supervisor, and the twenty seconds after which it gives its hide up.

`MCLowerScreen` puts the two models into one run. They share no variable, so every behaviour
of both is one of each beside the other: TLC picks at the start which moves.

## 4. Runs

| Run | States | Checks | Shows |
|---|---|---|---|
| `ladder` | 1.58 M | `FloorIsEvidence`, `NeverBelowFloor`, `ClimbsAfterTwoClean`, `EscalatesOnOwnEvidence`, `HangIsCounted` | the ladder's rules over any history of one key |
| `migration` | 1.63 M | `ReachesEverything`, `KeepsPromise` | between two filesystems with bind mounts, every fault and cut: the game sees every file, and `SharedData`, which never loses one, is implemented |
| `migration_links` | 135 k | `NoFileLost`, `FailedTransactionIsUndone`, `InterruptedTransactionIsUndone`, `EventuallyPlays` | on one filesystem with links no file is lost, the undo is exact and the launcher gets through in the end |
| `session` | 1.06 M | `RestoredOnExit`, `OnlyTheStuckAreEnded`, `HungSessionEnds` | the device is given back and only a stuck client is ended |
| `update` | 129 k | `SurvivesOneTrouble`, `FailureRestoresPrevious`, `DoneIsComplete` | three updates with any failures, cuts and signals: which of them the script's ways back cover |
| `update_mounts` | violated | `SharedDataUntouched` | with bind mounts, the second update deletes the player's data through the rollback |
| `apk_store` | 4.76 M | `InstalledStays`, `ShownIsAccountedFor`, `FailureIsUndone`, `NeverMixed`, `InstallsTheDownload`, `FailedDownloadRestores` | downloads, installations and deletions with failures and cuts anywhere |
| `companion` | 633 k | `AckedOkIsOnServer`, `InSyncAtRest`, `GameLeftAsFound`, `NothingStaysOpen` | three moves with a prompt server that may refuse and may change a slot |
| `companion_faults` | 8.03 M | `OneMoveAtATime` | the bridge's bookkeeping with everything going wrong at once |
| `telemetry` | 1.95 M | `AcceptsOnlyPublished`, `GoneGameIsNoticed`, `LastUpdateArrives` | every interleaving of the loads of a read with the stores of two updates and a restart |
| `lower_input` | 2.41 M | `ContactIsForwarded`, `LiftReachesGame`, `InjectorIsAimed`, `GestureStaysWhereItBegan`, `ClosingRestores` | fingers held over flips, page changes and lost reports |
| `lower_screen` | 433 k | `ListsStay`, `ListArrives`, `EndLeavesNothing`, `CoverEnds` | the switch of waypoints under a daemon that loads and saves them, with the end of a session in between; and overlapping shows and hides of slow, crashed and hung keyboards |

Each property of a passing run has a mutation in `PROJECT.json` (operators ending
in `Bug`) that stands for a slip the code could contain and that violates it.

### Bounds

- `ladder`: one key, pins 0 and 2, no bound on launches: the state is finite
  because streak, rung and floor are. A second key shares only the breadcrumb;
  the properties speak of keys the previous run launched, and the proofs cover
  any number of keys.
- `migration`, `migration_links`: two items and two files. Two items let a fault or
  a cut hit the second after the first is done, and give a journal with two
  entries in an order; two files let a copy be partial. No bound on launches.
- `session`: two knobs (one changed, one not yet), one signal; stall and cap of two
  seconds, a grace of one. What counts is that a counter can be below, at and
  past its limit.
- `update`: `config`, which the script treats on its own, and `fmod`, which a payload
  ships; `apk` and `profiles` shared. Three updates let the rollback of one be the
  leftover of the next, three troubles let a failure hit the way back of another.
  `update_mounts` needs no trouble.
- `apk_store`: two ABIs and two files (a set can be half moved), two installations
  and two downloads (one meets the remains of the other), one failing step of the
  installer, two cuts (the second inside the rollback after the first). Failures of
  the downloader are not bounded.
- `companion`: two slots, one kind of item or none, three moves, one change by the
  server. A second move meets the remains of the first; a third one can meet slots
  published before a rollback of the second, which is where the exception of
  `InSyncAtRest` comes from (section 6). `companion_faults` has two moves, an own move
  and one key press of the player.
- `telemetry`: two values, two attempts per read, two updates, two starts of the
  game. A torn read needs two values and one update; the second lets the first
  attempt fail and the second be torn by another.
- `lower_input`: two tabs and both halves of a page, three presses, two flips (there
  and back), one screen of the game. Three reports between two frames are one more
  than the two events a poll hands over, so a read can overflow, and with two events
  the second of a frame meets what the first has changed.
- `lower_screen`: three worlds (the third tells the old from the new of a switch), two
  marks, two taps, three moves between worlds (away, back and on), one end of a session.
  Two shows overlap, one hide of the game and the supervisor's any number of times, two
  keyboards: one registered, one not. With `Patient` FALSE `ListsStay` fails (section 6).

The type invariants are proved, not run. So are the inductive invariants of section 5, each of
which TLC went through first on an instance like these.

### Fairness

- `DataMigration!FairSpec`: the launcher's own steps go on (a script that is not
  killed runs). `EventuallyPlays` assumes that cuts and failures end, and excuses
  what the player put in the way.
- `CompanionMove!FairSpec`: weak fairness of bottomd's loop, of the frame loop, of
  the clocks and of the server; strong fairness of key and packet arrival, which
  the game takes between frames and so may miss at any one moment but not for
  ever. The player owes nothing.
- `LaunchSession!FairSpec`: the script, both loops and time go on, and no client
  survives KILL. Nothing is asked of the client: it may hang at any point and
  ignore TERM.
- `TelemetryRecord!FairSpec`: bottomd's loop and the clock go on, and the game leaves
  an update it has begun, by its end or by its own. It need never begin one.
- `LowerInput!InputFairSpec`: bottomd's loop goes on; strong fairness of Sway learning of a
  device that stays, since bottomd may remove and make one in between.
- `WaypointStore!Fairness`: the script goes on with a switch, bottomd's frames and the clock
  go on. The player need not do anything, and sessions need not end or begin.
- `OskCover!OskFairness`: scripts that were called go on, the supervisor polls and its clock
  goes on, a keyboard that does not hang starts up. Nobody need call hide, and no keyboard
  need crash.
- The ladder, the updater and the APK store have no liveness property.

Deadlock is checked except where the system may stop: the daemon of `lower_input`
exits, in `telemetry` bottomd dies of a SIGBUS when the game has no start left, and in
`lower_screen` the bounded player or the bounded calls are used up.
A session ends in `Exited`, which stutters.

## 5. Proofs

All theorems hold for every value of the constants under the modules' named
assumptions, and were proved by TLAPS (SMT, Zenon, LS4 for the temporal steps).

`FailsafeLadderProofs`. The state `TypeOK /\ RunOK` is inductive (`RunOK` says
which of the run's variables are set in which phase). `FloorFromObservedFailures`
is inductive by itself over `Record`. `LadderStaysAboveFloor` and
`ClimbNeedsTwoClean` need `OwnChoice`: for a key whose rungs the ladder always chose,
the entry is not below its floor, a running rung is the stored one, and a
stored streak is backed by a proved clean return at that very rung; without the
last part a streak could pay for a climb at another rung.
`EscalationHasEvidence` and `HangIsNotForgotten` rest on the agreement between the
pending mark, the breadcrumb and the history of the last attempt.

`DataMigrationProofs`. `IInv` adds to the type: only directories hold files; a copying
`mv` has its target a subset of its source, or its source a subset of its target
once it deletes (`CopyInProgress`); a move starts on an empty target
(`TargetIsEmpty`); an item about to be attached has an empty source
(`ReadyToAttach`); items before `at` lead to the shared place (`HandledInPlace`). Each
step then either leaves the files, or moves them within one item without loss
(`Effect`), which gives `NothingIsLost`; `HandledInPlace` at the end of the loop gives
`GameReachesEverything`; both together give `MigrationKeepsPromise`, the refinement of
`SharedData`, step by step.

`FailureIsUndone` and `InterruptionIsUndone` rest on `UndoInv`: the list in memory and the
journal name each act of this transaction once, an item's move before its link (`InOrder`), no
further than the loop has come (`Reached`), and each says where its item stands; in
memory an act is named when it is done (`InMemory`), on the disk before it is (`OnDisk`), and
a recovery has put back what it has passed (`Recovering`). Both assume `RenamesAndLinks`, one
filesystem, links, and an undo that does not fail itself. Each part of that is needed: a
copying `mv` that is cut, a mount point not yet journaled, and a rename back that fails
do not leave the item as it was (section 6). That nothing is lost then either is
`NothingIsLost`, which assumes none of it.

`LaunchSessionProofs`. `DeviceRestored`: `Restorable` says at every point that a raised
knob is saved and `PERFORMANCE_ACTIVE` set or about to be, that a changed mode is
known or about to be read back, that a stopped frontend is remembered, and that the
cleanup is entered once. It assumes `SignalsAt \subseteq Recorded`: no signal inside the
tuning loop, before the mode is read back, or inside the cleanup. The
assumption is needed, see section 6. `OnlyStuckClientsEnd` does without it: by `Patient` the
watchdog's own counter is never ahead of the time the client has been still, and a loop
that is past its TERM has sent one; who signals a client then has the reason the
property asks for, wherever the script is.

`PortUpdateProofs`. `OneTroubleIsSurvived`: `Survival` is the strengthening. With at most
one trouble, `Standing` says which of target and rollback is whole, and which is not
there, at every command; if that one trouble was the `rm -rf` of the old rollback, whose
status nobody looks at (the exception the property names), `Unchecked` says where the
script can still be. `Unmountable` keeps mounts away where links work.

`FailureIsTakenBack` and `DoneIsWhole` follow one update through its commands, with links as
both properties ask for what they say of the old program. `Course` has three parts, by the
troubles this update has had. Without one (`Smooth`) the old program with everything in it is
at each command in the place the command leaves it, item by item, its settings in `WORK` too.
With one behind it, either the script has noticed, or will at its next command because `WORK` is
gone, and puts the old program back (`Back`), or it does not and goes on (`Onward`).
`WorkDirectory` says what `WORK` holds at which command, `NewProgram` that from the return of the
settings on the target is whole and new. None of them counts troubles of earlier updates: what
those left is what this one finds.

`ApkStoreProofs`. `Apart`: neither the journal's targets nor what is being removed are
installed versions. `Progress`: targets already renamed are whole, targets already rolled
back are gone, and the journal is this transaction's own. `Found`: what exists during an
installation was found by it or is named in the journal. Their
conjunction is inductive over `ApkInstall`, gives `InstalledStays`,
`ShownIsAccountedFor` and `FailureIsUndone` there, and `StepOfTheInstaller` carries the
three over to `StoreSpec`.

For the folder, `Exchange` says at each phase of the downloader what is in `apk/`, what is aside, and
that the two are of one download each: a file in the folder is an old one until all are
aside, a new one after. `Menu` keeps the installer and the downloader from running at once. From them
`DownloadsAreNotMixed` and `FailedDownloadIsTakenBack`, and, with the result file naming what
was moved, `TheDownloadIsInstalled`.

`CompanionMoveProofs`. `OneMoveAtATime` and `BusyUntilAcknowledged` are proved from
one invariant that relates the daemon's context, the command, `last`, the queued and
the unconfirmed move, the acknowledgement and the busy flag: a context is open
for the newest command only, so a new command meets a bridge that is done. They hold
whatever goes wrong.

`ReportsAreTrue` and `AgreeAtRest` assume `~SlowServer`, an answer within the five seconds, and
follow the one request there is: it is on the wire (`OnTheWire`), or its answer is on the way
back (`OnTheWayBack`), or it was heard (`Heard`), and never two of these, so that the answer the
bridge takes for its own is its own although the code does not compare the id. `Predicted`
says what the client's inventory is to the server's while a move is unconfirmed: the same once
accepted, the same after a rollback before. `AgreeAtRest` excepts, as the run does, a move the
server accepted and the bridge gave up, and `SlowServer` is the other way to that (section 6).

`ScreenIsGivenBack` assumes `~KeyCanFail`: the number of presses under way has the parity of
whether the game shows its inventory and bottomd meant it to (`ScreenFollowsKeys`). A
press lost for good turns it round for the rest of the session.

`TelemetryRecordProofs`. `NeverTorn`: the sequence number is odd inside an update and even between updates
(`Parity`); behind an even number, with no initialisation half done (`Clearing`), is
the last published record (`EvenIsPublished`); fields no longer to be stored are the
new ones (`Stored`); and while the
number the read began with is still there, the fields loaded so far are those of the
published record (`ReadSoFar`). So equal even numbers at both ends mean one record.

`LowerScreenProofs`. `NoFingerIsStranded`: `ContactIsForwarded` is inductive by itself.
`LiftsReachTheGame` needs that the reports of a panel, read or not, tell in the end whether
the finger is down (`Tells`), and that the game holds one only while bottomd has it down and
the reports to come will lift it, or some were dropped (`Followed`). `ClosingGivesThePageBack`:
while `opened` is set, the page shown is the automatic one and the saved page the one that was
covered (`Covered`). `GesturesStay`: an open gesture is of the page it began on
(`Begun`), and no DOWN comes inside it: the events of a read alternate, an UP before each DOWN,
and continue what bottomd holds of the panel it reads (`Queued`). `Queued` is why the
property excepts a change of that panel in the middle of a gesture (`cut`).
`PatientListsStay`: `Placed` says, for every command of the switch, which file holds the marks of
which world, and `Saving` what a tap being saved will make of them; neither holds of a
torn session, nor without a patient player. `NothingIsLeft`: `Ending` follows the last hide
of the session, which meets at most the registered keyboard, past the SIGTERM it may
lose to the SIGKILL it cannot. `TypeCorrect` and `OskTypeCorrect` come first.

Checked by TLC only is what is said under fairness, which is out of the prover's reach as
ENABLED is: `EventuallyPlays`, `HungSessionEnds`, `NothingStaysOpen`, `GoneGameIsNoticed`,
`LastUpdateArrives`, `InjectorIsAimed`, `ListArrives`, `CoverEnds`. The violated property of
`update_mounts` has its counterexample there.
No module declares a RECURSIVE operator, and nothing needs induction over data.

## 6. Where code and documents disagree

With a run and a finding in `PROJECT.json`: the second update of a port whose shared data
is bind mounted (`update_mounts`). The others were seen on variants of these models and
are kept here for whoever changes the code.

Ladder, migration and session:

- A hang is forgotten when a run in between ends in the menu: it overwrites the
  breadcrumb (docs/FAILSAFES.md:26-28; `failsafe_state.py:142`).
- A hang that starts 30 s after the start is recorded as `late_failure` and does not
  escalate (docs/FAILSAFES.md:131-133; `failsafe_state.py:125`).
- The breadcrumb is one file, the pending mark is per key. A session of version 1
  interrupted in play (`first-frame`), then a start of version 2 that stops at
  `abi`: the next launch of version 1 escalates, although docs/FAILSAFES.md:30-33
  says an interruption in play is not a failure.
- `record` stores the rung of a pinned launch without looking at the floor: after
  a failure at rung 1 one clean launch pinned to 0 leaves the entry at 0, and
  without the pin the ladder launches there, below its floor (docs/FAILSAFES.md:23-25).
- "It returns to normal by itself after two good launches"
  (`Minecraft Bedrock.sh:1352`) does not hold after an observed failure: the floor
  never comes down.
- A `mv` between two filesystems is a copy and a deletion. A cut inside it leaves files on
  both sides; the recovery skips the move (`migrate_data.sh:99`), sets the manifest aside, and
  every later launch refuses the item as a collision, although the comment at 258 says an
  interrupted transaction is rolled back. No file is lost.
- A mount point is made before it is journaled (`migrate_data.sh:60`). A cut in between
  leaves an empty directory at the old path, and the undo does not move the files
  back over it; the same launch then carries on forward and nothing is lost.
- With `"tune"` or a cleanup point in `SignalsAt`, TLC finds `RestoredOnExit`
  violated: `PERFORMANCE_ACTIVE` is set after the whole loop (`weston_launch.sh:204`),
  and a second signal ends the script inside its cleanup (`weston_launch.sh:271`).

Updater (`update_port.sh`):

- The settings are in `WORK` from line 105 on. A failing rename at 110, link at 139-143
  or entry at 152-157 leaves through `WORK`'s removal: the old program is back without
  them.
- The trap removes `WORK` and does not exit (67): the script goes on without it.
- `rm -rf` of the old rollback is not checked (109); a cut between 110 and 113 leaves no
  program directory, only the rollback.
- A setting that cannot be copied back is dropped silently (122).

APKs:

- `ALREADY_INSTALLED` leaves the journal and the staging directory (TESTING.md:233), and
  a set of which one ABI is present fails with a KeyError (`apkmeta.py:939`; comment
  at 906).
- A rollback or `rm -rf` that was cut after it removed `version.json` leaves a directory
  that every later installation refuses until the player deletes the version; a cut
  deletion comes back as a version of an earlier port, by the backfill.
- A cut before the journal leaves the staging directory for good.
- `run.sh:546` returns at once when an old APK cannot be moved aside; those already
  aside are deleted with the staging directory (README.md:165). A power cut leaves
  them in a staging directory nobody looks at.
- A failing cleanup makes a published download a failed one; a result file that
  cannot be written is not noticed, and a request without surviving names installs
  every APK in the folder (`menu_do_install`).

Lower screen:

- An answer of the server after the five seconds leaves client and server apart
  (`companion_bridge.c:895`; its comment at 8-10).
- A lost key press leaves the cached frame up (`bottomd.c:921`; `frame_freezer.c:1-4`).
- A rollback of a move is not published before the next frame (`companion_bridge.c:1299`, before
  1304); a move taken in that frame expects its contents from the slots published before
  (1068), waits for slots that cannot appear and is rolled back after five seconds although the server
  accepted it. It is acknowledged as failed, and client and server differ. TLC finds it with
  `accepted \subseteq reported` dropped from `InSyncAtRest` and three moves, the server prompt.
- Any item-stack response counts as the answer to the move: the request id is stored
  and printed, never compared (`companion_bridge.c:857`).
- A frame longer than 100 ms passes for an absent HUD, and a move is submitted in
  ordinary gameplay (`companion_bridge.c:1363`).
- A failed read has written into the caller's sample (`mcpe_telemetry_abi.h:89`), which
  the daemon's comment takes for untouched (`bottomd.c:1293`).
- A button of the INPUT page flips without opening or closing the top panel and without
  lifting the game's finger (`bottomd.c:963`; "Exactly one owner per panel" at 1437).
  `ContactIsForwarded` and `LiftReachesGame` except such a flip.
- With a next finger's DOWN in the same read as that button's UP, the flip leaves a gesture open
  while the interface goes over to the other panel: the next finger there is ignored as a
  start, and its lift does what the old one began. TLC finds it without the change of the panel in
  `cut`, with `MaxPresses` 4 and `MaxEvents` and `ReadSize` 3 on the spots INPUT and left.
- A tap on the map between the opening of a world and the end of the script's switch to it,
  which includes a rendering pass, is saved into the other world's list or into a file that
  is removed or overwritten (`terrain_loop.sh:113-127`; `bottomd.c:1571-1591` asks only whether
  the world is remote). TLC finds it with `Patient` FALSE.
- A session that ends between the removal of the old list and the new label
  (`terrain_loop.sh:119-130`) leaves a list without its name or a name without its list; the next
  switch then keeps an empty or another list over the kept one (`torn`).
- cp creates the list before it writes it (`terrain_loop.sh:124`); bottomd may load it empty and,
  as the time is in seconds (`bottomd.c:132`), not load it again (`half`).
- Two shows that overlap start two keyboards, which share one log and one pid file. The first
  one's "Running" lets the signal go to the second before it has handlers, and it dies of it
  (`thor-keyboard.sh:12`, 39; its comment at 3-6, `osk_show.sh:52-54`).
- "Kill it outright" (`osk_hide.sh:26-30`) is a SIGTERM: a hung keyboard that is not in the pid
  file covers the screen for good, whatever the supervisor does. `CoverEnds` excepts it.
- At the end of a session a pid file of a keyboard long gone keeps `stop` from the others
  (`thor-keyboard.sh:27`); without a window yet, they outlive it (`stray`).
- The supervisor reads the claim and then hides (`osk_supervisor.py:138`): a show in between
  loses its claim and its keyboard.

## 7. Not modelled

The parts with status `not_modelled` in `PROJECT.json`. Of the RGDS session the keyboard and the
last hide are modelled; its services and `input_state.py` are step 12 of the plan. The menu draws and writes two result files, which
`ApkStore` takes as read; the screenshot watcher holds a key state per device and
nothing else; of the terrain map the switch of worlds is modelled, the rendering works on a copy
and is computation. The PC tool and the
build scripts are programs of their own.

Of the modelled parts, what section 3 names under "not here". The mirror record has the
same protocol as the telemetry record with a ring of frames; the shipped build leaves
it off (`MCPE_MIRROR=0`), and it is not modelled. `rgds_session.sh` removes the shared
files of the mirror and the companion when it starts, not the one of the telemetry,
which is why `TelemetryRecord` lets a second start meet the first one's file.

Of the C and C++ lines, half are Wayland's generated headers, and most of the
rest draws, decodes map tiles, finds symbols or wraps GL calls: computation and output
without a state that two steps could disagree on. The logic modelled here is in a few
hundred lines of C, and in the shell and Python scripts.
