-------------------------- MODULE TelemetryRecord --------------------------
(***************************************************************************)
(* The telemetry record in shared memory: the game writes it, bottomd      *)
(* reads it once per frame.  Nothing but a sequence number protects it:    *)
(* odd while the writer is inside an update, even when it is not.          *)
(*                                                                         *)
(* A step of the writer stores one field and a step of the reader loads    *)
(* one.  Stores are seen in program order, and the sequence number does    *)
(* not wrap.  The file is created empty and then sized.  The game may end  *)
(* at any step and be started again on the same file: the session removes  *)
(* the file when it ends, so a life of the file is one behaviour, and a    *)
(* second start is one whose session script was killed.  Ages count ticks  *)
(* of the clock and saturate.                                              *)
(* Definitions ending in Bug are mutations, used by nothing here.          *)
(***************************************************************************)
EXTENDS Naturals, Sequences

CONSTANTS
    Places,      \* what a camera update may say
    Origin,      \* all zeroes
    Attempts,    \* tries of one read; 8 in the code
    Stale,       \* stale_ns, in ticks
    MaxWrites,   \* bound: updates of the record
    MaxStarts    \* bound: starts of the game

ASSUME RecordAssumption ==
    /\ Origin \in Places
    /\ Attempts \in Nat \ {0} /\ Stale \in Nat /\ MaxWrites \in Nat /\ MaxStarts \in Nat

Never == Stale + 2         \* update_ns is zero
Ages == 0 .. Never
Fields == {"magic", "flags", "age", "place"}
Flags == {"container", "remote"}
Record == [magic : BOOLEAN, flags : SUBSET Flags, age : Ages, place : Places]

Zero == [magic |-> FALSE, flags |-> {}, age |-> Never, place |-> Origin]
Initial == [Zero EXCEPT !.magic = TRUE]

VARIABLES
    (* the file *)
    file,       \* "absent", "empty" or "sized"
    seq, mem,   \* the sequence number, and the record's fields
    (* the game *)
    game,       \* "down", "open", "init", "idle" or "write"
    new, todo,  \* the values of the update, and the fields still to be stored
    (* bottomd *)
    daemon,     \* where it is in its frame; "crashed" after a SIGBUS
    mapped,     \* shm is mapped
    s1, left, tries,  \* the read: first sequence number, fields to load, attempts
    t,          \* the sample every later step of the frame uses
    have,       \* have_data
    mode,       \* cur_mode
    (* history *)
    published,  \* the record as the last complete update left it
    partial,    \* an initialisation has begun and not ended
    reset,      \* one was under way at some time since the read began
    writes, starts

shm == <<file, seq, mem, published, partial>>
writer == <<game, new, todo, writes, starts>>
reader == <<daemon, mapped, s1, left, tries, t, have, mode>>
vars == <<shm, writer, reader, reset>>

TypeOK ==
    /\ file \in {"absent", "empty", "sized"}
    /\ seq \in Nat /\ s1 \in Nat
    /\ {mem, new, t, published} \subseteq Record
    /\ game \in {"down", "open", "init", "idle", "write"}
    /\ todo \in Seq(Fields \cup {"seq"})
    /\ daemon \in {"top", "load", "copy", "use", "crashed"}
    /\ mapped \in BOOLEAN /\ have \in BOOLEAN /\ partial \in BOOLEAN /\ reset \in BOOLEAN
    /\ left \subseteq Fields
    /\ tries \in 0 .. Attempts
    /\ mode \in {"NOSIGNAL", "STALE", "PAGE"}
    /\ writes \in 0 .. MaxWrites /\ starts \in 0 .. MaxStarts

Init ==
    /\ file = "absent" /\ seq = 0 /\ mem = Zero /\ published = Zero
    /\ game = "down" /\ new = Zero /\ todo = <<>>
    /\ daemon = "top" /\ mapped = FALSE /\ s1 = 0 /\ left = {} /\ tries = 0
    /\ t = Zero /\ have = FALSE /\ mode = "NOSIGNAL"
    /\ partial = FALSE /\ reset = FALSE /\ writes = 0 /\ starts = 0

(***************************************************************************)
(* The game.                                                               *)
(***************************************************************************)

(* shm_open with O_CREAT: a new file has no bytes yet. *)
Open ==
    /\ game = "down" /\ starts < MaxStarts
    /\ game' = "open" /\ starts' = starts + 1
    /\ file' = IF file = "absent" THEN "empty" ELSE file
    /\ UNCHANGED <<seq, mem, published, partial, new, todo, writes, reader, reset>>

(* ftruncate and mmap; the memcpy of the initial record comes next, in the *)
(* order of the addresses.                                                 *)
Size ==
    /\ game = "open"
    /\ file' = "sized" /\ game' = "init"
    /\ new' = Initial /\ todo' = <<"magic", "seq", "flags", "age", "place">>
    /\ UNCHANGED <<seq, mem, published, partial, writes, starts, reader, reset>>

Place(f) ==
    IF f = "seq" THEN seq' = 0 /\ UNCHANGED mem
    ELSE seq' = seq /\ mem' = [mem EXCEPT ![f] = new[f]]

(* One store of the memcpy: the sequence number is not odd meanwhile. *)
Clear ==
    /\ game = "init" /\ todo # <<>>
    /\ Place(Head(todo)) /\ todo' = Tail(todo) /\ partial' = TRUE /\ reset' = TRUE
    /\ UNCHANGED <<file, published, game, new, writes, starts, reader>>

Ready ==
    /\ game = "init" /\ todo = <<>>
    /\ game' = "idle" /\ published' = new /\ partial' = FALSE
    /\ UNCHANGED <<file, seq, mem, new, todo, writes, starts, reader, reset>>

(* write_begin, and the values the update is going to store. *)
Begin(record, fields) ==
    /\ game = "idle" /\ writes < MaxWrites
    /\ game' = "write" /\ seq' = seq + 1 /\ writes' = writes + 1
    /\ new' = record /\ todo' = fields
    /\ UNCHANGED <<file, mem, published, partial, starts, reader, reset>>

(* mcpe_telemetry_camera; the remote flag says whether a game packet was   *)
(* seen in the last five seconds.                                          *)
Camera == \E p \in Places, remote \in BOOLEAN :
    Begin([mem EXCEPT !.place = p, !.age = 0,
                      !.flags = IF remote THEN @ \cup {"remote"} ELSE @ \ {"remote"}],
          <<"place", "age", "flags">>)

(* mcpe_telemetry_container. *)
Container == \E open \in BOOLEAN :
    Begin([mem EXCEPT !.flags = IF open THEN @ \cup {"container"} ELSE @ \ {"container"}],
          <<"flags">>)

Store ==
    /\ game = "write" /\ todo # <<>>
    /\ Place(Head(todo)) /\ todo' = Tail(todo)
    /\ UNCHANGED <<file, published, partial, game, new, writes, starts, reader, reset>>

(* write_end. *)
EndBug ==
    /\ game = "write" /\ todo = <<>>
    /\ game' = "idle" /\ seq' = IF "container" \in new.flags THEN seq ELSE seq + 1
    /\ published' = new
    /\ UNCHANGED <<file, mem, partial, new, todo, writes, starts, reader, reset>>
End ==
    /\ game = "write" /\ todo = <<>>
    /\ game' = "idle" /\ seq' = seq + 1 /\ published' = new
    /\ UNCHANGED <<file, mem, partial, new, todo, writes, starts, reader, reset>>

(* The game ends or is killed, between any two stores. *)
Die ==
    /\ game # "down"
    /\ game' = "down" /\ todo' = <<>> /\ new' = Zero
    /\ UNCHANGED <<shm, writes, starts, reader, reset>>

Game == Open \/ Size \/ Clear \/ Ready \/ Camera \/ Container \/ Store \/ End \/ Die

(***************************************************************************)
(* bottomd.                                                                *)
(***************************************************************************)

(* The head of the frame: map the file if it is there. *)
Top ==
    /\ daemon = "top"
    /\ mapped' = (mapped \/ file # "absent")
    /\ daemon' = IF mapped' THEN "load" ELSE "use"
    /\ tries' = 0
    /\ UNCHANGED <<shm, writer, s1, left, t, have, mode, reset>>

(* A page of a mapping beyond the end of its file cannot be read. *)
SigBus ==
    /\ daemon = "load" /\ tries < Attempts /\ file = "empty"
    /\ daemon' = "crashed"
    /\ UNCHANGED <<shm, writer, mapped, s1, left, tries, t, have, mode, reset>>

GiveUp ==
    /\ daemon = "load" /\ tries = Attempts
    /\ daemon' = "use"
    /\ UNCHANGED <<shm, writer, mapped, s1, left, tries, t, have, mode, reset>>

LoadBug ==
    /\ daemon = "load" /\ tries < Attempts /\ file = "sized"
    /\ s1' = seq /\ left' = Fields /\ daemon' = "copy" /\ reset' = partial
    /\ UNCHANGED <<tries, shm, writer, mapped, t, have, mode>>
Load ==
    /\ daemon = "load" /\ tries < Attempts /\ file = "sized"
    /\ \/ /\ seq % 2 = 1
          /\ tries' = tries + 1
          /\ UNCHANGED <<s1, left, daemon, reset>>
       \/ /\ seq % 2 = 0
          /\ s1' = seq /\ left' = Fields /\ daemon' = "copy" /\ reset' = partial
          /\ UNCHANGED tries
    /\ UNCHANGED <<shm, writer, mapped, t, have, mode>>

(* memcpy(out, shm): straight into the caller's sample, in any order. *)
Copy == \E f \in left :
    /\ daemon = "copy"
    /\ t' = [t EXCEPT ![f] = mem[f]] /\ left' = left \ {f}
    /\ UNCHANGED <<shm, writer, daemon, mapped, s1, tries, have, mode, reset>>

Same == daemon = "copy" /\ left = {} /\ seq = s1

Accept ==
    /\ Same
    /\ have' = (have \/ t.magic) /\ daemon' = "use" /\ s1' = 0
    /\ UNCHANGED <<shm, writer, mapped, left, tries, t, mode, reset>>

Retry ==
    /\ daemon = "copy" /\ left = {} /\ seq # s1
    /\ tries' = tries + 1 /\ daemon' = "load" /\ s1' = 0
    /\ UNCHANGED <<shm, writer, mapped, left, t, have, mode, reset>>

(* resolve_mode, without the opt-in that blanks the screen. *)
resolve_modeBug ==
    IF ~have \/ t.age = Never THEN "NOSIGNAL" ELSE IF "container" \notin t.flags /\ t.age > Stale THEN "STALE" ELSE "PAGE"
resolve_mode ==
    IF ~have \/ t.age = Never THEN "NOSIGNAL" ELSE IF t.age > Stale THEN "STALE" ELSE "PAGE"

(* The rest of the frame, with the sample as the read left it. *)
Use ==
    /\ daemon = "use"
    /\ mode' = resolve_mode /\ daemon' = "top"
    /\ UNCHANGED <<shm, writer, mapped, s1, left, tries, t, have, reset>>

Bottomd == Top \/ SigBus \/ GiveUp \/ Load \/ Copy \/ Accept \/ Retry \/ Use

Aged(r) == [r EXCEPT !.age = IF @ <= Stale THEN @ + 1 ELSE @]
Tick ==
    /\ mem' = Aged(mem) /\ new' = Aged(new) /\ t' = Aged(t) /\ published' = Aged(published)
    /\ <<mem, new, t, published>>' # <<mem, new, t, published>>
    /\ UNCHANGED <<file, seq, partial, game, todo, writes, starts, daemon, mapped, s1, left, tries,
                   have, mode, reset>>

Next == Game \/ Bottomd \/ Tick

Spec == Init /\ [][Next]_vars

(* bottomd runs twenty frames a second, the clock goes on, and the game    *)
(* leaves an update it has begun unless it ends there.                     *)
FairSpec == Spec /\ WF_vars(Bottomd) /\ WF_vars(Tick) /\ WF_vars(Store \/ End)

(***************************************************************************)
(* Properties.                                                             *)
(***************************************************************************)

(* A read that returns success hands over the record as one complete       *)
(* update left it, however the loads and the stores interleave, unless the *)
(* game initialised the record in place during the read.                   *)
AcceptsOnlyPublished == [][Accept /\ ~reset => t = published]_vars

(* When the game is gone for good, the lower screen does not go on as if   *)
(* it were live: the age of the sample is noticed even when the game was   *)
(* killed inside an update and with a container open.                      *)
GoneGameIsNoticed == <>[](game = "down") => <>[](mode # "PAGE" \/ daemon = "crashed")

(* When the game stops updating, what it said last is what bottomd has, if *)
(* bottomd lives: no update is lost for ever to an unlucky read.           *)
LastUpdateArrives ==
    <>[](game = "idle") => <>[](t = published \/ daemon = "crashed")
=============================================================================
