----------------------- MODULE TelemetryRecordProofs -----------------------
(***************************************************************************)
(* A successful read is never torn, for any number of updates, starts,     *)
(* attempts and places.                                                    *)
(***************************************************************************)
EXTENDS TelemetryRecord, TLAPS

Pending(f) == \E i \in 1 .. Len(todo) : todo[i] = f

(* While an update or an initialisation runs, the fields it is through     *)
(* with have their values.                                                 *)
Stored == game \in {"write", "init"} => \A f \in Fields : Pending(f) \/ mem[f] = new[f]

(* An initialisation has stored nothing, or is partial.                    *)
Clearing ==
    game = "init" =>
        /\ partial \/ todo = <<"magic", "seq", "flags", "age", "place">>
        /\ Pending("seq") \/ seq = 0

(* The sequence number is odd inside an update, and even outside of one    *)
(* that has not been cut short.                                            *)
Parity ==
    /\ game = "write" => seq % 2 = 1 /\ ~partial /\ ~Pending("seq")
    /\ game = "idle" => seq % 2 = 0 /\ ~partial

(* What is behind an even number is what was published.                    *)
EvenIsPublished == ~partial /\ seq % 2 = 0 => mem = published

(* A read that still may succeed has only loaded what is published.        *)
ReadSoFar ==
    daemon = "copy" /\ ~reset =>
        /\ ~partial /\ s1 % 2 = 0 /\ s1 <= seq
        /\ seq = s1 => \A f \in Fields \ left : t[f] = published[f]

(* A read that is loading has an attempt left.                             *)
TypeInv == TypeOK /\ (daemon = "copy" => tries < Attempts)

IInv == TypeInv /\ Stored /\ Clearing /\ Parity /\ EvenIsPublished /\ ReadSoFar

LEMMA SameFields ==
    ASSUME NEW r \in Record, NEW q \in Record, \A f \in Fields : r[f] = q[f]
    PROVE  r = q
BY DEF Record, Fields

LEMMA AgedType ==
    ASSUME NEW r \in Record
    PROVE  /\ Aged(r) \in Record
           /\ \A f \in Fields \ {"age"} : Aged(r)[f] = r[f]
           /\ Aged(r)["age"] = IF r["age"] <= Stale THEN r["age"] + 1 ELSE r["age"]
BY RecordAssumption DEF Aged, Record, Fields, Ages, Never

LEMMA ZeroType == Zero \in Record /\ Initial \in Record
<1>1. Never \in Ages /\ {} \in SUBSET Flags /\ Origin \in Places
    BY RecordAssumption DEF Ages, Never
<1>2. Zero \in Record
    BY <1>1 DEF Zero, Record
<1> QED
    BY <1>2 DEF Initial, Record

LEMMA InitInv == Init => IInv
<1> SUFFICES ASSUME Init PROVE IInv
    OBVIOUS
<1>1. TypeOK
    <2>1. <<>> \in Seq(Fields \cup {"seq"}) /\ 0 \in 0 .. Attempts /\ 0 \in 0 .. MaxWrites /\ 0 \in 0 .. MaxStarts
        BY RecordAssumption
    <2> QED
        BY <2>1, ZeroType DEF Init, TypeOK
<1> QED
    BY <1>1 DEF Init, IInv, TypeInv, Stored, Clearing, Parity, EvenIsPublished, ReadSoFar, Pending

LEMMA TodoType ==
    ASSUME NEW q \in Seq(Fields \cup {"seq"}), q # <<>>
    PROVE  /\ Head(q) \in Fields \cup {"seq"}
           /\ Tail(q) \in Seq(Fields \cup {"seq"})
           /\ \A i \in 1 .. Len(Tail(q)) : i + 1 \in 1 .. Len(q) /\ Tail(q)[i] = q[i + 1]
           /\ \A i \in 1 .. Len(q) : i = 1 \/ i - 1 \in 1 .. Len(Tail(q))
OBVIOUS

LEMMA UpdateType ==
    ASSUME TypeOK
    PROVE  /\ \A p \in Places, remote \in BOOLEAN :
                [mem EXCEPT !.place = p, !.age = 0,
                            !.flags = IF remote THEN @ \cup {"remote"} ELSE @ \ {"remote"}] \in Record
           /\ \A open \in BOOLEAN :
                [mem EXCEPT !.flags = IF open THEN @ \cup {"container"} ELSE @ \ {"container"}] \in Record
           /\ <<"place", "age", "flags">> \in Seq(Fields \cup {"seq"})
           /\ <<"flags">> \in Seq(Fields \cup {"seq"})
           /\ <<"magic", "seq", "flags", "age", "place">> \in Seq(Fields \cup {"seq"})
<1>1. 0 \in Ages
    BY RecordAssumption DEF Ages, Never
<1>2. mem \in Record
    BY DEF TypeOK
<1>3. mem = [magic |-> mem.magic, flags |-> mem.flags, age |-> mem.age, place |-> mem.place]
      /\ mem.magic \in BOOLEAN /\ mem.flags \subseteq Flags /\ mem.age \in Ages /\ mem.place \in Places
    BY <1>2 DEF Record
<1>4. ASSUME NEW p \in Places, NEW remote \in BOOLEAN
      PROVE  [mem EXCEPT !.place = p, !.age = 0,
                         !.flags = IF remote THEN @ \cup {"remote"} ELSE @ \ {"remote"}] \in Record
    <2> DEFINE F == IF remote THEN mem.flags \cup {"remote"} ELSE mem.flags \ {"remote"}
    <2>1. F \in SUBSET Flags
        BY <1>3 DEF Flags
    <2>2. [mem EXCEPT !.place = p, !.age = 0, !.flags = F] \in Record
        <3> HIDE DEF F
        <3> QED
            BY <1>1, <1>2, <2>1 DEF Record
    <2> QED
        BY <2>2
<1>5. ASSUME NEW open \in BOOLEAN
      PROVE  [mem EXCEPT !.flags = IF open THEN @ \cup {"container"} ELSE @ \ {"container"}] \in Record
    <2> DEFINE F == IF open THEN mem.flags \cup {"container"} ELSE mem.flags \ {"container"}
    <2>1. F \in SUBSET Flags
        BY <1>3 DEF Flags
    <2>2. [mem EXCEPT !.flags = F] \in Record
        <3> HIDE DEF F
        <3> QED
            BY <1>2, <2>1 DEF Record
    <2> QED
        BY <2>2
<1>6. /\ <<"place", "age", "flags">> \in Seq(Fields \cup {"seq"})
      /\ <<"flags">> \in Seq(Fields \cup {"seq"})
      /\ <<"magic", "seq", "flags", "age", "place">> \in Seq(Fields \cup {"seq"})
    BY DEF Fields
<1> QED
    BY <1>4, <1>5, <1>6

LEMMA PlaceType ==
    ASSUME TypeOK, NEW f \in Fields \cup {"seq"}, Place(f)
    PROVE  mem' \in Record /\ seq' \in Nat
<1>1. mem \in Record /\ new \in Record /\ seq \in Nat
    BY DEF TypeOK
<1>2. CASE f = "seq"
    BY <1>1, <1>2 DEF Place
<1>3. CASE f # "seq"
    BY <1>1, <1>3 DEF Place, Record, Fields
<1> QED
    BY <1>2, <1>3

LEMMA BeginType ==
    ASSUME TypeOK, NEW r \in Record, NEW q \in Seq(Fields \cup {"seq"}), Begin(r, q)
    PROVE  TypeOK'
BY RecordAssumption DEF Begin, TypeOK, reader

LEMMA TypeNext == TypeInv /\ [Next]_vars => TypeInv'
<1> SUFFICES ASSUME TypeInv, [Next]_vars PROVE TypeInv'
    OBVIOUS
<1>0. TypeOK /\ (daemon = "copy" => tries < Attempts)
    BY DEF TypeInv
<1>5. CASE Camera
    <2>1. PICK p \in Places, remote \in BOOLEAN :
            Begin([mem EXCEPT !.place = p, !.age = 0,
                              !.flags = IF remote THEN @ \cup {"remote"} ELSE @ \ {"remote"}],
                  <<"place", "age", "flags">>)
        BY <1>5 DEF Camera
    <2>2. TypeOK'
        BY <1>0, <2>1, UpdateType, BeginType
    <2> QED
        BY <1>0, <2>1, <2>2 DEF Begin, TypeInv, reader
<1>6. CASE Container
    <2>1. PICK open \in BOOLEAN :
            Begin([mem EXCEPT !.flags = IF open THEN @ \cup {"container"} ELSE @ \ {"container"}],
                  <<"flags">>)
        BY <1>6 DEF Container
    <2>2. TypeOK'
        BY <1>0, <2>1, UpdateType, BeginType
    <2> QED
        BY <1>0, <2>1, <2>2 DEF Begin, TypeInv, reader
<1> USE <1>0 DEF TypeInv, TypeOK, shm, writer, reader
<1>1. CASE Open
    BY <1>1, RecordAssumption DEF Open
<1>2. CASE Size
    BY <1>2, ZeroType, UpdateType DEF Size
<1>3. CASE Clear
    BY <1>3, TodoType, PlaceType DEF Clear
<1>4. CASE Ready
    BY <1>4 DEF Ready
<1>7. CASE Store
    BY <1>7, TodoType, PlaceType DEF Store
<1>8. CASE End
    BY <1>8 DEF End
<1>9. CASE Die
    BY <1>9, ZeroType DEF Die
<1>10. CASE Top
    BY <1>10, RecordAssumption DEF Top
<1>11. CASE SigBus
    BY <1>11 DEF SigBus
<1>12. CASE GiveUp
    BY <1>12 DEF GiveUp
<1>13. CASE Load
    BY <1>13, RecordAssumption DEF Load
<1>14. CASE Copy
    <2>1. PICK f \in left : /\ t' = [t EXCEPT ![f] = mem[f]] /\ left' = left \ {f}
                            /\ UNCHANGED <<shm, writer, daemon, mapped, s1, tries, have, mode, reset>>
        BY <1>14 DEF Copy
    <2>2. t' \in Record
        BY <2>1 DEF Record, Fields
    <2> QED
        BY <2>1, <2>2
<1>15. CASE Accept
    <2>1. have' \in BOOLEAN
        BY <1>15 DEF Accept
    <2> QED
        BY <1>15, <2>1 DEF Accept
<1>16. CASE Retry
    BY <1>16, RecordAssumption DEF Retry
<1>17. CASE Use
    BY <1>17 DEF Use, resolve_mode
<1>18. CASE Tick
    BY <1>18, AgedType DEF Tick
<1>19. CASE UNCHANGED vars
    BY <1>19 DEF vars
<1> QED
    BY <1>1, <1>2, <1>3, <1>4, <1>5, <1>6, <1>7, <1>8, <1>9, <1>10, <1>11, <1>12, <1>13,
       <1>14, <1>15, <1>16, <1>17, <1>18, <1>19 DEF Next, Game, Bottomd

(* One store takes one field off the list and gives it its value.          *)
LEMMA StoreOne ==
    ASSUME TypeOK, Stored, game \in {"write", "init"}, todo # <<>>,
           Place(Head(todo)), todo' = Tail(todo), UNCHANGED <<game, new>>
    PROVE  /\ Stored'
           /\ \A f : Pending(f)' => Pending(f)
           /\ \A f : Pending(f) => Pending(f)' \/ f = Head(todo)
<1>1. todo \in Seq(Fields \cup {"seq"}) /\ mem \in Record
    BY DEF TypeOK
<1>2. \A f : Pending(f)' => Pending(f)
    BY <1>1, TodoType DEF Pending
<1>3. \A f : Pending(f) => Pending(f)' \/ f = Head(todo)
    <2> SUFFICES ASSUME NEW f, Pending(f) PROVE Pending(f)' \/ f = Head(todo)
        OBVIOUS
    <2>1. PICK i \in 1 .. Len(todo) : todo[i] = f
        BY DEF Pending
    <2>2. CASE i = 1
        BY <1>1, <2>1, <2>2
    <2>3. CASE i # 1
        <3>1. i - 1 \in 1 .. Len(Tail(todo)) /\ Tail(todo)[i - 1] = todo[i]
            BY <1>1, <2>3
        <3> QED
            BY <2>1, <3>1 DEF Pending
    <2> QED
        BY <2>2, <2>3
<1>4. ASSUME NEW f \in Fields, ~Pending(f)'
      PROVE  mem'[f] = new[f]
    <2>1. CASE f = Head(todo)
        <3>1. mem' = [mem EXCEPT ![f] = new[f]]
            BY <2>1 DEF Place, Fields
        <3> QED
            BY <1>1, <3>1 DEF Record, Fields
    <2>2. CASE f # Head(todo)
        <3>1. mem[f] = new[f]
            BY <1>3, <1>4, <2>2 DEF Stored
        <3>2. mem'[f] = mem[f]
            BY <1>1, <2>2 DEF Place, Record, Fields
        <3> QED
            BY <3>1, <3>2
    <2> QED
        BY <2>1, <2>2
<1> QED
    BY <1>2, <1>3, <1>4 DEF Stored

LEMMA BeginInv ==
    ASSUME IInv, NEW r \in Record, NEW q \in Seq(Fields),
           \A f \in Fields : mem[f] = r[f] \/ \E i \in 1 .. Len(q) : q[i] = f,
           Begin(r, q), TypeInv'
    PROVE  IInv'
<1> USE DEF Begin, reader
<1>1. seq \in Nat /\ s1 \in Nat /\ seq % 2 = 0 /\ ~partial /\ seq' = seq + 1 /\ (seq + 1) % 2 = 1
    BY DEF IInv, TypeInv, TypeOK, Parity
<1>2. Stored'
    BY DEF Stored, Pending
<1>3. Clearing'
    BY DEF Clearing
<1>4. Parity'
    <2>1. ~ \E i \in 1 .. Len(q) : q[i] = "seq"
        BY DEF Fields
    <2> QED
        BY <1>1, <2>1 DEF Parity, Pending
<1>5. EvenIsPublished'
    BY <1>1 DEF EvenIsPublished
<1>6. ReadSoFar'
    BY <1>1 DEF ReadSoFar, IInv
<1> QED
    BY <1>2, <1>3, <1>4, <1>5, <1>6 DEF IInv

LEMMA NextInv == IInv /\ [Next]_vars => IInv'
<1> SUFFICES ASSUME IInv, [Next]_vars PROVE IInv'
    OBVIOUS
<1>0. TypeInv'
    BY TypeNext DEF IInv
<1>t. TypeOK
    BY DEF IInv, TypeInv
<1>5. CASE Camera
    <2>1. PICK p \in Places, remote \in BOOLEAN :
            Begin([mem EXCEPT !.place = p, !.age = 0,
                              !.flags = IF remote THEN @ \cup {"remote"} ELSE @ \ {"remote"}],
                  <<"place", "age", "flags">>)
        BY <1>5 DEF Camera
    <2> DEFINE r == [mem EXCEPT !.place = p, !.age = 0,
                                !.flags = IF remote THEN @ \cup {"remote"} ELSE @ \ {"remote"}]
               q == <<"place", "age", "flags">>
    <2>2. r \in Record
        BY <1>t, UpdateType
    <2>3. q \in Seq(Fields) /\ Len(q) = 3 /\ q[1] = "place" /\ q[2] = "age" /\ q[3] = "flags"
        BY DEF Fields
    <2>4. r["magic"] = mem["magic"]
        BY <1>t DEF TypeOK, Record
    <2>5. \A f \in Fields : mem[f] = r[f] \/ \E i \in 1 .. Len(q) : q[i] = f
        <3> HIDE DEF r, q
        <3> QED
            BY <2>3, <2>4 DEF Fields
    <2> HIDE DEF r, q
    <2>6. Begin(r, q)
        BY <2>1 DEF r, q
    <2> QED
        BY <1>0, <2>2, <2>3, <2>5, <2>6, BeginInv
<1>6. CASE Container
    <2>1. PICK open \in BOOLEAN :
            Begin([mem EXCEPT !.flags = IF open THEN @ \cup {"container"} ELSE @ \ {"container"}],
                  <<"flags">>)
        BY <1>6 DEF Container
    <2> DEFINE r == [mem EXCEPT !.flags = IF open THEN @ \cup {"container"} ELSE @ \ {"container"}]
               q == <<"flags">>
    <2>2. r \in Record
        BY <1>t, UpdateType
    <2>3. q \in Seq(Fields) /\ Len(q) = 1 /\ q[1] = "flags"
        BY DEF Fields
    <2>4. r["magic"] = mem["magic"] /\ r["age"] = mem["age"] /\ r["place"] = mem["place"]
        BY <1>t DEF TypeOK, Record
    <2>5. \A f \in Fields : mem[f] = r[f] \/ \E i \in 1 .. Len(q) : q[i] = f
        <3> HIDE DEF r, q
        <3> QED
            BY <2>3, <2>4 DEF Fields
    <2> HIDE DEF r, q
    <2>6. Begin(r, q)
        BY <2>1 DEF r, q
    <2> QED
        BY <1>0, <2>2, <2>3, <2>5, <2>6, BeginInv
<1> USE DEF IInv, shm, writer, reader
<1>1. CASE Open
    BY <1>0, <1>1 DEF Open, Stored, Clearing, Parity, EvenIsPublished, ReadSoFar, Pending
<1>2. CASE Size
    <2>1. todo' = <<"magic", "seq", "flags", "age", "place">> /\ Len(todo') = 5
          /\ todo'[1] = "magic" /\ todo'[2] = "seq" /\ todo'[3] = "flags"
          /\ todo'[4] = "age" /\ todo'[5] = "place"
        BY <1>2 DEF Size
    <2>2. \A f \in Fields \cup {"seq"} : Pending(f)'
        BY <2>1 DEF Pending, Fields
    <2> QED
        BY <1>0, <1>2, <2>1, <2>2 DEF Size, Stored, Clearing, Parity, EvenIsPublished, ReadSoFar
<1>3. CASE Clear
    <2>1. Stored' /\ \A f : Pending(f) => Pending(f)' \/ f = Head(todo)
        BY <1>3, <1>t, StoreOne DEF Clear
    <2>2. Head(todo) = "seq" => seq' = 0
        BY <1>3 DEF Clear, Place
    <2>3. Head(todo) # "seq" => seq' = seq
        BY <1>3 DEF Clear, Place
    <2>4. Clearing'
        BY <1>3, <2>1, <2>2, <2>3 DEF Clear, Clearing
    <2> QED
        BY <1>0, <1>3, <2>1, <2>4 DEF Clear, Parity, EvenIsPublished, ReadSoFar
<1>4. CASE Ready
    <2>1. \A f \in Fields \cup {"seq"} : ~Pending(f)
        BY <1>4 DEF Ready, Pending
    <2>2. mem = new
        BY <1>4, <1>t, <2>1, SameFields DEF Ready, Stored, TypeOK
    <2>3. partial /\ seq = 0
        BY <1>4, <2>1 DEF Ready, Clearing
    <2> QED
        BY <1>0, <1>4, <2>2, <2>3 DEF Ready, Stored, Clearing, Parity, EvenIsPublished, ReadSoFar
<1>7. CASE Store
    <2>1. Stored' /\ \A f : Pending(f)' => Pending(f)
        BY <1>7, <1>t, StoreOne DEF Store
    <2>2. Head(todo) # "seq"
        <3>1. todo \in Seq(Fields \cup {"seq"}) /\ todo # <<>>
            BY <1>7, <1>t DEF Store, TypeOK
        <3>2. 1 \in 1 .. Len(todo) /\ todo[1] = Head(todo)
            BY <3>1
        <3> QED
            BY <1>7, <3>2 DEF Store, Parity, Pending
    <2>3. seq' = seq
        BY <1>7, <2>2 DEF Store, Place
    <2>4. Parity'
        BY <1>7, <2>1, <2>3 DEF Store, Parity
    <2>5. seq % 2 = 1 /\ seq \in Nat /\ s1 \in Nat
        BY <1>7, <1>t DEF Store, Parity, TypeOK
    <2>6. EvenIsPublished'
        BY <2>3, <2>5 DEF EvenIsPublished
    <2>7. ReadSoFar'
        BY <1>7, <2>3, <2>5 DEF Store, ReadSoFar
    <2>8. Clearing'
        BY <1>7 DEF Store, Clearing
    <2> QED
        BY <1>0, <2>1, <2>4, <2>6, <2>7, <2>8
<1>8. CASE End
    <2>1. mem = new
        BY <1>8, <1>t, SameFields DEF End, Stored, Pending, TypeOK
    <2>2. seq' = seq + 1 /\ seq \in Nat /\ s1 \in Nat /\ seq % 2 = 1 /\ (seq + 1) % 2 = 0 /\ ~partial
        BY <1>8, <1>t DEF End, Parity, TypeOK
    <2> QED
        BY <1>0, <1>8, <2>1, <2>2 DEF End, Stored, Clearing, Parity, EvenIsPublished, ReadSoFar
<1>9. CASE Die
    BY <1>0, <1>9 DEF Die, Stored, Clearing, Parity, EvenIsPublished, ReadSoFar
<1>10. CASE Top \/ SigBus \/ GiveUp \/ Retry \/ Accept \/ Use
    BY <1>0, <1>10 DEF Top, SigBus, GiveUp, Retry, Accept, Use,
                       Stored, Clearing, Parity, EvenIsPublished, ReadSoFar, Pending
<1>13. CASE Load
    BY <1>0, <1>13, <1>t DEF Load, TypeOK, Stored, Clearing, Parity, EvenIsPublished, ReadSoFar, Pending
<1>14. CASE Copy
    <2>1. PICK f \in left : /\ t' = [t EXCEPT ![f] = mem[f]] /\ left' = left \ {f}
                            /\ daemon = "copy"
                            /\ UNCHANGED <<shm, writer, daemon, mapped, s1, tries, have, mode, reset>>
        BY <1>14 DEF Copy
    <2>2. ReadSoFar'
        <3>1. t \in Record /\ f \in Fields /\ left \subseteq Fields
            BY <1>t, <2>1 DEF TypeOK
        <3>2. \A g \in Fields : t'[g] = IF g = f THEN mem[f] ELSE t[g]
            BY <2>1, <3>1 DEF Record, Fields
        <3> QED
            BY <2>1, <3>1, <3>2 DEF ReadSoFar, EvenIsPublished
    <2> QED
        BY <1>0, <2>1, <2>2 DEF Stored, Clearing, Parity, EvenIsPublished, Pending
<1>18. CASE Tick
    <2>1. mem' = Aged(mem) /\ new' = Aged(new) /\ t' = Aged(t) /\ published' = Aged(published)
          /\ UNCHANGED <<file, seq, partial, game, todo, writes, starts, daemon, mapped, s1, left, tries,
                         have, mode, reset>>
        BY <1>18 DEF Tick
    <2>2. \A r, q \in Record : \A f \in Fields : r[f] = q[f] => Aged(r)[f] = Aged(q)[f]
        BY AgedType
    <2>3. {mem, new, t, published} \subseteq Record
        BY <1>t DEF TypeOK
    <2>4. Stored'
        BY <2>1, <2>2, <2>3 DEF Stored, Pending
    <2>5. ReadSoFar'
        BY <2>1, <2>2, <2>3 DEF ReadSoFar
    <2> QED
        BY <1>0, <2>1, <2>4, <2>5 DEF Clearing, Parity, EvenIsPublished, Pending
<1>19. CASE UNCHANGED vars
    BY <1>0, <1>19 DEF vars, Stored, Clearing, Parity, EvenIsPublished, ReadSoFar, Pending
<1> QED
    BY <1>1, <1>2, <1>3, <1>4, <1>5, <1>6, <1>7, <1>8, <1>9, <1>10, <1>13, <1>14, <1>18, <1>19
       DEF Next, Game, Bottomd

(* The types hold in every behaviour.                                      *)
THEOREM TypeCorrect == Spec => []TypeOK
<1>1. IInv => TypeOK
    BY DEF IInv, TypeInv
<1> QED
    BY InitInv, NextInv, <1>1, PTL DEF Spec

(* A read that succeeds, with no initialisation meanwhile, hands over the  *)
(* record that one complete update left.                                   *)
THEOREM NeverTorn == Spec => AcceptsOnlyPublished
<1>1. IInv /\ [Next]_vars => [Accept /\ ~reset => t = published]_vars
    <2> SUFFICES ASSUME IInv, Accept, ~reset PROVE t = published
        OBVIOUS
    <2>1. t \in Record /\ published \in Record
        BY DEF IInv, TypeInv, TypeOK
    <2>2. \A f \in Fields : t[f] = published[f]
        BY DEF IInv, ReadSoFar, Accept, Same
    <2> QED
        BY <2>1, <2>2, SameFields
<1> QED
    BY InitInv, NextInv, <1>1, PTL DEF Spec, AcceptsOnlyPublished
=============================================================================
