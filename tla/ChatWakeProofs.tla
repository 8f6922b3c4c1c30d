--------------------------- MODULE ChatWakeProofs ---------------------------
(* Safety of ChatWake for every number of passes, events, generations and
   faults, and every capacity. *)
EXTENDS ChatWake, FiniteSetTheorems, TLAPS

-----------------------------------------------------------------------------
(* The inductive invariant, in named parts. *)

(* The places a pass is at only while it holds the lock. *)
Inside == {"recover", "bind", "consume", "unlink", "resolve", "prove", "reprove", "pick",
           "repick", "attach", "commit", "click", "settle", "compact", "leave"}

Holding == \A p \in Passes : /\ pc[p] \in Inside => lock = p
                             /\ pc[p] \in {"idle", "enter"} => lock # p

(* What a pass was called for. *)
Calling == \A p \in Passes :
  /\ call[p].mode # "drain" => call[p].event \in Events
  /\ pc[p] \in {"offer", "fill", "recover"} => call[p].mode # "drain"
  /\ pc[p] # "idle" => call[p].bound \in Generations

(* What the holder of the lock relies on, place by place. *)
Stands(p) ==
  /\ pc[p] = "unlink" => disk = data /\ cur \in Recorded(data) \cup data.tombstones
  /\ pc[p] \in {"prove", "reprove"} => todo \subseteq In(data, {"AMBIGUOUS"})
  /\ pc[p] \in {"pick", "repick", "attach", "commit", "click", "settle"} => todo \subseteq In(data, Ready)
  /\ pc[p] \in {"attach", "commit", "click", "settle"} => cur \notin todo
  /\ pc[p] \in {"attach", "commit"} => cur \in In(data, Ready)
  /\ pc[p] \in {"click", "settle"} => cur \in In(data, {"AMBIGUOUS"})
  /\ pc[p] = "click" => disk = data /\ data.gen[cur] = call[p].bound /\ rung[cur] = 0
Standing == \A p \in Passes : Stands(p)

(* What holds of the state file holds of the holder's copy of it as well,
   because either may be the next state file. *)
FileOK(f) ==
  /\ \A e \in Events : rung[e] > 0 => e \in In(f, Settled \cup {"AMBIGUOUS"}) \cup f.tombstones
  /\ f.tombstones \cap Recorded(f) = {}
  /\ \A e \in In(f, {"SUBMITTED"}) : <<f.gen[e], e>> \in turns
  /\ Cardinality(Recorded(f)) <= MaxEvents
  /\ Cardinality(f.tombstones) <= MaxTombstones
  /\ \A e \in admitted : inbox[e] = "whole" \/ e \in Recorded(f) \cup f.tombstones

(* The attention of an event, as a file and an inbox have it. *)
Attends(f, box, e) ==
  IF e \in In(f, Settled) \cup f.tombstones THEN "settled"
  ELSE IF e \in In(f, {"AMBIGUOUS"}) THEN "held"
  ELSE IF e \in In(f, Ready) \/ box[e] = "whole" THEN "kept" ELSE "none"

(* The holder's copy is never behind the file, and knows no event the file
   and the inbox do not. *)
Onwards(a, b) == \/ a = b
                 \/ a = "kept" /\ b \in {"held", "settled"}
                 \/ a = "held" /\ b = "settled"
Ahead == \A e \in Events : Onwards(Attends(disk, inbox, e), Attends(data, inbox, e))

IInv == /\ TypeOK /\ Holding /\ Calling /\ Standing /\ FileOK(disk) /\ FileOK(data) /\ Ahead
        /\ AtMostOneRing

-----------------------------------------------------------------------------
(* Files *)

(* The steps a record may take while its event stays recorded. *)
Later(f, g) ==
  /\ g.tombstones = f.tombstones
  /\ \A e \in Events :
       \/ g.status[e] = f.status[e] /\ g.gen[e] = f.gen[e]
       \/ f.status[e] \in Open /\ g.status[e] = "RESOLVED_NOOP"
       \/ f.status[e] \in Ready /\ g.status[e] \in {"DEFERRED", "AMBIGUOUS"}
       \/ /\ f.status[e] = "AMBIGUOUS" /\ g.status[e] = "SUBMITTED"
          /\ <<g.gen[e], e>> \in turns

(* What a step does to the files when it leaves everything else of the lane. *)
Written == /\ data' \in File /\ disk' \in {disk, data'}
           /\ pending' \in BOOLEAN /\ faults' \in 0..MaxFaults

(* A record that is replaced leaves the others alone. *)
LEMMA RecordType ==
  ASSUME NEW f, NEW e, NEW s, NEW g,
         f \in File, e \in Events, s \in Statuses, g \in Generations \cup {0}
  PROVE  /\ record(f, e, s, g) \in File
         /\ record(f, e, s, g).status = [f.status EXCEPT ![e] = s]
         /\ record(f, e, s, g).gen = [f.gen EXCEPT ![e] = g]
         /\ record(f, e, s, g).tombstones = f.tombstones
BY DEF File, record

(* So it is for a record that names no generation. *)
LEMMA ClearedType ==
  ASSUME NEW f, NEW e, NEW s, f \in File, e \in Events, s \in Statuses
  PROVE  /\ record(f, e, s, 0) \in File
         /\ record(f, e, s, 0).status = [f.status EXCEPT ![e] = s]
         /\ record(f, e, s, 0).gen = [f.gen EXCEPT ![e] = 0]
         /\ record(f, e, s, 0).tombstones = f.tombstones
BY DEF File, record

(* A write leaves the new file in memory and the old or the new one on disk. *)
LEMMA WriteEffect ==
  ASSUME TypeOK, NEW file \in File, Stored(file) \/ Unsure(file)
  PROVE  Written /\ data' = file /\ (Stored(file) => disk' = data')
<1>1. MaxFaults \in Nat BY LaneAssumption
<1>2. CASE Stored(file) BY <1>2 DEF TypeOK, Stored, Written
<1>3. CASE Unsure(file)
  <2>1. data' = file BY <1>3 DEF Unsure
  <2>2. disk' \in {disk, file} BY <1>3 DEF Unsure
  <2>3. pending' \in BOOLEAN BY <1>3 DEF Unsure, TypeOK
  <2>4. faults' \in 0..MaxFaults BY <1>1, <1>3 DEF Unsure, TypeOK
  <2>5. Stored(file) => disk' = data' BY DEF Stored
  <2> QED BY <2>1, <2>2, <2>3, <2>4, <2>5 DEF Written
<1> QED BY <1>2, <1>3

(* Not to write leaves the files as they are. *)
LEMMA NoWriteEffect ==
  ASSUME TypeOK, NoWrite
  PROVE  Written /\ data' = data /\ disk' = disk
BY DEF TypeOK, NoWrite, Written

(* A record that is settled because its successor was observed. *)
LEMMA LaterResolved ==
  ASSUME NEW f \in File, NEW e \in Events, f.status[e] \in Open
  PROVE  Later(f, RecordResolved(f, e)) /\ RecordResolved(f, e) \in File
<1> DEFINE h == RecordResolved(f, e)
<1>1. "RESOLVED_NOOP" \in Statuses BY DEF Statuses, Settled
<1>2. /\ h \in File /\ h.tombstones = f.tombstones
      /\ h.status = [f.status EXCEPT ![e] = "RESOLVED_NOOP"]
      /\ h.gen = [f.gen EXCEPT ![e] = 0]
  BY <1>1, ClearedType DEF RecordResolved
<1> HIDE DEF h
<1>3. Later(f, h) BY <1>2 DEF Later, File
<1> QED BY <1>2, <1>3 DEF h

(* A record that is put off, and one that is held. *)
LEMMA LaterReady ==
  ASSUME NEW f, NEW e, NEW s, NEW g, f \in File, e \in Events, f.status[e] \in Ready,
         s \in {"DEFERRED", "AMBIGUOUS"}, g \in Generations \cup {0}
  PROVE  /\ Later(f, record(f, e, s, g)) /\ record(f, e, s, g) \in File
         /\ record(f, e, s, g).status = [f.status EXCEPT ![e] = s]
         /\ record(f, e, s, g).gen = [f.gen EXCEPT ![e] = g]
<1> DEFINE h == record(f, e, s, g)
<1>1. s \in Statuses BY DEF Statuses, Ready
<1>2. /\ h \in File /\ h.tombstones = f.tombstones
      /\ h.status = [f.status EXCEPT ![e] = s] /\ h.gen = [f.gen EXCEPT ![e] = g]
  BY <1>1, RecordType
<1> HIDE DEF h
<1>3. Later(f, h) BY <1>2 DEF Later, File
<1> QED BY <1>2, <1>3 DEF h

(* A record that is put off names no generation. *)
LEMMA LaterDeferred ==
  ASSUME NEW f, NEW e, f \in File, e \in Events, f.status[e] \in Ready
  PROVE  /\ Later(f, record(f, e, "DEFERRED", 0)) /\ record(f, e, "DEFERRED", 0) \in File
         /\ record(f, e, "DEFERRED", 0).status = [f.status EXCEPT ![e] = "DEFERRED"]
<1> DEFINE h == record(f, e, "DEFERRED", 0)
<1>1. "DEFERRED" \in Statuses BY DEF Statuses, Ready
<1>2. /\ h \in File /\ h.tombstones = f.tombstones
      /\ h.status = [f.status EXCEPT ![e] = "DEFERRED"] /\ h.gen = [f.gen EXCEPT ![e] = 0]
  BY <1>1, ClearedType
<1> HIDE DEF h
<1>3. Later(f, h) BY <1>2 DEF Later, File
<1> QED BY <1>2, <1>3 DEF h

(* An attempt that is proven. *)
LEMMA LaterSubmitted ==
  ASSUME TypeOK, NEW e \in In(data, {"AMBIGUOUS"}), Proven(e)
  PROVE  /\ Later(data, Submitted(data, e)) /\ Submitted(data, e) \in File
         /\ Submitted(data, e).status = [data.status EXCEPT ![e] = "SUBMITTED"]
BY DEF TypeOK, File, In, Proven, Submitted, Later, Statuses, Settled

-----------------------------------------------------------------------------
(* Steps: which place they lead to and what they do to the files. *)

(* A pass moves alone. *)
LEMMA GotoType ==
  ASSUME TypeOK, NEW p \in Passes, NEW place \in Places, Goto(p, place)
  PROVE  /\ pc' \in [Passes -> Places] /\ pc'[p] = place
         /\ \A q \in Passes \ {p} : pc'[q] = pc[q]
         /\ call' \in [Passes -> Call]
         /\ call'[p] = IF place = "idle" THEN NoCall ELSE call[p]
         /\ \A q \in Passes \ {p} : call'[q] = call[q]
<1>1. NoCall \in Call BY DEF NoCall, Call, Modes
<1> QED BY <1>1 DEF TypeOK, Goto

(* A write that succeeds leads on; one that fails leads out. *)
LEMMA WriteGoto ==
  ASSUME TypeOK, NEW p \in Passes, NEW place \in Places, NEW file \in File, Write(p, file, place)
  PROVE  /\ Written /\ data' = file
         /\ \E q \in {place, "leave"} : Goto(p, q)
         /\ Goto(p, place) /\ place # "leave" => disk' = data'
<1>1. CASE Stored(file) /\ Goto(p, place) BY <1>1, WriteEffect
<1>2. CASE Unsure(file) /\ Goto(p, "leave")
  <2>1. Goto(p, place) => place = "leave" BY <1>2 DEF Goto, TypeOK
  <2> QED BY <1>2, <2>1, WriteEffect
<1> QED BY <1>1, <1>2 DEF Write

(* Passes that do not hold the lock have nothing to stand on. *)
LEMMA OthersStand ==
  ASSUME TypeOK, Holding, NEW p \in Passes, pc[p] \in Inside, NEW place \in Places, Goto(p, place),
         Stands(p)'
  PROVE  Standing'
<1> SUFFICES ASSUME NEW q \in Passes, q # p PROVE Stands(q)' BY DEF Standing
<1>1. pc[q] \notin Inside BY DEF Holding
<1>2. pc'[q] \notin Inside BY <1>1, GotoType
<1> QED BY <1>2 DEF Stands, Inside

(* A step under the lock that leaves the inbox and the chats alone. *)
Advances(p) ==
  /\ \E place \in Inside \ {"recover"} : Goto(p, place)
  /\ Written /\ Stands(p)'
  /\ todo' \subseteq Events /\ cur' \in Events \cup {NoEvent} /\ attempted' \in BOOLEAN
  /\ UNCHANGED <<lock, inbox, config, chats, admitted>>

(* Such a step keeps everything but what the files say. *)
LEMMA AdvanceKeeps ==
  ASSUME TypeOK, Holding, Calling, NEW p \in Passes, pc[p] \in Inside, Advances(p)
  PROVE  TypeOK' /\ Holding' /\ Calling' /\ Standing'
<1>1. PICK place \in Inside \ {"recover"} : Goto(p, place) BY DEF Advances
<1>2. place \in Places /\ place \notin {"idle", "enter", "offer", "fill", "recover"}
  BY DEF Inside, Places, Writing
<1>3. /\ pc' \in [Passes -> Places] /\ pc'[p] = place
      /\ \A q \in Passes \ {p} : pc'[q] = pc[q]
  BY <1>1, <1>2, GotoType
<1>4. call' = call BY <1>1, <1>2 DEF Goto
<1>5. TypeOK' BY <1>3, <1>4 DEF Advances, Written, TypeOK, chats
<1>6. Holding' BY <1>2, <1>3 DEF Advances, Holding
<1>7. Calling' BY <1>2, <1>3, <1>4 DEF Calling, Inside
<1>8. Standing' BY <1>1, <1>2, OthersStand DEF Advances
<1> QED BY <1>5, <1>6, <1>7, <1>8

(* At these places the holder relies on nothing. *)
LEMMA StandsFree ==
  ASSUME NEW p, pc'[p] \in {"bind", "consume", "resolve", "compact", "leave"} PROVE Stands(p)'
BY DEF Stands

(* Recovery settles its event or goes on. *)
LEMMA RecoverStep ==
  ASSUME IInv, NEW p \in Passes, Recover(p) PROVE Advances(p) /\ Later(data, data')
<1> DEFINE e == call[p].event
<1>1. TypeOK /\ pc[p] = "recover" /\ e \in Events BY DEF IInv, Recover, Calling
<1>2. data \in File /\ "leave" \in Places /\ "bind" \in Places BY <1>1 DEF TypeOK, Places
<1>3. Written /\ Later(data, data') /\ \E q \in {"leave", "bind"} : Goto(p, q)
  <2>1. CASE (Goto(p, "leave") \/ Goto(p, "bind")) /\ NoWrite
    <3>1. Written /\ data' = data BY <1>1, <2>1, NoWriteEffect
    <3>2. Later(data, data) BY DEF Later
    <3> QED BY <2>1, <3>1, <3>2
  <2>2. CASE e \in In(data, Open) /\ Write(p, RecordResolved(data, e), "leave")
    <3>1. data.status[e] \in Open BY <2>2 DEF In
    <3>2. Later(data, RecordResolved(data, e)) /\ RecordResolved(data, e) \in File
      BY <1>1, <1>2, <3>1, LaterResolved
    <3>3. Written /\ data' = RecordResolved(data, e) /\ Goto(p, "leave")
      BY <1>1, <1>2, <2>2, <3>2, WriteGoto
    <3> QED BY <3>2, <3>3
  <2> QED BY <2>1, <2>2 DEF Recover
<1>4. pc'[p] \in {"leave", "bind"} BY <1>1, <1>2, <1>3, GotoType
<1>5. Stands(p)' BY <1>4, StandsFree
<1> QED BY <1>1, <1>3, <1>5 DEF Advances, Recover, TypeOK, Inside

(* The binding is remembered in memory, not yet on disk. *)
LEMMA RememberStep ==
  ASSUME IInv, NEW p \in Passes, RememberBinding(p) PROVE Advances(p) /\ Later(data, data')
<1>1. TypeOK /\ pc[p] = "bind" /\ call[p].bound \in Generations BY DEF IInv, RememberBinding, Calling
<1>2. data' \in File /\ data'.status = data.status /\ data'.gen = data.gen /\ data'.tombstones = data.tombstones
  BY <1>1 DEF RememberBinding, TypeOK, File
<1>3. Written BY <1>1, <1>2 DEF RememberBinding, Written, TypeOK
<1>4. \E q \in {"leave", "consume"} : Goto(p, q) BY DEF RememberBinding
<1>5. pc'[p] \in {"leave", "consume"} BY <1>1, <1>4, GotoType DEF Places, Writing
<1>6. Stands(p)' BY <1>5, StandsFree
<1>7. Later(data, data') BY <1>2 DEF Later
<1> QED BY <1>1, <1>3, <1>4, <1>6, <1>7 DEF Advances, RememberBinding, TypeOK, Inside

(* A new event is recorded, ready to ring. *)
Intakes == \E e \in Events : /\ New(e) /\ ~Full /\ inbox[e] = "whole"
                             /\ data' = record(data, e, "PENDING", 0)

(* Consuming a file of the inbox records its event, if it is new. *)
LEMMA ConsumeStep ==
  ASSUME IInv, NEW p \in Passes, ConsumeInbox(p)
  PROVE  Advances(p) /\ (Later(data, data') \/ Intakes)
<1>1. TypeOK /\ pc[p] = "consume" BY DEF IInv, ConsumeInbox
<1>2. {"leave", "consume", "unlink"} \subseteq Places BY DEF Places, Writing
<1>3. PICK e \in todo : ConsumeInbox(p)!2!(e) BY DEF ConsumeInbox
<1>4. e \in Events BY <1>1, <1>3 DEF TypeOK
<1>5. UNCHANGED <<lock, inbox, attempted, config, chats, admitted>> BY DEF ConsumeInbox
<1>6. CASE inbox[e] # "whole" /\ Goto(p, "leave") /\ NoWrite /\ UNCHANGED cur
  <2>1. Written /\ data' = data BY <1>1, <1>6, NoWriteEffect
  <2>2. pc'[p] = "leave" BY <1>1, <1>2, <1>6, GotoType
  <2>3. Stands(p)' BY <2>2, StandsFree
  <2>4. Later(data, data) BY DEF Later
  <2> QED BY <1>1, <1>3, <1>5, <1>6, <2>1, <2>3, <2>4 DEF Advances, TypeOK, Inside
<1>7. CASE inbox[e] = "whole" /\ New(e) /\ Full /\ NoWrite /\ UNCHANGED <<passes, cur>>
  <2>1. Written /\ data' = data BY <1>1, <1>7, NoWriteEffect
  <2>2. Goto(p, "consume") BY <1>1, <1>7 DEF Goto, passes, TypeOK
  <2>3. pc'[p] = "consume" BY <1>1, <1>2, <2>2, GotoType
  <2>4. Stands(p)' BY <2>3, StandsFree
  <2>5. Later(data, data) BY DEF Later
  <2> QED BY <1>1, <1>3, <1>5, <1>7, <2>1, <2>2, <2>4, <2>5 DEF Advances, TypeOK, Inside
<1>8. CASE /\ inbox[e] = "whole" /\ ~(New(e) /\ Full)
           /\ cur' = e
           /\ Write(p, IF New(e) THEN record(data, e, "PENDING", 0) ELSE data, "unlink")
  <2> DEFINE file == IF New(e) THEN record(data, e, "PENDING", 0) ELSE data
  <2>1. "PENDING" \in Statuses BY DEF Statuses, Ready
  <2>2. data \in File BY <1>1 DEF TypeOK
  <2>3. file \in File /\ e \in Recorded(file) \cup file.tombstones
    <3>1. CASE New(e)
      <4>0. /\ record(data, e, "PENDING", 0) \in File
            /\ record(data, e, "PENDING", 0).status = [data.status EXCEPT ![e] = "PENDING"]
        BY <1>4, <2>1, <2>2 DEF File, record
      <4>1. /\ file \in File /\ file.status = [data.status EXCEPT ![e] = "PENDING"]
        BY <3>1, <4>0
      <4>2. file.status[e] = "PENDING" BY <1>4, <2>2, <4>1 DEF File
      <4> QED BY <1>4, <2>1, <4>1, <4>2 DEF Recorded, In
    <3>2. CASE ~New(e) BY <2>2, <3>2 DEF New
    <3> QED BY <3>1, <3>2
  <2>4. Later(data, file) \/ (New(e) /\ ~Full /\ file = record(data, e, "PENDING", 0))
    BY <1>8 DEF Later
  <2>5. Write(p, file, "unlink") BY <1>8
  <2> HIDE DEF file
  <2>6. /\ Written /\ data' = file /\ \E q \in {"unlink", "leave"} : Goto(p, q)
        /\ Goto(p, "unlink") => disk' = data'
    BY <1>1, <1>2, <2>3, <2>5, WriteGoto
  <2>7. Stands(p)'
    <3>1. CASE Goto(p, "leave")
      <4>1. pc'[p] = "leave" BY <1>1, <1>2, <3>1, GotoType
      <4> QED BY <4>1, StandsFree
    <3>2. CASE Goto(p, "unlink")
      <4>1. pc'[p] = "unlink" BY <1>1, <1>2, <3>2, GotoType
      <4> QED BY <1>8, <2>3, <2>6, <3>2, <4>1 DEF Stands
    <3> QED BY <2>6, <3>1, <3>2
  <2>8. Later(data, data') \/ Intakes BY <1>4, <1>8, <2>4, <2>6 DEF Intakes
  <2> QED BY <1>1, <1>3, <1>4, <1>5, <1>8, <2>6, <2>7, <2>8 DEF Advances, TypeOK, Inside
<1> QED BY <1>3, <1>6, <1>7, <1>8

(* After the inbox the state is written as it is. *)
LEMMA QueuedStep ==
  ASSUME IInv, NEW p \in Passes, Queued(p) PROVE Advances(p) /\ Later(data, data')
<1>1. TypeOK /\ data \in File BY DEF IInv, TypeOK
<1>2. {"leave", "resolve"} \subseteq Places BY DEF Places, Writing
<1>3. Written /\ data' = data /\ \E q \in {"leave", "resolve"} : Goto(p, q)
  <2>1. CASE Goto(p, "leave") /\ NoWrite BY <1>1, <2>1, NoWriteEffect
  <2>2. CASE Write(p, data, "leave") BY <1>1, <1>2, <2>2, WriteGoto
  <2>3. CASE Write(p, data, "resolve") BY <1>1, <1>2, <2>3, WriteGoto
  <2> QED BY <2>1, <2>2, <2>3 DEF Queued
<1>4. pc'[p] \in {"leave", "resolve"} BY <1>1, <1>2, <1>3, GotoType
<1>5. Stands(p)' BY <1>4, StandsFree
<1>6. Later(data, data) BY DEF Later
<1> QED BY <1>1, <1>3, <1>5, <1>6 DEF Advances, Queued, TypeOK, Inside

(* Held attempts that are resolved are settled; the others are to be proven. *)
LEMMA ResolveHeldStep ==
  ASSUME IInv, NEW p \in Passes, ResolveHeld(p) PROVE Advances(p) /\ Later(data, data')
<1>1. TypeOK /\ data \in File BY DEF IInv, TypeOK
<1>2. "prove" \in Places BY DEF Places, Writing
<1>3. PICK S \in SUBSET In(data, {"AMBIGUOUS"}) :
        LET file == [data EXCEPT !.status = [e \in Events |-> IF e \in S THEN "RESOLVED_NOOP" ELSE @[e]],
                                 !.gen = [e \in Events |-> IF e \in S THEN 0 ELSE @[e]]]
        IN IF S = {} THEN NoWrite ELSE Stored(file) \/ Unsure(file)
  BY DEF ResolveHeld
<1>4. Written /\ Later(data, data')
  <2> DEFINE file == [data EXCEPT !.status = [e \in Events |-> IF e \in S THEN "RESOLVED_NOOP" ELSE data.status[e]],
                                  !.gen = [e \in Events |-> IF e \in S THEN 0 ELSE data.gen[e]]]
  <2>1. CASE S = {}
    <3>1. Written /\ data' = data BY <1>1, <1>3, <2>1, NoWriteEffect
    <3> QED BY <3>1 DEF Later
  <2>2. CASE S # {}
    <3>1. /\ file \in File /\ file.tombstones = data.tombstones
          /\ file.status = [e \in Events |-> IF e \in S THEN "RESOLVED_NOOP" ELSE data.status[e]]
          /\ file.gen = [e \in Events |-> IF e \in S THEN 0 ELSE data.gen[e]]
      BY <1>1 DEF File, Statuses, Settled
    <3>2. Stored(file) \/ Unsure(file) BY <1>3, <2>2
    <3> HIDE DEF file
    <3>3. Written /\ data' = file BY <1>1, <3>1, <3>2, WriteEffect
    <3>4. Later(data, file) BY <3>1 DEF Later, In, Open
    <3> QED BY <3>3, <3>4
  <2> QED BY <2>1, <2>2
<1>5. Goto(p, "prove") /\ todo' = In(data', {"AMBIGUOUS"}) BY DEF ResolveHeld
<1>6. pc'[p] = "prove" BY <1>1, <1>2, <1>5, GotoType
<1>7. Stands(p)' BY <1>5, <1>6 DEF Stands
<1>8. todo' \subseteq Events BY <1>5 DEF In
<1> QED BY <1>1, <1>4, <1>5, <1>7, <1>8 DEF Advances, ResolveHeld, TypeOK, Inside

(* A held attempt is submitted when it is proven, and stays held otherwise. *)
LEMMA ProveHeldStep ==
  ASSUME IInv, NEW p \in Passes, ProveHeld(p) PROVE Advances(p) /\ Later(data, data')
<1>1. TypeOK /\ data \in File /\ pc[p] = "prove" /\ todo \subseteq In(data, {"AMBIGUOUS"})
  BY DEF IInv, TypeOK, ProveHeld, Standing, Stands
<1>2. {"leave", "prove", "reprove", "pick"} \subseteq Places BY DEF Places, Writing
<1>3. UNCHANGED <<lock, inbox, cur, attempted, config, chats, admitted>> BY DEF ProveHeld
<1>4. ASSUME NEW e \in todo, todo' = todo \ {e}, Write(p, data, "prove")
      PROVE  Advances(p) /\ Later(data, data')
  <2>1. Written /\ data' = data /\ \E q \in {"prove", "leave"} : Goto(p, q)
    BY <1>1, <1>2, <1>4, WriteGoto
  <2>2. pc'[p] \in {"prove", "leave"} BY <1>1, <1>2, <2>1, GotoType
  <2>3. todo' \subseteq In(data', {"AMBIGUOUS"}) BY <1>1, <1>4, <2>1
  <2>4. Stands(p)' BY <2>2, <2>3 DEF Stands
  <2>5. Later(data, data) BY DEF Later
  <2> QED BY <1>1, <1>3, <1>4, <2>1, <2>4, <2>5 DEF Advances, TypeOK, Inside
<1>5. ASSUME NEW e \in todo, todo' = todo \ {e}, Proven(e),
             Stored(Submitted(data, e)) \/ Unsure(Submitted(data, e)),
             \E q \in {"prove", "reprove"} : Goto(p, q)
      PROVE  Advances(p) /\ Later(data, data')
  <2>1. e \in In(data, {"AMBIGUOUS"}) BY <1>1
  <2>2. /\ Later(data, Submitted(data, e)) /\ Submitted(data, e) \in File
        /\ Submitted(data, e).status = [data.status EXCEPT ![e] = "SUBMITTED"]
    BY <1>1, <1>5, <2>1, LaterSubmitted
  <2>3. Written /\ data' = Submitted(data, e) BY <1>1, <1>5, <2>2, WriteEffect
  <2>4. pc'[p] \in {"prove", "reprove"} BY <1>1, <1>2, <1>5, GotoType
  <2>5. todo' \subseteq In(data', {"AMBIGUOUS"}) BY <1>1, <1>5, <2>2, <2>3 DEF In, File
  <2>6. Stands(p)' BY <2>4, <2>5 DEF Stands
  <2> QED BY <1>1, <1>3, <1>5, <2>2, <2>3, <2>6 DEF Advances, TypeOK, Inside
<1>6. ASSUME todo' = In(data, Ready), Goto(p, "pick"), NoWrite PROVE Advances(p) /\ Later(data, data')
  <2>1. Written /\ data' = data BY <1>1, <1>6, NoWriteEffect
  <2>2. pc'[p] = "pick" BY <1>1, <1>2, <1>6, GotoType
  <2>3. Stands(p)' BY <1>6, <2>1, <2>2 DEF Stands
  <2>4. Later(data, data) BY DEF Later
  <2>5. todo' \subseteq Events BY <1>6 DEF In
  <2> QED BY <1>1, <1>3, <1>6, <2>1, <2>3, <2>4, <2>5 DEF Advances, TypeOK, Inside
<1> QED BY <1>4, <1>5, <1>6 DEF ProveHeld

(* The handlers write what is in memory. *)
LEMMA RewriteStep ==
  ASSUME IInv, NEW p \in Passes, Rewrite(p) PROVE Advances(p) /\ Later(data, data')
<1>1. TypeOK /\ data \in File /\ Stands(p) BY DEF IInv, TypeOK, Standing
<1>2. {"leave", "prove", "pick"} \subseteq Places BY DEF Places, Writing
<1>3. /\ Written /\ data' = data /\ todo' = todo /\ cur' = cur
      /\ \/ pc[p] = "reprove" /\ \E q \in {"prove", "leave"} : Goto(p, q)
         \/ pc[p] = "repick" /\ \E q \in {"pick", "leave"} : Goto(p, q)
  <2>1. CASE pc[p] = "reprove" /\ Write(p, data, "prove") BY <1>1, <1>2, <2>1, WriteGoto DEF Rewrite
  <2>2. CASE pc[p] = "repick" /\ Write(p, data, "pick") BY <1>1, <1>2, <2>2, WriteGoto DEF Rewrite
  <2> QED BY <2>1, <2>2 DEF Rewrite
<1>4. \/ pc[p] = "reprove" /\ pc'[p] \in {"prove", "leave"}
      \/ pc[p] = "repick" /\ pc'[p] \in {"pick", "leave"}
  BY <1>1, <1>2, <1>3, GotoType
<1>5. Stands(p)' BY <1>1, <1>3, <1>4 DEF Stands
<1>6. Later(data, data) BY DEF Later
<1> QED BY <1>1, <1>3, <1>5, <1>6 DEF Advances, Rewrite, TypeOK, Inside

(* The next event is taken up, settled or put off. *)
LEMMA PickStep ==
  ASSUME IInv, NEW p \in Passes, Pick(p) PROVE Advances(p) /\ Later(data, data')
<1>1. /\ TypeOK /\ data \in File /\ pc[p] = "pick" /\ todo \subseteq In(data, Ready)
      /\ todo \subseteq Events
  BY DEF IInv, TypeOK, Standing, Stands, Pick
<1>2. {"leave", "attach", "pick"} \subseteq Places BY DEF Places, Writing
<1>3. UNCHANGED <<lock, inbox, attempted, config, chats, admitted>> BY DEF Pick
<1>4. ASSUME NEW e \in todo, todo' = todo \ {e}, cur' = e, Goto(p, "attach"), NoWrite
      PROVE  Advances(p) /\ Later(data, data')
  <2>1. Written /\ data' = data BY <1>1, <1>4, NoWriteEffect
  <2>2. pc'[p] = "attach" BY <1>1, <1>2, <1>4, GotoType
  <2>3. Stands(p)' BY <1>1, <1>4, <2>1, <2>2 DEF Stands
  <2>4. Later(data, data) BY DEF Later
  <2> QED BY <1>1, <1>3, <1>4, <2>1, <2>3, <2>4 DEF Advances, TypeOK, Inside
<1>5. ASSUME NEW e \in todo, todo' = todo \ {e}, UNCHANGED cur,
             NEW s \in {"RESOLVED_NOOP", "DEFERRED"}, Write(p, record(data, e, s, 0), "pick")
      PROVE  Advances(p) /\ Later(data, data')
  <2> DEFINE file == record(data, e, s, 0)
  <2>1. e \in Events /\ data.status[e] \in Ready /\ data.status[e] \in Open BY <1>1 DEF In, Open
  <2>2. file \in File /\ Later(data, file) /\ file.status = [data.status EXCEPT ![e] = s]
    <3>1. CASE s = "RESOLVED_NOOP"
      <4>1. "RESOLVED_NOOP" \in Statuses BY DEF Statuses, Settled
      <4>2. record(data, e, "RESOLVED_NOOP", 0).status = [data.status EXCEPT ![e] = "RESOLVED_NOOP"]
        BY <1>1, <2>1, <4>1 DEF File, record
      <4> QED BY <1>1, <2>1, <3>1, <4>2, LaterResolved DEF RecordResolved
    <3>2. CASE s = "DEFERRED" BY <1>1, <2>1, <3>2, LaterDeferred
    <3> QED BY <1>5, <3>1, <3>2
  <2> HIDE DEF file
  <2>3. Write(p, file, "pick") BY <1>5 DEF file
  <2>4. Written /\ data' = file /\ \E q \in {"pick", "leave"} : Goto(p, q)
    BY <1>1, <1>2, <2>2, <2>3, WriteGoto
  <2>5. pc'[p] \in {"pick", "leave"} BY <1>1, <1>2, <2>4, GotoType
  <2>6. todo' \subseteq In(data', Ready) BY <1>1, <1>5, <2>2, <2>4 DEF In, File
  <2>7. Stands(p)' BY <2>5, <2>6 DEF Stands
  <2> QED BY <1>1, <1>3, <1>5, <2>2, <2>4, <2>7 DEF Advances, TypeOK, Inside
<1> QED BY <1>4, <1>5 DEF Pick

(* The drain ends and nothing is written. *)
LEMMA FinishStep ==
  ASSUME IInv, NEW p \in Passes, Finish(p) PROVE Advances(p) /\ Later(data, data')
<1>1. TypeOK BY DEF IInv
<1>2. {"leave", "compact"} \subseteq Places BY DEF Places, Writing
<1>3. Written /\ data' = data BY <1>1, NoWriteEffect DEF Finish
<1>4. \E q \in {"leave", "compact"} : Goto(p, q) BY DEF Finish
<1>5. pc'[p] \in {"leave", "compact"} BY <1>1, <1>2, <1>4, GotoType
<1>6. Stands(p)' BY <1>5, StandsFree
<1>7. Later(data, data) BY DEF Later
<1> QED BY <1>1, <1>3, <1>4, <1>6, <1>7 DEF Advances, Finish, TypeOK, Inside

(* Settling or putting off the event in hand, before any click. *)
LEMMA TurnAway ==
  ASSUME IInv, NEW p \in Passes, pc[p] \in {"attach", "commit"}, Resolve(p) \/ Defer(p),
         UNCHANGED <<lock, inbox, todo, cur, attempted, config, chats, admitted>>
  PROVE  Advances(p) /\ Later(data, data')
<1>1. /\ TypeOK /\ data \in File /\ todo \subseteq In(data, Ready) /\ cur \notin todo
      /\ cur \in Events /\ data.status[cur] \in Ready /\ data.status[cur] \in Open
  BY DEF IInv, TypeOK, Standing, Stands, In, Open
<1>2. {"leave", "repick", "pick"} \subseteq Places BY DEF Places, Writing
<1>3. PICK s \in {"RESOLVED_NOOP", "DEFERRED"} :
        /\ Written /\ Later(data, data') /\ data'.status = [data.status EXCEPT ![cur] = s]
        /\ \E q \in {"leave", "repick", "pick"} : Goto(p, q)
  <2>1. CASE Resolve(p)
    <3>1. "RESOLVED_NOOP" \in Statuses BY DEF Statuses, Settled
    <3>2. record(data, cur, "RESOLVED_NOOP", 0).status = [data.status EXCEPT ![cur] = "RESOLVED_NOOP"]
      BY <1>1, <3>1 DEF File, record
    <3>3. Later(data, RecordResolved(data, cur)) /\ RecordResolved(data, cur) \in File
      BY <1>1, LaterResolved
    <3>4. Stored(RecordResolved(data, cur)) \/ Unsure(RecordResolved(data, cur))
      BY <2>1 DEF Resolve
    <3>5. Written /\ data' = RecordResolved(data, cur) BY <1>1, <3>3, <3>4, WriteEffect
    <3>6. \E q \in {"repick", "pick"} : Goto(p, q) BY <2>1 DEF Resolve
    <3> QED BY <3>2, <3>3, <3>5, <3>6 DEF RecordResolved
  <2>2. CASE Defer(p)
    <3> DEFINE file == record(data, cur, "DEFERRED", 0)
    <3>2. Later(data, file) /\ file \in File /\ file.status = [data.status EXCEPT ![cur] = "DEFERRED"]
      BY <1>1, LaterDeferred
    <3>3. Write(p, file, "pick") BY <2>2 DEF Defer
    <3> HIDE DEF file
    <3>4. Written /\ data' = file /\ \E q \in {"pick", "leave"} : Goto(p, q)
      BY <1>1, <1>2, <3>2, <3>3, WriteGoto
    <3> QED BY <3>2, <3>4
  <2> QED BY <2>1, <2>2
<1>4. pc'[p] \in {"leave", "repick", "pick"} BY <1>1, <1>2, <1>3, GotoType
<1>5. todo' \subseteq In(data', Ready) BY <1>1, <1>3 DEF In, File
<1>6. Stands(p)' BY <1>4, <1>5 DEF Stands
<1> QED BY <1>1, <1>3, <1>6 DEF Advances, TypeOK, Inside

(* The page is attached and the text staged. *)
LEMMA StageStep ==
  ASSUME IInv, NEW p \in Passes, Stage(p) PROVE Advances(p) /\ Later(data, data')
<1>1. UNCHANGED <<lock, inbox, todo, cur, attempted, config, chats, admitted>> /\ pc[p] = "attach"
  BY DEF Stage
<1>2. CASE Resolve(p) \/ Defer(p) BY <1>1, <1>2, TurnAway
<1>3. CASE Goto(p, "commit") /\ NoWrite
  <2>1. TypeOK /\ Stands(p) /\ "commit" \in Places BY DEF IInv, Standing, Places, Writing
  <2>2. Written /\ data' = data BY <1>3, <2>1, NoWriteEffect
  <2>3. pc'[p] = "commit" BY <1>3, <2>1, GotoType
  <2>4. Stands(p)' BY <1>1, <2>1, <2>2, <2>3 DEF Stands
  <2>5. Later(data, data) BY DEF Later
  <2> QED BY <1>1, <1>3, <2>1, <2>2, <2>4, <2>5 DEF Advances, TypeOK, Inside
<1> QED BY <1>2, <1>3 DEF Stage

(* The event is held on disk before the click. *)
LEMMA BeforeClickStep ==
  ASSUME IInv, NEW p \in Passes, BeforeClick(p) PROVE Advances(p) /\ Later(data, data')
<1>1. UNCHANGED <<lock, inbox, todo, cur, config, chats, admitted>> /\ pc[p] = "commit"
  BY DEF BeforeClick
<1>2. CASE (Resolve(p) \/ Defer(p)) /\ UNCHANGED attempted BY <1>1, <1>2, TurnAway
<1>3. CASE /\ Barrier(p)
           /\ LET file == record(data, cur, "AMBIGUOUS", call[p].bound)
              IN \/ Stored(file) /\ Goto(p, "click") /\ attempted' = TRUE
                 \/ Unsure(file) /\ Goto(p, "leave") /\ UNCHANGED attempted
  <2> DEFINE file == record(data, cur, "AMBIGUOUS", call[p].bound)
  <2>1. /\ TypeOK /\ data \in File /\ todo \subseteq In(data, Ready) /\ cur \notin todo
        /\ cur \in Events /\ data.status[cur] \in Ready
        /\ call[p].bound \in Generations \cup {0}
    BY <1>1 DEF IInv, TypeOK, Standing, Stands, In, Calling
  <2>2. rung[cur] = 0
    <3>1. rung[cur] \in Nat BY <2>1 DEF TypeOK, RingBound
    <3>2. cur \notin In(data, Settled \cup {"AMBIGUOUS"}) BY <2>1 DEF In, Ready, Settled
    <3>3. cur \notin data.tombstones
      <4>1. cur \in Recorded(data) BY <2>1 DEF In, Recorded, Statuses
      <4> QED BY <4>1 DEF IInv, FileOK
    <3> QED BY <2>1, <3>1, <3>2, <3>3 DEF IInv, FileOK
  <2>3. /\ Later(data, file) /\ file \in File
        /\ file.status = [data.status EXCEPT ![cur] = "AMBIGUOUS"]
        /\ file.gen = [data.gen EXCEPT ![cur] = call[p].bound]
    BY <2>1, LaterReady
  <2>4. \/ Stored(file) /\ Goto(p, "click") /\ attempted' = TRUE
        \/ Unsure(file) /\ Goto(p, "leave") /\ UNCHANGED attempted
    BY <1>3
  <2> HIDE DEF file
  <2>5. Written /\ data' = file /\ (Stored(file) => disk' = data') BY <2>1, <2>3, <2>4, WriteEffect
  <2>6. {"click", "leave"} \subseteq Places BY DEF Places, Writing
  <2>7. Stands(p)'
    <3>1. CASE Unsure(file) /\ Goto(p, "leave")
      <4>1. pc'[p] = "leave" BY <2>1, <2>6, <3>1, GotoType
      <4> QED BY <4>1, StandsFree
    <3>2. CASE Stored(file) /\ Goto(p, "click")
      <4>1. pc'[p] = "click" /\ call' = call BY <2>1, <2>6, <3>2, GotoType DEF Goto
      <4>2. todo' \subseteq In(data', Ready) /\ cur' \in In(data', {"AMBIGUOUS"})
        BY <1>1, <2>1, <2>3, <2>5 DEF In, File
      <4>3. data'.gen[cur'] = call'[p].bound /\ rung'[cur'] = 0
        BY <1>1, <2>1, <2>2, <2>3, <2>5, <4>1 DEF File, chats
      <4> QED BY <1>1, <2>1, <2>5, <3>2, <4>1, <4>2, <4>3 DEF Stands
    <3> QED BY <2>4, <3>1, <3>2
  <2> QED BY <1>1, <2>1, <2>3, <2>4, <2>5, <2>7 DEF Advances, TypeOK, Inside
<1> QED BY <1>2, <1>3 DEF BeforeClick

(* The attempt is recorded as submitted, or stays held. *)
LEMMA SettleStep ==
  ASSUME IInv, NEW p \in Passes, Settle(p) PROVE Advances(p) /\ Later(data, data')
<1>1. /\ TypeOK /\ data \in File /\ todo \subseteq In(data, Ready) /\ cur \in In(data, {"AMBIGUOUS"})
      /\ cur \notin todo /\ "pick" \in Places
  BY DEF IInv, TypeOK, Standing, Stands, Settle, Places, Writing
<1>2. Goto(p, "pick") /\ UNCHANGED <<lock, inbox, todo, cur, attempted, config, chats, admitted>>
  BY DEF Settle
<1>3. Written /\ Later(data, data') /\ todo \subseteq In(data', Ready)
  <2>1. CASE NoWrite
    <3>1. Written /\ data' = data BY <1>1, <2>1, NoWriteEffect
    <3> QED BY <1>1, <3>1 DEF Later
  <2>2. CASE Proven(cur) /\ (Stored(Submitted(data, cur)) \/ Unsure(Submitted(data, cur)))
    <3>1. /\ Later(data, Submitted(data, cur)) /\ Submitted(data, cur) \in File
          /\ Submitted(data, cur).status = [data.status EXCEPT ![cur] = "SUBMITTED"]
      BY <1>1, <2>2, LaterSubmitted
    <3>2. Written /\ data' = Submitted(data, cur) BY <1>1, <2>2, <3>1, WriteEffect
    <3> QED BY <1>1, <3>1, <3>2 DEF In, File
  <2> QED BY <2>1, <2>2 DEF Settle
<1>4. pc'[p] = "pick" BY <1>1, <1>2, GotoType
<1>5. Stands(p)' BY <1>2, <1>3, <1>4 DEF Stands
<1> QED BY <1>1, <1>2, <1>3, <1>5 DEF Advances, TypeOK, Inside

(* Settled records shrink to their digests. *)
Shrinks == \E S \in SUBSET In(data, Settled) :
  /\ data' = [data EXCEPT !.status = [e \in Events |-> IF e \in S THEN "absent" ELSE @[e]],
                          !.gen = [e \in Events |-> IF e \in S THEN 0 ELSE @[e]],
                          !.tombstones = @ \cup S]
  /\ S # {} => Cardinality(data'.tombstones) <= MaxTombstones

(* Compaction shrinks, or changes nothing. *)
LEMMA CompactStep ==
  ASSUME IInv, NEW p \in Passes, Compact(p) PROVE Advances(p) /\ Shrinks
<1>1. TypeOK /\ data \in File /\ "leave" \in Places BY DEF IInv, TypeOK, Places
<1>2. UNCHANGED <<lock, inbox, todo, cur, attempted, config, chats, admitted>> BY DEF Compact
<1>3. PICK S \in SUBSET In(data, Settled) : Compact(p)!2!(S) BY DEF Compact
<1> DEFINE file == [data EXCEPT !.status = [e \in Events |-> IF e \in S THEN "absent" ELSE @[e]],
                                !.gen = [e \in Events |-> IF e \in S THEN 0 ELSE @[e]],
                                !.tombstones = @ \cup S]
<1>4. file \in File BY <1>1 DEF File, In
<1>5. (S # {} => Cardinality(file.tombstones) <= MaxTombstones) /\ Write(p, file, "leave") BY <1>3
<1>6. Written /\ data' = file /\ Goto(p, "leave")
  <2> HIDE DEF file
  <2> QED BY <1>1, <1>4, <1>5, WriteGoto
<1>7. pc'[p] = "leave" BY <1>1, <1>6, GotoType
<1>8. Stands(p)' BY <1>7, StandsFree
<1>9. Shrinks BY <1>5, <1>6 DEF Shrinks
<1> QED BY <1>1, <1>2, <1>6, <1>8, <1>9 DEF Advances, TypeOK, Inside

-----------------------------------------------------------------------------
(* Steps at the edge of the lock. *)

(* What a pass was called for stays with it until it ends. *)
LEMMA CallingKeeps ==
  ASSUME TypeOK, Calling, NEW p \in Passes, pc[p] # "idle", NEW place \in Places, Goto(p, place),
         place \in {"offer", "fill", "recover"} => call[p].mode # "drain"
  PROVE  Calling'
<1> SUFFICES ASSUME NEW q \in Passes
             PROVE  /\ call'[q].mode # "drain" => call'[q].event \in Events
                    /\ pc'[q] \in {"offer", "fill", "recover"} => call'[q].mode # "drain"
                    /\ pc'[q] # "idle" => call'[q].bound \in Generations
  BY DEF Calling
<1>1. CASE q # p BY <1>1, GotoType DEF Calling
<1>2. CASE q = p /\ place = "idle" BY <1>2, GotoType DEF NoCall
<1>3. CASE q = p /\ place # "idle" BY <1>3, GotoType DEF Calling
<1> QED BY <1>1, <1>2, <1>3

(* A step outside the lock disturbs nobody who holds it. *)
LEMMA OutsideStands ==
  ASSUME Standing, NEW p \in Passes, pc'[p] \in {"idle", "enter", "offer", "fill", "bind", "leave"},
         \A q \in Passes \ {p} : pc'[q] = pc[q] /\ call'[q] = call[q],
         UNCHANGED <<disk, data, todo, cur, rung>>
  PROVE  Standing'
<1> SUFFICES ASSUME NEW q \in Passes PROVE Stands(q)' BY DEF Standing
<1>1. CASE q = p BY <1>1 DEF Stands
<1>2. CASE q # p
  <2>1. Stands(q) /\ pc'[q] = pc[q] /\ call'[q] = call[q] BY <1>2 DEF Standing
  <2> QED BY <2>1 DEF Stands, In, Recorded
<1> QED BY <1>1, <1>2

(* When nobody stays inside, nobody has anything to stand on. *)
LEMMA NobodyStands ==
  ASSUME TypeOK, NEW p \in Passes, pc'[p] \in {"idle", "offer", "recover", "bind", "leave"},
         \A q \in Passes \ {p} : pc'[q] \notin Inside
  PROVE  Standing'
<1> SUFFICES ASSUME NEW q \in Passes PROVE Stands(q)' BY DEF Standing
<1> QED BY DEF Stands, Inside

(* The parts of the invariant that do not speak of the files' contents. *)
Sound == TypeOK /\ Holding /\ Calling /\ Standing

(* A call changes nothing of the lane. *)
LEMMA StartStep ==
  ASSUME IInv, NEW p \in Passes, NEW m \in Modes, NEW e \in Events \cup {NoEvent}, Start(p, m, e)
  PROVE  Sound' /\ UNCHANGED <<lane, chats, admitted>>
<1>1. TypeOK /\ Holding /\ Calling /\ Standing BY DEF IInv
<1>2. /\ pc' = [pc EXCEPT ![p] = "enter"] /\ pc[p] = "idle"
      /\ call' = [call EXCEPT ![p] = [mode |-> m, event |-> e, bound |-> config]]
      /\ UNCHANGED <<lane, config, chats, admitted, faults>>
  BY DEF Start
<1>3. m # "drain" => e \in Events BY DEF Start
<1>4. [mode |-> m, event |-> e, bound |-> config] \in Call BY <1>1 DEF Call, TypeOK
<1>5. "enter" \in Places BY DEF Places
<1>6. TypeOK' BY <1>1, <1>2, <1>4, <1>5 DEF TypeOK, lane, chats
<1>7. Holding' BY <1>1, <1>2 DEF Holding, TypeOK, lane, Inside
<1>8. Calling' BY <1>1, <1>2, <1>3 DEF Calling, TypeOK
<1>9. Standing' BY <1>1, <1>2, OutsideStands DEF TypeOK, lane, chats
<1> QED BY <1>2, <1>6, <1>7, <1>8, <1>9 DEF Sound

(* Who finds the lock taken leaves the lane alone. *)
LEMMA LockedStep ==
  ASSUME IInv, NEW p \in Passes, Locked(p)
  PROVE  Sound' /\ UNCHANGED <<lane, chats, admitted>>
<1>1. TypeOK /\ Holding /\ Calling /\ Standing /\ pc[p] = "enter" BY DEF IInv, Locked
<1>2. PICK place \in {"offer", "idle"} :
        /\ Goto(p, place)
        /\ place = "offer" => call[p].mode = "deliver"
  BY DEF Locked
<1>3. UNCHANGED <<lane, config, chats, admitted, faults>> BY DEF Locked
<1>4. place \in Places BY DEF Places
<1>5. TypeOK' BY <1>1, <1>2, <1>3, <1>4, GotoType DEF TypeOK, lane, chats
<1>6. Holding' BY <1>1, <1>2, <1>3, <1>4, GotoType DEF Holding, lane, Inside
<1>7. Calling' BY <1>1, <1>2, <1>4, CallingKeeps
<1>8. Standing' BY <1>1, <1>2, <1>3, <1>4, GotoType, OutsideStands DEF lane, chats
<1> QED BY <1>3, <1>5, <1>6, <1>7, <1>8 DEF Sound

(* Who takes the lock reads the file. *)
LEMMA EnterStep ==
  ASSUME IInv, NEW p \in Passes, Enter(p)
  PROVE  Sound' /\ data' = disk /\ UNCHANGED <<disk, inbox, chats, admitted>>
<1>1. TypeOK /\ Holding /\ Calling /\ pc[p] = "enter" /\ lock = NoPass BY DEF IInv, Enter
<1>2. PICK place \in {"leave", "offer", "recover", "bind"} :
        /\ Goto(p, place)
        /\ place \in {"offer", "recover"} => call[p].mode # "drain"
  BY DEF Enter
<1>3. /\ lock' = p /\ data' = disk
      /\ UNCHANGED <<pending, disk, inbox, todo, cur, attempted, config, chats, admitted, faults>>
  BY DEF Enter
<1>4. place \in Places BY DEF Places, Writing
<1>5. TypeOK' BY <1>1, <1>2, <1>3, <1>4, GotoType DEF TypeOK, chats
<1>6. \A q \in Passes \ {p} : pc'[q] = pc[q] /\ pc[q] \notin Inside
  BY <1>1, <1>2, <1>4, GotoType, LaneAssumption DEF Holding
<1>7. Holding'
  <2>1. pc'[p] = place BY <1>1, <1>2, <1>4, GotoType
  <2> QED BY <1>3, <1>6, <2>1 DEF Holding
<1>8. Calling' BY <1>1, <1>2, <1>4, CallingKeeps
<1>9. Standing' BY <1>1, <1>2, <1>4, <1>6, GotoType, NobodyStands
<1> QED BY <1>3, <1>5, <1>7, <1>8, <1>9 DEF Sound

(* An intake, with or without the lock. *)
LEMMA OfferStep ==
  ASSUME IInv, NEW p \in Passes, Offer(p)
  PROVE  /\ Sound' /\ UNCHANGED <<disk, data, chats>>
         /\ \A e \in Events : inbox[e] = "whole" <=> inbox'[e] = "whole"
         /\ \A e \in admitted' \ admitted : inbox'[e] = "whole"
<1>1. TypeOK /\ Holding /\ Calling /\ Standing /\ pc[p] = "offer" /\ call[p].event \in Events
  BY DEF IInv, Offer, Calling
<1>2. PICK place \in {"fill", "bind", "idle", "leave"} :
        /\ Goto(p, place)
        /\ place \in {"bind", "leave"} => lock = p
        /\ place = "idle" => lock # p
  BY DEF Offer, Onward, Refused
<1>3. UNCHANGED <<lock, pending, disk, data, todo, cur, attempted, config, chats, faults>> BY DEF Offer
<1>4. \/ /\ inbox[call[p].event] = "absent" /\ UNCHANGED admitted
         /\ inbox' = [inbox EXCEPT ![call[p].event] = "partial"]
      \/ /\ inbox[call[p].event] = "whole" /\ UNCHANGED inbox
         /\ admitted' = admitted \cup {call[p].event}
      \/ UNCHANGED <<inbox, admitted>>
  BY DEF Offer
<1>5. inbox' \in [Events -> {"absent", "partial", "whole"}] /\ admitted' \subseteq Events
  BY <1>1, <1>4 DEF TypeOK
<1>6. place \in Places BY DEF Places, Writing
<1>7. TypeOK' BY <1>1, <1>2, <1>3, <1>5, <1>6, GotoType DEF TypeOK, chats
<1>8. Holding' BY <1>1, <1>2, <1>3, <1>6, GotoType DEF Holding, Inside
<1>9. call[p].mode # "drain" BY <1>1 DEF Calling
<1>10. Calling' BY <1>1, <1>2, <1>6, <1>9, CallingKeeps
<1>11. Standing' BY <1>1, <1>2, <1>3, <1>6, GotoType, OutsideStands DEF chats
<1>12. \A e \in Events : inbox[e] = "whole" <=> inbox'[e] = "whole" BY <1>1, <1>4 DEF TypeOK
<1>13. \A e \in admitted' \ admitted : inbox'[e] = "whole" BY <1>4
<1> QED BY <1>3, <1>7, <1>8, <1>10, <1>11, <1>12, <1>13 DEF Sound

(* The intake is durable. *)
LEMMA FillStep ==
  ASSUME IInv, NEW p \in Passes, Fill(p)
  PROVE  /\ Sound' /\ UNCHANGED <<disk, data, chats>>
         /\ inbox' = [inbox EXCEPT ![call[p].event] = "whole"]
         /\ admitted' = admitted \cup {call[p].event} /\ call[p].event \in Events
<1>1. TypeOK /\ Holding /\ Calling /\ Standing /\ pc[p] = "fill" /\ call[p].event \in Events
  BY DEF IInv, Fill, Calling
<1>2. PICK place \in {"bind", "idle"} :
        /\ Goto(p, place)
        /\ place = "bind" => lock = p
        /\ place = "idle" => lock # p
  BY DEF Fill, Onward
<1>3. UNCHANGED <<lock, pending, disk, data, todo, cur, attempted, config, chats, faults>> BY DEF Fill
<1>4. /\ inbox' = [inbox EXCEPT ![call[p].event] = "whole"]
      /\ admitted' = admitted \cup {call[p].event}
  BY DEF Fill
<1>5. place \in Places BY DEF Places, Writing
<1>6. TypeOK' BY <1>1, <1>2, <1>3, <1>4, <1>5, GotoType DEF TypeOK, chats
<1>7. Holding' BY <1>1, <1>2, <1>3, <1>5, GotoType DEF Holding, Inside
<1>8. Calling' BY <1>1, <1>2, <1>5, CallingKeeps
<1>9. Standing' BY <1>1, <1>2, <1>3, <1>5, GotoType, OutsideStands DEF chats
<1> QED BY <1>1, <1>3, <1>4, <1>6, <1>7, <1>8, <1>9 DEF Sound

(* The file of an event goes when its record is durable. *)
LEMMA UnlinkStep ==
  ASSUME IInv, NEW p \in Passes, Unlink(p)
  PROVE  /\ Sound' /\ UNCHANGED <<disk, data, chats, admitted>>
         /\ inbox' = [inbox EXCEPT ![cur] = "absent"]
         /\ disk = data /\ cur \in Recorded(data) \cup data.tombstones /\ cur \in Events
<1>1. TypeOK /\ Holding /\ Calling /\ Standing /\ pc[p] = "unlink" /\ Goto(p, "consume")
  BY DEF IInv, Unlink
<1>2. disk = data /\ cur \in Recorded(data) \cup data.tombstones BY <1>1 DEF Standing, Stands
<1>3. cur \in Events BY <1>1, <1>2 DEF Recorded, In, TypeOK, File
<1>4. /\ inbox' = [inbox EXCEPT ![cur] = "absent"] /\ cur' = NoEvent
      /\ UNCHANGED <<lock, pending, disk, data, todo, attempted, config, chats, admitted, faults>>
  BY DEF Unlink
<1>5. "consume" \in Places BY DEF Places, Writing
<1>6. TypeOK' BY <1>1, <1>4, <1>5, GotoType DEF TypeOK, chats
<1>7. Holding' BY <1>1, <1>4, <1>5, GotoType DEF Holding, Inside
<1>8. Calling' BY <1>1, <1>5, CallingKeeps
<1>9. pc'[p] = "consume" BY <1>1, <1>5, GotoType
<1>10. Stands(p)' BY <1>9, StandsFree
<1>11. Standing' BY <1>1, <1>5, <1>10, OthersStand DEF Inside
<1> QED BY <1>2, <1>3, <1>4, <1>6, <1>7, <1>8, <1>11 DEF Sound

(* The click: once, under its record. *)
LEMMA ClickStep ==
  ASSUME IInv, NEW p \in Passes, Click(p)
  PROVE  /\ Sound' /\ UNCHANGED <<disk, data, inbox, admitted>>
         /\ \/ UNCHANGED chats
            \/ /\ cur \in Events /\ disk = data /\ data.status[cur] = "AMBIGUOUS"
               /\ turns' = turns \cup {<<disk.gen[cur], cur>>}
               /\ rung[cur] = 0 /\ rung' = [rung EXCEPT ![cur] = 1]
<1>1. TypeOK /\ Holding /\ Calling /\ Standing /\ pc[p] = "click" /\ call[p].bound \in Generations
  BY DEF IInv, Click, Calling
<1>2. Stands(p) /\ cur \in Events /\ data.status[cur] = "AMBIGUOUS"
      /\ disk = data /\ data.gen[cur] = call[p].bound /\ rung[cur] = 0
  BY <1>1 DEF Standing, Stands, In
<1>3. UNCHANGED <<lane, config, admitted, faults>> BY DEF Click
<1>4. PICK place \in {"settle", "pick"} : Goto(p, place) BY DEF Click
<1>5. \/ UNCHANGED chats
      \/ /\ turns' = turns \cup {<<disk.gen[cur], cur>>}
         /\ rung' = [rung EXCEPT ![cur] = 1]
  <2>1. CASE UNCHANGED chats BY <2>1
  <2>2. CASE turns' = turns \cup {<<call[p].bound, cur>>} /\ rung' = [rung EXCEPT ![cur] = @ + 1]
    BY <1>2, <2>2
  <2> QED BY <2>1, <2>2 DEF Click
<1>6. turns' \subseteq Generations \X Events /\ rung' \in [Events -> 0..RingBound]
  BY <1>1, <1>2, <1>5 DEF TypeOK, chats, RingBound
<1>7. place \in Places BY DEF Places, Writing
<1>8. TypeOK' BY <1>1, <1>3, <1>4, <1>6, <1>7, GotoType DEF TypeOK, lane
<1>9. Holding' BY <1>1, <1>3, <1>4, <1>7, GotoType DEF Holding, Inside, lane
<1>10. Calling' BY <1>1, <1>4, <1>7, CallingKeeps
<1>11. pc'[p] = place BY <1>1, <1>4, <1>7, GotoType
<1>12. Stands(p)' BY <1>1, <1>2, <1>3, <1>11 DEF Stands, lane, In
<1>13. Standing' BY <1>1, <1>4, <1>7, <1>12, OthersStand DEF Inside
<1> QED BY <1>2, <1>3, <1>5, <1>8, <1>9, <1>10, <1>13 DEF Sound, lane

(* Who ends, or dies, outside the lock leaves the lane alone; the holder's
   copy of the state goes with the holder. *)
LEMMA EndStep ==
  ASSUME IInv, NEW p \in Passes, pc[p] # "idle", Goto(p, "idle"),
         \/ lock = p /\ lock' \in {NoPass, Stale} /\ Released
         \/ lock # p /\ UNCHANGED <<lock, data, todo, cur, attempted>>,
         pending' \in BOOLEAN, faults' \in 0..MaxFaults,
         UNCHANGED <<disk, inbox, config, chats, admitted>>
  PROVE  Sound' /\ data' \in {data, disk}
<1>1. TypeOK /\ Holding /\ Calling /\ Standing /\ "idle" \in Places BY DEF IInv, Places
<1>2. /\ pc' \in [Passes -> Places] /\ pc'[p] = "idle"
      /\ \A q \in Passes \ {p} : pc'[q] = pc[q] /\ call'[q] = call[q]
      /\ call' \in [Passes -> Call]
  BY <1>1, GotoType
<1>3. TypeOK'
  <2>1. /\ lock' \in Passes \cup {NoPass, Stale} /\ data' \in File /\ todo' \subseteq Events
        /\ cur' \in Events \cup {NoEvent} /\ attempted' \in BOOLEAN
    BY <1>1 DEF TypeOK, Released
  <2> QED BY <1>1, <1>2, <2>1 DEF TypeOK, chats
<1>4. Calling' BY <1>1, CallingKeeps
<1>5. CASE lock = p /\ lock' \in {NoPass, Stale} /\ Released
  <2>1. \A q \in Passes \ {p} : pc[q] \notin Inside BY <1>1, <1>5 DEF Holding
  <2>2. lock' \notin Passes BY <1>5, LaneAssumption
  <2>3. Holding' BY <1>2, <2>1, <2>2 DEF Holding, Inside
  <2>4. Standing' BY <1>1, <1>2, <2>1, NobodyStands
  <2> QED BY <1>3, <1>4, <1>5, <2>3, <2>4 DEF Released, Sound
<1>6. CASE lock # p /\ UNCHANGED <<lock, data, todo, cur, attempted>>
  <2>1. Holding' BY <1>1, <1>2, <1>6 DEF Holding, Inside
  <2>2. Standing' BY <1>1, <1>2, <1>6, OutsideStands DEF chats
  <2> QED BY <1>3, <1>4, <1>6, <2>1, <2>2 DEF Sound
<1> QED BY <1>5, <1>6

(* The pass ends. *)
LEMMA LeaveStep ==
  ASSUME IInv, NEW p \in Passes, Leave(p)
  PROVE  Sound' /\ data' \in {data, disk} /\ UNCHANGED <<disk, inbox, chats, admitted>>
<1>1. pc[p] = "leave" /\ lock = p BY DEF IInv, Leave, Holding, Inside
<1>2. /\ lock' = NoPass /\ Released /\ Goto(p, "idle")
      /\ UNCHANGED <<pending, disk, inbox, config, chats, admitted, faults>>
  BY DEF Leave
<1>3. pending' \in BOOLEAN /\ faults' \in 0..MaxFaults BY <1>2 DEF IInv, TypeOK
<1> QED BY <1>1, <1>2, <1>3, EndStep

(* The process dies. *)
LEMMA DieStep ==
  ASSUME IInv, NEW p \in Passes, Die(p)
  PROVE  Sound' /\ data' \in {data, disk} /\ UNCHANGED <<disk, inbox, chats, admitted>>
<1>1. TypeOK /\ pc[p] # "idle" /\ Goto(p, "idle") BY DEF IInv, Die
<1>2. UNCHANGED <<disk, inbox, config, chats, admitted>> BY DEF Die
<1>3. faults' \in 0..MaxFaults
  <2>1. faults \in 0..MaxFaults /\ MaxFaults \in Nat BY <1>1, LaneAssumption DEF TypeOK
  <2> QED BY <2>1 DEF Die
<1>4. pending' \in BOOLEAN BY <1>1 DEF Die, TypeOK
<1>5. \/ lock = p /\ lock' \in {NoPass, Stale} /\ Released
      \/ lock # p /\ UNCHANGED <<lock, data, todo, cur, attempted>>
  BY DEF Die
<1> QED BY <1>1, <1>2, <1>3, <1>4, <1>5, EndStep

(* What the Human does around the passes. *)
LEMMA HumanStep ==
  ASSUME IInv, Reconcile \/ Rebind
  PROVE  /\ Sound' /\ UNCHANGED <<disk, data, chats, admitted>>
         /\ \A e \in Events : inbox[e] = "whole" <=> inbox'[e] = "whole"
<1>1. TypeOK /\ Holding /\ Calling /\ Standing BY DEF IInv
<1>2. /\ UNCHANGED <<disk, data, todo, cur, attempted, passes, chats, admitted, faults>>
      /\ lock' \in {lock, NoPass} /\ (lock' # lock => lock = Stale)
      /\ pending' \in BOOLEAN /\ config' \in Generations
      /\ inbox' \in [Events -> {"absent", "partial", "whole"}]
      /\ \A e \in Events : inbox[e] = "whole" <=> inbox'[e] = "whole"
  <2>1. CASE Rebind BY <1>1, <2>1 DEF Rebind, lane, TypeOK
  <2>2. CASE Reconcile BY <1>1, <2>2 DEF Reconcile, TypeOK
  <2> QED BY <2>1, <2>2
<1>3. TypeOK' BY <1>1, <1>2 DEF TypeOK, passes, chats
<1>4. Holding' BY <1>1, <1>2, LaneAssumption DEF Holding, passes
<1>5. Calling' BY <1>1, <1>2 DEF Calling, passes
<1>6. Standing' BY <1>1, <1>2 DEF Standing, Stands, passes, chats, In, Recorded
<1> QED BY <1>2, <1>3, <1>4, <1>5, <1>6 DEF Sound

-----------------------------------------------------------------------------
(* What the files say. *)

(* The recorded events are finitely many. *)
LEMMA FewRecords ==
  ASSUME NEW f
  PROVE  IsFiniteSet(Recorded(f)) /\ Cardinality(Recorded(f)) \in Nat
<1>1. Recorded(f) \subseteq Events BY DEF Recorded, In
<1>2. IsFiniteSet(Events) BY LaneAssumption
<1>3. IsFiniteSet(Recorded(f)) BY <1>1, <1>2, FS_Subset
<1> QED BY <1>3, FS_CardinalityType

(* The records of a file that is rewritten forward. *)
LEMMA LaterKnows ==
  ASSUME NEW f \in File, NEW g \in File, Later(f, g)
  PROVE  /\ Recorded(g) = Recorded(f) /\ g.tombstones = f.tombstones
         /\ In(f, Settled) \subseteq In(g, Settled)
         /\ In(f, Settled \cup {"AMBIGUOUS"}) \subseteq In(g, Settled \cup {"AMBIGUOUS"})
<1>1. \A e \in Events : f.status[e] \in Statuses <=> g.status[e] \in Statuses
  BY DEF Later, Statuses, Ready, Settled, Open
<1>2. \A e \in Events : f.status[e] \in Settled => g.status[e] \in Settled
  BY DEF Later, Ready, Settled, Open
<1>3. \A e \in Events : f.status[e] \in Settled \cup {"AMBIGUOUS"} => g.status[e] \in Settled \cup {"AMBIGUOUS"}
  BY DEF Later, Ready, Settled, Open
<1> QED BY <1>1, <1>2, <1>3 DEF Recorded, In, Later

(* Rewriting forward keeps what a file has to say. *)
LEMMA LaterOK ==
  ASSUME NEW f \in File, NEW g \in File, FileOK(f), Later(f, g)
  PROVE  FileOK(g)
<1>1. \A e \in In(g, {"SUBMITTED"}) : <<g.gen[e], e>> \in turns
  <2> SUFFICES ASSUME NEW e \in Events, g.status[e] = "SUBMITTED" PROVE <<g.gen[e], e>> \in turns
    BY DEF In
  <2>1. CASE g.status[e] = f.status[e] /\ g.gen[e] = f.gen[e] BY <2>1 DEF FileOK, In
  <2>2. CASE <<g.gen[e], e>> \in turns BY <2>2
  <2> QED BY <2>1, <2>2 DEF Later
<1> QED BY <1>1, LaterKnows DEF FileOK

(* So does the recording of an event from the inbox ... *)
LEMMA IntakeOK ==
  ASSUME TypeOK, FileOK(data), Intakes
  PROVE  /\ \A e \in Events : rung[e] > 0 =>
               e \in In(data', Settled \cup {"AMBIGUOUS"}) \cup data'.tombstones
         /\ data'.tombstones \cap Recorded(data') = {}
         /\ \A e \in In(data', {"SUBMITTED"}) : <<data'.gen[e], e>> \in turns
         /\ Cardinality(Recorded(data')) <= MaxEvents
         /\ Cardinality(data'.tombstones) <= MaxTombstones
         /\ \A e \in admitted : inbox[e] = "whole" \/ e \in Recorded(data') \cup data'.tombstones
         /\ \A e \in Events : Attends(data', inbox, e) = Attends(data, inbox, e)
<1>1. PICK e \in Events : New(e) /\ ~Full /\ inbox[e] = "whole" /\ data' = record(data, e, "PENDING", 0)
  BY DEF Intakes
<1>2. /\ data'.status = [data.status EXCEPT ![e] = "PENDING"]
      /\ data'.gen = [data.gen EXCEPT ![e] = 0] /\ data'.tombstones = data.tombstones
  BY <1>1 DEF record, TypeOK, File
<1>3. /\ data.status \in [Events -> Statuses \cup {"absent"}]
      /\ data.gen \in [Events -> Generations \cup {0}]
  BY DEF TypeOK, File
<1>4. e \notin Recorded(data) /\ e \notin data.tombstones BY <1>1 DEF New
<1>5. Recorded(data') = Recorded(data) \cup {e}
  BY <1>2, <1>3 DEF Recorded, In, Statuses, Ready
<1>6. /\ In(data', Settled \cup {"AMBIGUOUS"}) = In(data, Settled \cup {"AMBIGUOUS"})
      /\ In(data', {"SUBMITTED"}) = In(data, {"SUBMITTED"})
      /\ In(data', Settled) = In(data, Settled)
      /\ In(data', {"AMBIGUOUS"}) = In(data, {"AMBIGUOUS"})
  BY <1>2, <1>3, <1>4 DEF In, Recorded, Settled, Statuses, Ready
<1>7. Cardinality(Recorded(data')) <= MaxEvents
  <2>1. Cardinality(Recorded(data')) = Cardinality(Recorded(data)) + 1
    BY <1>4, <1>5, FewRecords, FS_AddElement
  <2>2. ~(Cardinality(Recorded(data)) >= MaxEvents) BY <1>1 DEF Full
  <2>3. Cardinality(Recorded(data)) \in Nat /\ MaxEvents \in Nat BY FewRecords, LaneAssumption
  <2> QED BY <2>1, <2>2, <2>3
<1>8. \A x \in In(data', {"SUBMITTED"}) : <<data'.gen[x], x>> \in turns
  <2> SUFFICES ASSUME NEW x \in In(data', {"SUBMITTED"}) PROVE <<data'.gen[x], x>> \in turns OBVIOUS
  <2>1. x \in In(data, {"SUBMITTED"}) BY <1>6
  <2>2. x # e BY <1>4, <2>1 DEF In, Recorded, Statuses, Settled
  <2>3. data'.gen[x] = data.gen[x] BY <1>2, <1>3, <2>1, <2>2 DEF In
  <2> QED BY <2>1, <2>3 DEF FileOK
<1>9. \A x \in Events : Attends(data', inbox, x) = Attends(data, inbox, x)
  <2> SUFFICES ASSUME NEW x \in Events PROVE Attends(data', inbox, x) = Attends(data, inbox, x)
    OBVIOUS
  <2>1. x # e => (x \in In(data', Ready) <=> x \in In(data, Ready)) BY <1>2, <1>3 DEF In
  <2>2. CASE x = e BY <1>1, <1>2, <1>6, <2>2 DEF Attends
  <2>3. CASE x # e BY <1>2, <1>6, <2>1, <2>3 DEF Attends
  <2> QED BY <2>2, <2>3
<1> QED BY <1>1, <1>2, <1>4, <1>5, <1>6, <1>7, <1>8, <1>9 DEF FileOK

(* ... and compaction. *)
LEMMA ShrinkOK ==
  ASSUME TypeOK, FileOK(data), Shrinks
  PROVE  /\ \A e \in Events : rung[e] > 0 =>
               e \in In(data', Settled \cup {"AMBIGUOUS"}) \cup data'.tombstones
         /\ data'.tombstones \cap Recorded(data') = {}
         /\ \A e \in In(data', {"SUBMITTED"}) : <<data'.gen[e], e>> \in turns
         /\ Cardinality(Recorded(data')) <= MaxEvents
         /\ Cardinality(data'.tombstones) <= MaxTombstones
         /\ \A e \in admitted : inbox[e] = "whole" \/ e \in Recorded(data') \cup data'.tombstones
         /\ \A e \in Events : Attends(data', inbox, e) = Attends(data, inbox, e)
<1>1. PICK S \in SUBSET In(data, Settled) :
        /\ data' = [data EXCEPT !.status = [e \in Events |-> IF e \in S THEN "absent" ELSE @[e]],
                                !.gen = [e \in Events |-> IF e \in S THEN 0 ELSE @[e]],
                                !.tombstones = @ \cup S]
        /\ S # {} => Cardinality(data'.tombstones) <= MaxTombstones
  BY DEF Shrinks
<1>2. /\ data'.status = [e \in Events |-> IF e \in S THEN "absent" ELSE data.status[e]]
      /\ data'.gen = [e \in Events |-> IF e \in S THEN 0 ELSE data.gen[e]]
      /\ data'.tombstones = data.tombstones \cup S
  BY <1>1 DEF TypeOK, File
<1>3. S \subseteq Recorded(data) /\ S \subseteq In(data, Settled) /\ S \subseteq Events
  BY DEF Recorded, In, Statuses
<1>4. Recorded(data') = Recorded(data) \ S BY <1>2 DEF Recorded, In, Statuses, Ready, Settled
<1>5. /\ In(data', Settled \cup {"AMBIGUOUS"}) = In(data, Settled \cup {"AMBIGUOUS"}) \ S
      /\ In(data', {"SUBMITTED"}) = In(data, {"SUBMITTED"}) \ S
      /\ In(data', Settled) = In(data, Settled) \ S
      /\ In(data', {"AMBIGUOUS"}) = In(data, {"AMBIGUOUS"}) \ S
      /\ In(data', Ready) = In(data, Ready) \ S
  BY <1>2 DEF In, Settled, Ready
<1>6. Cardinality(Recorded(data')) <= MaxEvents
  <2>1. Recorded(data') \subseteq Recorded(data) BY <1>4
  <2>2. Cardinality(Recorded(data')) <= Cardinality(Recorded(data))
    BY <2>1, FewRecords, FS_Subset
  <2>3. /\ Cardinality(Recorded(data')) \in Nat /\ Cardinality(Recorded(data)) \in Nat
        /\ MaxEvents \in Nat
    BY FewRecords, LaneAssumption
  <2> QED BY <2>2, <2>3 DEF FileOK
<1>7. Cardinality(data'.tombstones) <= MaxTombstones
  <2>1. CASE S = {} BY <1>2, <2>1 DEF FileOK
  <2>2. CASE S # {} BY <1>1, <2>2
  <2> QED BY <2>1, <2>2
<1>8. \A x \in In(data', {"SUBMITTED"}) : <<data'.gen[x], x>> \in turns
  <2> SUFFICES ASSUME NEW x \in In(data', {"SUBMITTED"}) PROVE <<data'.gen[x], x>> \in turns OBVIOUS
  <2>1. x \in In(data, {"SUBMITTED"}) /\ x \notin S BY <1>5
  <2>2. data'.gen[x] = data.gen[x] BY <1>2, <2>1 DEF In
  <2> QED BY <2>1, <2>2 DEF FileOK
<1>9. \A x \in Events : Attends(data', inbox, x) = Attends(data, inbox, x)
  <2> SUFFICES ASSUME NEW x \in Events PROVE Attends(data', inbox, x) = Attends(data, inbox, x)
    OBVIOUS
  <2>1. CASE x \in S BY <1>2, <1>3, <2>1 DEF Attends
  <2>2. CASE x \notin S BY <1>2, <1>5, <2>2 DEF Attends
  <2> QED BY <2>1, <2>2
<1>10. data'.tombstones \cap Recorded(data') = {} BY <1>2, <1>4 DEF FileOK
<1>11. \A e \in Events : rung[e] > 0 =>
          e \in In(data', Settled \cup {"AMBIGUOUS"}) \cup data'.tombstones
  BY <1>2, <1>5 DEF FileOK
<1>12. \A e \in admitted : inbox[e] = "whole" \/ e \in Recorded(data') \cup data'.tombstones
  BY <1>2, <1>4 DEF FileOK
<1> QED BY <1>6, <1>7, <1>8, <1>9, <1>10, <1>11, <1>12

-----------------------------------------------------------------------------
(* The kinds of steps, and what each does to the files, the inbox and the
   chats. *)

SameInbox == \A e \in Events : inbox[e] = "whole" <=> inbox'[e] = "whole"

Moves == /\ data' \in File /\ disk' \in {disk, data'}
         /\ Later(data, data') \/ Intakes \/ Shrinks
         /\ UNCHANGED <<inbox, chats, admitted>>

Rests == /\ data' \in {data, disk} /\ SameInbox
         /\ \A e \in admitted' \ admitted : inbox'[e] = "whole"
         /\ admitted \subseteq admitted' /\ admitted' \subseteq Events
         /\ UNCHANGED <<disk, chats>>

Fills(e) == /\ inbox' = [inbox EXCEPT ![e] = "whole"] /\ admitted' = admitted \cup {e}
            /\ UNCHANGED <<disk, data, chats>>

Empties(e) == /\ inbox' = [inbox EXCEPT ![e] = "absent"]
              /\ disk = data /\ e \in Recorded(data) \cup data.tombstones
              /\ UNCHANGED <<disk, data, chats, admitted>>

Rings(e) == /\ disk = data /\ data.status[e] = "AMBIGUOUS"
            /\ turns' = turns \cup {<<disk.gen[e], e>>}
            /\ rung[e] = 0 /\ rung' = [rung EXCEPT ![e] = 1]
            /\ UNCHANGED <<disk, data, inbox, admitted>>

Kind == Moves \/ Rests \/ \E e \in Events : Fills(e) \/ Empties(e) \/ Rings(e)

(* A step of the holder. *)
LEMMA AdvanceKind ==
  ASSUME IInv, NEW p \in Passes, pc[p] \in Inside, Advances(p), Later(data, data') \/ Intakes \/ Shrinks
  PROVE  Sound' /\ Kind
<1>1. Sound' BY AdvanceKeeps DEF IInv, Sound
<1>2. Moves BY DEF Advances, Written, Moves
<1> QED BY <1>1, <1>2 DEF Kind

(* A step that leaves the disk, the chats and the admissions alone. *)
LEMMA RestKind ==
  ASSUME IInv, data' \in {data, disk}, SameInbox, UNCHANGED <<disk, chats, admitted>> PROVE Kind
<1>1. admitted' \subseteq Events BY DEF IInv, TypeOK
<1> QED BY <1>1 DEF Rests, Kind

(* Every step is of one of these kinds. *)
LEMMA StepKind == ASSUME IInv, [Next]_vars PROVE Sound' /\ Kind
<1>1. CASE UNCHANGED vars
  <2>1. Sound' BY <1>1 DEF IInv, Sound, vars, lane, passes, chats, TypeOK, Holding, Calling,
                           Standing, Stands, In, Recorded
  <2>2. Rests BY <1>1 DEF IInv, TypeOK, vars, lane, chats, Rests, SameInbox
  <2> QED BY <2>1, <2>2 DEF Kind
<1>2. CASE Reconcile \/ Rebind BY <1>2, HumanStep, RestKind DEF SameInbox
<1>3. ASSUME NEW p \in Passes, Called(p) PROVE Sound' /\ Kind
  <2>1. Sound' /\ UNCHANGED <<lane, chats, admitted>> BY <1>3, StartStep DEF Called
  <2> QED BY <2>1, RestKind DEF SameInbox, lane
<1>4. ASSUME NEW p \in Passes, Die(p) PROVE Sound' /\ Kind
  BY <1>4, DieStep, RestKind DEF SameInbox
<1>5. ASSUME NEW p \in Passes, Work(p) PROVE Sound' /\ Kind
  <2>1. CASE Locked(p)
    <3>1. Sound' /\ UNCHANGED <<lane, chats, admitted>> BY <2>1, LockedStep
    <3> QED BY <3>1, RestKind DEF SameInbox, lane
  <2>2. CASE Enter(p) BY <2>2, EnterStep, RestKind DEF SameInbox
  <2>3. CASE Offer(p)
    <3>1. /\ Sound' /\ UNCHANGED <<disk, data, chats>> /\ SameInbox
          /\ \A e \in admitted' \ admitted : inbox'[e] = "whole"
      BY <2>3, OfferStep DEF SameInbox
    <3>2. admitted \subseteq admitted' BY <2>3 DEF Offer
    <3>3. admitted' \subseteq Events BY <3>1 DEF Sound, TypeOK
    <3> QED BY <3>1, <3>2, <3>3 DEF Rests, Kind
  <2>4. CASE Fill(p) BY <2>4, FillStep DEF Fills, Kind
  <2>5. CASE Unlink(p) BY <2>5, UnlinkStep DEF Empties, Kind
  <2>6. CASE Click(p)
    <3>1. CASE UNCHANGED chats BY <2>6, <3>1, ClickStep, RestKind DEF SameInbox
    <3>2. CASE ~UNCHANGED chats BY <2>6, <3>2, ClickStep DEF Rings, Kind
    <3> QED BY <3>1, <3>2
  <2>7. CASE Leave(p) BY <2>7, LeaveStep, RestKind DEF SameInbox
  <2>8. CASE Recover(p) BY <2>8, RecoverStep, AdvanceKind DEF Recover, Inside
  <2>9. CASE RememberBinding(p) BY <2>9, RememberStep, AdvanceKind DEF RememberBinding, Inside
  <2>10. CASE ConsumeInbox(p) BY <2>10, ConsumeStep, AdvanceKind DEF ConsumeInbox, Inside
  <2>11. CASE Queued(p) BY <2>11, QueuedStep, AdvanceKind DEF Queued, Inside
  <2>12. CASE ResolveHeld(p) BY <2>12, ResolveHeldStep, AdvanceKind DEF ResolveHeld, Inside
  <2>13. CASE ProveHeld(p) BY <2>13, ProveHeldStep, AdvanceKind DEF ProveHeld, Inside
  <2>14. CASE Rewrite(p) BY <2>14, RewriteStep, AdvanceKind DEF Rewrite, Inside
  <2>15. CASE Pick(p) BY <2>15, PickStep, AdvanceKind DEF Pick, Inside
  <2>16. CASE Stage(p) BY <2>16, StageStep, AdvanceKind DEF Stage, Inside
  <2>17. CASE BeforeClick(p) BY <2>17, BeforeClickStep, AdvanceKind DEF BeforeClick, Inside
  <2>18. CASE Settle(p) BY <2>18, SettleStep, AdvanceKind DEF Settle, Inside
  <2>19. CASE Compact(p) BY <2>19, CompactStep, AdvanceKind DEF Compact, Inside
  <2>20. CASE Finish(p) BY <2>20, FinishStep, AdvanceKind DEF Finish, Inside
  <2> QED
    BY <1>5, <2>1, <2>2, <2>3, <2>4, <2>5, <2>6, <2>7, <2>8, <2>9, <2>10, <2>11, <2>12, <2>13,
       <2>14, <2>15, <2>16, <2>17, <2>18, <2>19, <2>20 DEF Work
<1> QED BY <1>1, <1>2, <1>3, <1>4, <1>5 DEF Next

(* Rewriting forward moves the attention of an event onward. *)
LEMMA LaterOnwards ==
  ASSUME NEW f \in File, NEW g \in File, Later(f, g), NEW e \in Events
  PROVE  Onwards(Attends(f, inbox, e), Attends(g, inbox, e))
<1>1. g.tombstones = f.tombstones BY DEF Later
<1>2. CASE f.status[e] = g.status[e] BY <1>1, <1>2 DEF Attends, In, Onwards
<1>3. CASE f.status[e] \in Ready /\ g.status[e] \in Ready
  BY <1>1, <1>3 DEF Attends, In, Onwards, Ready, Settled
<1>4. CASE f.status[e] \in Ready /\ g.status[e] \in Settled \cup {"AMBIGUOUS"}
  BY <1>1, <1>4 DEF Attends, In, Onwards, Ready, Settled
<1>5. CASE f.status[e] = "AMBIGUOUS" /\ g.status[e] \in Settled
  BY <1>1, <1>5 DEF Attends, In, Onwards, Ready, Settled
<1> QED BY <1>2, <1>3, <1>4, <1>5 DEF Later, Open, Ready, Settled

(* A move of the holder leads every event onward, from what the disk has. *)
LEMMA MovesOnwards ==
  ASSUME IInv, Moves
  PROVE  /\ FileOK(disk)' /\ FileOK(data)'
         /\ \A e \in Events : Onwards(Attends(disk, inbox, e), Attends(data', inbox, e))
<1>1. data \in File /\ data' \in File /\ disk' \in {disk, data'} BY DEF IInv, TypeOK, Moves
<1>2. /\ FileOK(data)'
      /\ \A e \in Events : Onwards(Attends(data, inbox, e), Attends(data', inbox, e))
  <2>1. CASE Later(data, data')
    <3>1. FileOK(data') BY <1>1, <2>1, LaterOK DEF IInv
    <3>2. FileOK(data)' BY <3>1 DEF FileOK, Moves, chats, In, Recorded
    <3>3. \A e \in Events : Onwards(Attends(data, inbox, e), Attends(data', inbox, e))
      BY <1>1, <2>1, LaterOnwards
    <3> QED BY <3>2, <3>3
  <2>2. CASE Intakes
    <3>1. FileOK(data)' BY <2>2, IntakeOK DEF IInv, FileOK, Moves, chats
    <3>2. \A e \in Events : Attends(data', inbox, e) = Attends(data, inbox, e)
      BY <2>2, IntakeOK DEF IInv
    <3> QED BY <3>1, <3>2 DEF Onwards
  <2>3. CASE Shrinks
    <3>1. FileOK(data)' BY <2>3, ShrinkOK DEF IInv, FileOK, Moves, chats
    <3>2. \A e \in Events : Attends(data', inbox, e) = Attends(data, inbox, e)
      BY <2>3, ShrinkOK DEF IInv
    <3> QED BY <3>1, <3>2 DEF Onwards
  <2> QED BY <2>1, <2>2, <2>3 DEF Moves
<1>3. FileOK(disk)'
  <2>1. CASE disk' = data' BY <1>2, <2>1 DEF FileOK
  <2>2. CASE disk' = disk BY <2>2 DEF IInv, FileOK, Moves, chats, In, Recorded
  <2> QED BY <1>1, <2>1, <2>2
<1>4. \A e \in Events : Onwards(Attends(disk, inbox, e), Attends(data', inbox, e))
  BY <1>2 DEF IInv, Ahead, Onwards
<1> QED BY <1>2, <1>3, <1>4

-----------------------------------------------------------------------------
(* The invariant *)

(* The lane starts empty. *)
LEMMA InvInit == Init => IInv
<1> SUFFICES ASSUME Init PROVE IInv OBVIOUS
<1>1. EmptyFile \in File BY DEF EmptyFile, File
<1>2. NoCall \in Call /\ NoCall.mode = "drain" BY DEF NoCall, Call, Modes
<1>3. {MaxEvents, MaxTombstones, MaxFaults} \subseteq Nat BY LaneAssumption
<1>4. TypeOK
  <2>1. pc \in [Passes -> Places] /\ call \in [Passes -> Call] BY <1>2 DEF Init, Places
  <2>2. disk \in File /\ data \in File BY <1>1 DEF Init
  <2>3. faults \in 0..MaxFaults /\ rung \in [Events -> 0..RingBound] BY <1>3 DEF Init, RingBound
  <2>4. /\ lock \in Passes \cup {NoPass, Stale} /\ pending \in BOOLEAN /\ attempted \in BOOLEAN
        /\ inbox \in [Events -> {"absent", "partial", "whole"}]
        /\ todo \subseteq Events /\ cur \in Events \cup {NoEvent} /\ config \in Generations
        /\ admitted \subseteq Events /\ turns \subseteq Generations \X Events
    BY DEF Init
  <2> QED BY <2>1, <2>2, <2>3, <2>4 DEF TypeOK
<1>5. Holding BY LaneAssumption DEF Init, Holding, Inside
<1>6. Calling /\ Standing BY <1>2 DEF Init, Calling, Standing, Stands
<1>7. FileOK(EmptyFile)
  <2>1. Recorded(EmptyFile) = {} /\ EmptyFile.tombstones = {} /\ In(EmptyFile, {"SUBMITTED"}) = {}
    BY DEF Recorded, In, EmptyFile, Statuses, Ready, Settled
  <2>2. Cardinality({}) = 0 BY FS_EmptySet
  <2>3. admitted = {} /\ \A e \in Events : rung[e] = 0 BY DEF Init
  <2> QED BY <1>3, <2>1, <2>2, <2>3 DEF FileOK
<1>8. Ahead BY DEF Init, Ahead, Onwards
<1>9. AtMostOneRing BY DEF Init, AtMostOneRing
<1>10. disk = EmptyFile /\ data = EmptyFile BY DEF Init
<1> QED BY <1>4, <1>5, <1>6, <1>7, <1>8, <1>9, <1>10 DEF IInv

(* What a step of each kind does to the files, to the attention and to the
   bells. *)
LEMMA KindKeeps ==
  ASSUME IInv, Sound', Kind
  PROVE  FileOK(disk)' /\ FileOK(data)' /\ Ahead' /\ AtMostOneRing'
<1>1. TypeOK /\ FileOK(disk) /\ FileOK(data) /\ Ahead /\ AtMostOneRing BY DEF IInv
<1>2. CASE Moves
  <2>1. /\ FileOK(disk)' /\ FileOK(data)'
        /\ \A e \in Events : Onwards(Attends(disk, inbox, e), Attends(data', inbox, e))
    BY <1>2, MovesOnwards
  <2>2. Ahead'
    <3>1. inbox' = inbox /\ disk' \in {disk, data'} BY <1>2 DEF Moves
    <3>2. CASE disk' = disk
      <4>1. \A e \in Events : Attends(disk', inbox', e) = Attends(disk, inbox, e) BY <3>1, <3>2
      <4>2. \A e \in Events : Attends(data', inbox', e) = Attends(data', inbox, e) BY <3>1
      <4> QED BY <2>1, <4>1, <4>2 DEF Ahead, Attends, In
    <3>3. CASE disk' = data' BY <3>3 DEF Ahead, Onwards, Attends
    <3> QED BY <3>1, <3>2, <3>3
  <2>3. AtMostOneRing' BY <1>1, <1>2 DEF Moves, AtMostOneRing, chats
  <2> QED BY <2>1, <2>2, <2>3
<1>3. CASE Rests
  <2>1. FileOK(disk)'
    BY <1>1, <1>3 DEF FileOK, Rests, chats, In, Recorded, SameInbox, TypeOK
  <2>2. FileOK(data)'
    <3>1. CASE data' = disk BY <2>1, <1>3, <3>1 DEF FileOK, Rests, In, Recorded
    <3>2. CASE data' = data
      BY <1>1, <1>3, <3>2 DEF FileOK, Rests, chats, In, Recorded, SameInbox, TypeOK
    <3> QED BY <1>3, <3>1, <3>2 DEF Rests
  <2>3. Ahead'
    <3>1. \A e \in Events : Attends(disk', inbox', e) = Attends(disk, inbox, e)
      BY <1>3 DEF Rests, SameInbox, Attends, In
    <3>2. \A e \in Events : Attends(data', inbox', e) = Attends(data', inbox, e)
      BY <1>3 DEF Rests, SameInbox, Attends, In
    <3>3. \A e \in Events : Onwards(Attends(disk, inbox, e), Attends(data', inbox, e))
      BY <1>1, <1>3 DEF Rests, Ahead, Onwards
    <3> QED BY <3>1, <3>2, <3>3 DEF Ahead, Attends, In
  <2>4. AtMostOneRing' BY <1>1, <1>3 DEF Rests, AtMostOneRing, chats
  <2> QED BY <2>1, <2>2, <2>3, <2>4
<1>4. ASSUME NEW e \in Events, Fills(e)
      PROVE  FileOK(disk)' /\ FileOK(data)' /\ Ahead' /\ AtMostOneRing'
  <2>1. /\ UNCHANGED <<disk, data, turns, rung>> /\ admitted' = admitted \cup {e}
        /\ inbox' = [inbox EXCEPT ![e] = "whole"]
        /\ inbox \in [Events -> {"absent", "partial", "whole"}] /\ admitted \subseteq Events
    BY <1>1, <1>4 DEF Fills, chats, TypeOK
  <2>2. \A x \in admitted' : inbox'[x] = "whole" \/ (x \in admitted /\ inbox'[x] = inbox[x]) BY <2>1
  <2>3. FileOK(disk)' BY <1>1, <2>1, <2>2 DEF FileOK, In, Recorded
  <2>4. FileOK(data)' BY <1>1, <2>1, <2>2 DEF FileOK, In, Recorded
  <2>5. Ahead'
    <3> SUFFICES ASSUME NEW x \in Events
                 PROVE  Onwards(Attends(disk, inbox', x), Attends(data, inbox', x))
      BY <2>1 DEF Ahead, Attends, In
    <3>1. Onwards(Attends(disk, inbox, x), Attends(data, inbox, x)) BY <1>1 DEF Ahead
    <3>2. inbox'[x] = inbox[x] \/ inbox'[x] = "whole" BY <2>1
    <3>3. CASE inbox'[x] = inbox[x] BY <3>1, <3>3 DEF Attends
    <3>4. CASE inbox'[x] = "whole" BY <3>1, <3>4 DEF Attends, Onwards
    <3> QED BY <3>2, <3>3, <3>4
  <2>6. AtMostOneRing' BY <1>1, <2>1 DEF AtMostOneRing
  <2> QED BY <2>3, <2>4, <2>5, <2>6
<1>5. ASSUME NEW e \in Events, Empties(e)
      PROVE  FileOK(disk)' /\ FileOK(data)' /\ Ahead' /\ AtMostOneRing'
  <2>1. /\ disk = data /\ UNCHANGED <<disk, data, turns, rung, admitted>>
        /\ inbox' = [inbox EXCEPT ![e] = "absent"]
        /\ e \in Recorded(data) \cup data.tombstones
        /\ inbox \in [Events -> {"absent", "partial", "whole"}] /\ admitted \subseteq Events
    BY <1>1, <1>5 DEF Empties, chats, TypeOK
  <2>2. \A x \in admitted : inbox'[x] = "whole" \/ x \in Recorded(data) \cup data.tombstones
    BY <1>1, <2>1 DEF FileOK
  <2>3. FileOK(data)' BY <1>1, <2>1, <2>2 DEF FileOK, In, Recorded
  <2>4. FileOK(disk)' BY <2>1, <2>3 DEF FileOK, In, Recorded
  <2>5. Ahead' BY <2>1 DEF Ahead, Onwards, Attends, In
  <2>6. AtMostOneRing' BY <1>1, <2>1 DEF AtMostOneRing
  <2> QED BY <2>3, <2>4, <2>5, <2>6
<1>6. ASSUME NEW e \in Events, Rings(e)
      PROVE  FileOK(disk)' /\ FileOK(data)' /\ Ahead' /\ AtMostOneRing'
  <2>1. /\ disk = data /\ UNCHANGED <<disk, data, inbox, admitted>>
        /\ data.status[e] = "AMBIGUOUS"
        /\ turns \subseteq turns' /\ rung[e] = 0 /\ rung' = [rung EXCEPT ![e] = 1]
        /\ rung \in [Events -> 0..RingBound]
    BY <1>1, <1>6 DEF Rings, TypeOK
  <2>2. e \in In(data, Settled \cup {"AMBIGUOUS"}) BY <2>1 DEF In
  <2>3. FileOK(data)' BY <1>1, <2>1, <2>2 DEF FileOK, In, Recorded
  <2>4. FileOK(disk)' BY <2>1, <2>3 DEF FileOK, In, Recorded
  <2>5. Ahead' BY <2>1 DEF Ahead, Onwards, Attends, In
  <2>6. AtMostOneRing' BY <1>1, <2>1 DEF AtMostOneRing, RingBound
  <2> QED BY <2>3, <2>4, <2>5, <2>6
<1> QED BY <1>2, <1>3, <1>4, <1>5, <1>6 DEF Kind

(* Every step keeps the invariant. *)
LEMMA InvNext == IInv /\ [Next]_vars => IInv'
<1> SUFFICES ASSUME IInv, [Next]_vars PROVE IInv' OBVIOUS
<1>1. Sound' /\ Kind BY StepKind
<1> QED BY <1>1, KindKeeps DEF IInv, Sound

(* The invariant holds always. *)
THEOREM Invariance == Spec => []IInv
BY InvInit, InvNext, PTL DEF Spec

(* Every variable keeps its type. *)
THEOREM TypeCorrect == Spec => []TypeOK
BY Invariance, PTL DEF IInv

(* No event's bell is rung twice. *)
THEOREM BellRingsOnce == Spec => []AtMostOneRing
BY Invariance, PTL DEF IInv

(* An intake that finished is never lost. *)
THEOREM AttentionIsKept == Spec => []NothingLost
<1>1. IInv => NothingLost BY DEF IInv, FileOK, NothingLost
<1> QED BY <1>1, Invariance, PTL

(* What is recorded as submitted stands in its chat. *)
THEOREM SubmittedStands == Spec => []SubmittedIsVisible
<1>1. IInv => SubmittedIsVisible BY DEF IInv, FileOK, SubmittedIsVisible
<1> QED BY <1>1, Invariance, PTL

(* An event that was rung is remembered. *)
THEOREM RungStaysKnown == Spec => []RungIsRemembered
<1>1. IInv => RungIsRemembered BY DEF IInv, FileOK, RungIsRemembered
<1> QED BY <1>1, Invariance, PTL

(* The tables stay within their capacity. *)
THEOREM CapacityHolds == Spec => []WithinCapacity
<1>1. IInv => WithinCapacity BY DEF IInv, FileOK, WithinCapacity
<1> QED BY <1>1, Invariance, PTL

-----------------------------------------------------------------------------
(* Steps *)

(* Only a ring changes the count of a bell. *)
LEMMA RungBy ==
  ASSUME IInv, [Next]_vars, NEW e \in Events, rung'[e] # rung[e]
  PROVE  Rings(e)
<1>1. Kind BY StepKind
<1>2. rung \in [Events -> 0..RingBound] BY DEF IInv, TypeOK
<1> QED BY <1>1, <1>2 DEF Kind, Moves, Rests, Fills, Empties, Rings, chats

(* A click happens under its record on disk, in the chat the record names. *)
THEOREM ClicksAreRecorded == Spec => RingsUnderItsRecord
<1>1. IInv /\ [Next]_vars =>
        [\A e \in Events : rung'[e] # rung[e] =>
            /\ disk.status[e] = "AMBIGUOUS"
            /\ turns' = turns \cup {<<disk.gen[e], e>>}]_vars
  BY RungBy DEF Rings
<1> QED BY <1>1, Invariance, PTL DEF Spec, RingsUnderItsRecord

(* The attention the promise speaks of. *)
attention == [e \in Events |-> Attends(disk, inbox, e)]

(* The empty lane has nobody's attention. *)
LEMMA BellInit == Init => Bell!Init
<1> SUFFICES ASSUME Init PROVE Bell!Init OBVIOUS
<1>1. \A e \in Events : Attends(disk, inbox, e) = "none"
  BY DEF Init, Attends, In, EmptyFile, Settled, Ready
<1>2. attention = [e \in Events |-> "none"] BY <1>1 DEF attention
<1>3. rung = [e \in Events |-> 0] BY DEF Init
<1> QED BY <1>2, <1>3 DEF Bell!Init, attention, Attends

(* A step of each kind advances the attention, or rings. *)
LEMMA KindRefines ==
  ASSUME IInv, Kind
  PROVE  Bell!Next \/ UNCHANGED <<attention, rung>>
<1>1. \A e \in Events : Attends(disk, inbox, e) \in {"none", "kept", "held", "settled"}
  BY DEF Attends
<1>2. ASSUME UNCHANGED rung,
             \A e \in Events : Bell!Forward(Attends(disk, inbox, e), Attends(disk', inbox', e))
      PROVE  Bell!Advance
  <2>1. attention' = [e \in Events |-> Attends(disk', inbox', e)] BY DEF attention, Attends, In
  <2>2. \A e \in Events : Attends(disk', inbox', e) \in {"none", "kept", "held", "settled"}
    BY DEF Attends
  <2>3. attention' \in [Events -> Bell!Attention] BY <2>1, <2>2 DEF Bell!Attention
  <2>4. \A e \in Events : Bell!Forward(attention[e], attention'[e])
    BY <1>2, <2>1 DEF attention
  <2> QED BY <1>2, <2>3, <2>4 DEF Bell!Advance, attention, Attends
<1>3. CASE Moves
  <2>1. \A e \in Events : Onwards(Attends(disk, inbox, e), Attends(data', inbox, e))
    BY <1>3, MovesOnwards
  <2>2. inbox' = inbox /\ disk' \in {disk, data'} /\ UNCHANGED rung BY <1>3 DEF Moves, chats
  <2>3. \A e \in Events : Bell!Forward(Attends(disk, inbox, e), Attends(disk', inbox', e))
    BY <2>1, <2>2 DEF Onwards, Bell!Forward
  <2> QED BY <1>2, <2>2, <2>3 DEF Bell!Next
<1>4. CASE Rests
  <2>1. \A e \in Events : Attends(disk', inbox', e) = Attends(disk, inbox, e)
    BY <1>4 DEF Rests, SameInbox, Attends, In
  <2>2. UNCHANGED rung BY <1>4 DEF Rests, chats
  <2> QED BY <1>2, <2>1, <2>2 DEF Bell!Next, Bell!Forward
<1>5. ASSUME NEW e \in Events, Fills(e) PROVE Bell!Next
  <2>1. /\ UNCHANGED <<disk, rung>> /\ inbox' = [inbox EXCEPT ![e] = "whole"]
        /\ inbox \in [Events -> {"absent", "partial", "whole"}]
    BY <1>5 DEF Fills, chats, IInv, TypeOK
  <2>2. \A x \in Events : inbox'[x] = inbox[x] \/ inbox'[x] = "whole" BY <2>1
  <2>3. \A x \in Events : Bell!Forward(Attends(disk, inbox, x), Attends(disk', inbox', x))
    BY <2>1, <2>2 DEF Attends, Bell!Forward
  <2> QED BY <1>2, <2>1, <2>3 DEF Bell!Next
<1>6. ASSUME NEW e \in Events, Empties(e) PROVE Bell!Next
  <2>1. /\ disk = data /\ UNCHANGED <<disk, rung>> /\ inbox' = [inbox EXCEPT ![e] = "absent"]
        /\ e \in Recorded(disk) \cup disk.tombstones
        /\ inbox \in [Events -> {"absent", "partial", "whole"}]
    BY <1>6 DEF Empties, chats, IInv, TypeOK
  <2>2. Attends(disk, inbox', e) = Attends(disk, inbox, e)
    BY <2>1 DEF Attends, Recorded, In, Statuses, Ready, Settled
  <2>3. \A x \in Events : x # e => Attends(disk, inbox', x) = Attends(disk, inbox, x)
    BY <2>1 DEF Attends
  <2>4. \A x \in Events : Bell!Forward(Attends(disk, inbox, x), Attends(disk', inbox', x))
    BY <2>1, <2>2, <2>3 DEF Bell!Forward
  <2> QED BY <1>2, <2>1, <2>4 DEF Bell!Next
<1>7. ASSUME NEW e \in Events, Rings(e) PROVE Bell!Ring(e)
  <2>1. /\ disk = data /\ data.status[e] = "AMBIGUOUS" /\ UNCHANGED <<disk, inbox>>
        /\ rung[e] = 0 /\ rung' = [rung EXCEPT ![e] = 1]
    BY <1>7 DEF Rings
  <2>2. e \notin disk.tombstones
    <3>1. e \in Recorded(disk) BY <2>1 DEF Recorded, In, Statuses
    <3> QED BY <3>1 DEF IInv, FileOK
  <2>3. Attends(disk, inbox, e) = "held" BY <2>1, <2>2 DEF Attends, In, Settled
  <2>4. attention[e] = "held" /\ UNCHANGED attention BY <2>1, <2>3 DEF attention
  <2> QED BY <2>1, <2>4 DEF Bell!Ring, attention, Attends
<1> QED BY <1>3, <1>4, <1>5, <1>6, <1>7 DEF Kind, Bell!Next

(* The lane, with its locks, files, faults and races, keeps the promise made
   of each event. *)
THEOREM LaneIsDoorbell == Spec => ImplementsDoorbell
<1>1. IInv /\ [Next]_vars => [Bell!Next]_(<<attention, rung>>) BY StepKind, KindRefines
<1>2. IInv /\ [Next]_vars => [Bell!Next]_(Bell!bells)
  <2>1. <<attention, rung>> = Bell!bells BY DEF attention, Attends, Bell!bells
  <2>2. (<<attention, rung>>)' = (Bell!bells)' BY DEF attention, Attends, Bell!bells
  <2> QED BY <1>1, <2>1, <2>2
<1> QED BY <1>2, BellInit, Invariance, PTL DEF Spec, ImplementsDoorbell, Bell!Spec

=============================================================================
