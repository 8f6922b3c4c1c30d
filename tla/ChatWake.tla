------------------------------ MODULE ChatWake ------------------------------
(***************************************************************************)
(* One conversation lane of the local chat wake (local_chat_wake.py): the   *)
(* passes that deliver, recover or drain its doorbells, each a process of   *)
(* its own, over one lock file, one state file, one inbox directory and the *)
(* browser page of the bound chat.  Every process may die at every step and *)
(* every write of the state file may fail in each way it can.               *)
(***************************************************************************)
EXTENDS Naturals, FiniteSets

CONSTANTS Passes,         \* slots for processes that run a pass
          Events,         \* the event identities that are delivered
          Generations,    \* binding generations; each names a chat
          MaxEvents,      \* MAX_EVENTS
          MaxTombstones,  \* MAX_TOMBSTONES
          MaxFaults,      \* bound on deaths and failed writes
          NoPass, Stale, NoEvent

ASSUME LaneAssumption == /\ Generations \subseteq Nat \ {0}
                         /\ IsFiniteSet(Events)
                         /\ {MaxEvents, MaxTombstones, MaxFaults} \subseteq Nat
                         /\ {NoPass, Stale} \cap Passes = {} /\ NoPass # Stale
                         /\ NoEvent \notin Events

VARIABLES lock,       \* the .lock file: who created it; Stale when its creator died
          pending,    \* a .pending file was left by a write that failed
          disk,       \* the state file
          inbox,      \* the inbox files
          data,       \* the state as the holder of the lock has it in memory
          todo,       \* events the holder's current loop has still to visit
          cur,        \* the event of the holder's current step
          attempted,  \* the holder crossed its possible click
          pc, call,   \* of each pass: its place, and what it was called for
          config,     \* the generation the registry file names now
          turns,      \* chat, event: the user turns of the chats
          rung,       \* how often each event was clicked
          admitted,   \* events whose intake finished
          faults

lane == <<lock, pending, disk, inbox, data, todo, cur, attempted>>
passes == <<pc, call>>
chats == <<turns, rung>>
vars == <<lane, passes, config, chats, admitted, faults>>

Ready == {"PENDING", "DEFERRED"}
Settled == {"SUBMITTED", "RESOLVED_NOOP"}
Open == Ready \cup {"AMBIGUOUS"}
Statuses == Ready \cup Settled \cup {"AMBIGUOUS"}

(* The state file: the status and generation of each recorded event, the
   digests of compacted ones and the generations this lane was bound to. *)
File == [status : [Events -> Statuses \cup {"absent"}],
         gen : [Events -> Generations \cup {0}],
         tombstones : SUBSET Events,
         bindings : SUBSET Generations]

EmptyFile == [status |-> [e \in Events |-> "absent"], gen |-> [e \in Events |-> 0],
              tombstones |-> {}, bindings |-> {}]

In(file, S) == {e \in Events : file.status[e] \in S}
Recorded(file) == In(file, Statuses)

Modes == {"deliver", "recover", "drain"}

(* What a process was called for: the event, if it is about one, and the
   generation the registry named when it was called. *)
Call == [mode : Modes, event : Events \cup {NoEvent}, bound : Generations \cup {0}]
NoCall == [mode |-> "drain", event |-> NoEvent, bound |-> 0]

record(file, e, s, g) == [file EXCEPT !.status[e] = s, !.gen[e] = g]

Init == /\ lock = NoPass /\ pending = FALSE
        /\ disk = EmptyFile /\ data = EmptyFile
        /\ inbox = [e \in Events |-> "absent"]
        /\ todo = {} /\ cur = NoEvent /\ attempted = FALSE
        /\ pc = [p \in Passes |-> "idle"] /\ call = [p \in Passes |-> NoCall]
        /\ config \in Generations
        /\ turns = {} /\ rung = [e \in Events |-> 0]
        /\ admitted = {} /\ faults = 0

-----------------------------------------------------------------------------
(* Writing the state file. *)

Goto(p, place) == /\ pc' = [pc EXCEPT ![p] = place]
                  /\ call' = IF place = "idle" THEN [call EXCEPT ![p] = NoCall] ELSE call

(* The whole file is written beside the old one, synced and put in its place. *)
Stored(file) == /\ ~pending
                /\ disk' = file /\ data' = file
                /\ UNCHANGED <<pending, faults>>

(* The write raises: a .pending file was in the way, or is left behind, or
   nothing was created, or the replacement happened and its sync failed. *)
Unsure(file) == /\ data' = file
                /\ \/ pending /\ UNCHANGED <<disk, pending, faults>>
                   \/ /\ ~pending /\ faults < MaxFaults
                      /\ faults' = faults + 1
                      /\ \/ pending' = TRUE /\ UNCHANGED disk
                         \/ disk' \in {disk, file} /\ UNCHANGED pending

(* A write after which the pass continues at place, or raises to its end. *)
Write(p, file, place) == \/ Stored(file) /\ Goto(p, place)
                         \/ Unsure(file) /\ Goto(p, "leave")

NoWrite == UNCHANGED <<pending, disk, data, faults>>

-----------------------------------------------------------------------------
(* Entering a pass: the lock and the intake. *)

(* A process is called for one event or for all; it reads the binding first. *)
Start(p, m, e) ==
  /\ pc[p] = "idle"
  /\ m = "drain" <=> e = NoEvent
  /\ call' = [call EXCEPT ![p] = [mode |-> m, event |-> e, bound |-> config]]
  /\ pc' = [pc EXCEPT ![p] = "enter"]
  /\ UNCHANGED <<lane, config, chats, admitted, faults>>

(* Slip: a lane that is locked is waited for. *)
MutLocked(p) == FALSE

(* The lock file exists: a new event is still offered to the inbox. *)
Locked(p) ==
  /\ pc[p] = "enter" /\ lock # NoPass
  /\ Goto(p, IF call[p].mode = "deliver" THEN "offer" ELSE "idle")
  /\ UNCHANGED <<lane, config, chats, admitted, faults>>

(* The lock file is created and the state is read; a left-over .pending
   file, or an affinity that is not proven, ends the pass. *)
Enter(p) ==
  /\ pc[p] = "enter" /\ lock = NoPass
  /\ lock' = p
  /\ data' = disk
  /\ \/ Goto(p, "leave")
     \/ ~pending /\ Goto(p, IF call[p].mode = "deliver" THEN "offer"
                            ELSE IF call[p].mode = "recover" THEN "recover" ELSE "bind")
  /\ UNCHANGED <<pending, disk, inbox, todo, cur, attempted, config, chats, admitted, faults>>

(* Where an intake leads: on into the pass, or out of a lane that is busy. *)
Onward(p) == IF lock = p THEN "bind" ELSE "idle"
Refused(p) == IF lock = p THEN "leave" ELSE "idle"

(* The event's file is created exclusively; one that is whole already will
   do, a partial one raises. *)
Offer(p) ==
  /\ pc[p] = "offer"
  /\ \/ /\ inbox[call[p].event] = "absent"
        /\ inbox' = [inbox EXCEPT ![call[p].event] = "partial"]
        /\ Goto(p, "fill")
        /\ UNCHANGED admitted
     \/ /\ inbox[call[p].event] = "whole"
        /\ admitted' = admitted \cup {call[p].event}
        /\ Goto(p, Onward(p))
        /\ UNCHANGED inbox
     \/ /\ Goto(p, Refused(p))   \* a partial file, no file, or an affinity unproven
        /\ UNCHANGED <<inbox, admitted>>
  /\ UNCHANGED <<lock, pending, disk, data, todo, cur, attempted, config, chats, faults>>

(* The file is written and synced: the intake is durable. *)
Fill(p) ==
  /\ pc[p] = "fill"
  /\ inbox' = [inbox EXCEPT ![call[p].event] = "whole"]
  /\ admitted' = admitted \cup {call[p].event}
  /\ Goto(p, Onward(p))
  /\ UNCHANGED <<lock, pending, disk, data, todo, cur, attempted, config, chats, faults>>

(* An observation of the canonical refs may find the event resolved at any
   time; it may also find nothing out, whatever they hold. *)
RecordResolved(file, e) == record(file, e, "RESOLVED_NOOP", 0)

(* Recovery of one event: it must still be open.  A successor that is seen
   settles it; an observation that says nothing stops it if it is held. *)
Recover(p) ==
  /\ pc[p] = "recover"
  /\ LET e == call[p].event IN
       \/ e \notin In(data, Ready) /\ Goto(p, "leave") /\ NoWrite
       \/ e \in In(data, Open) /\ Write(p, RecordResolved(data, e), "leave")
       \/ e \in In(data, Open) /\ Goto(p, "bind") /\ NoWrite
  /\ UNCHANGED <<lock, inbox, todo, cur, attempted, config, chats, admitted>>

(* The generation must not be older than one this lane was bound to. *)
RememberBinding(p) ==
  /\ pc[p] = "bind"
  /\ \/ /\ \A g \in data.bindings : g <= call[p].bound
        /\ data' = [data EXCEPT !.bindings = @ \cup {call[p].bound}]
        /\ todo' = {e \in Events : inbox[e] # "absent"}
        /\ Goto(p, "consume")
     \/ /\ \E g \in data.bindings : g > call[p].bound
        /\ Goto(p, "leave")
        /\ UNCHANGED <<data, todo>>
  /\ UNCHANGED <<lock, pending, disk, inbox, cur, attempted, config, chats, admitted, faults>>

New(e) == e \notin Recorded(data) \cup data.tombstones

Full == Cardinality(Recorded(data)) >= MaxEvents

(* Slip: the file of an event there is no room for goes as well. *)
MutConsumeInbox(p) ==
  /\ pc[p] = "consume"
  /\ \E e \in todo :
       /\ todo' = todo \ {e}
       /\ \/ inbox[e] # "whole" /\ Goto(p, "leave") /\ NoWrite /\ UNCHANGED cur
          \/ /\ inbox[e] = "whole"
             /\ cur' = e
             /\ Write(p, IF New(e) /\ ~Full THEN record(data, e, "PENDING", 0) ELSE data, "unlink")
  /\ UNCHANGED <<lock, inbox, attempted, config, chats, admitted>>

(* One file of the inbox: a new event is recorded if there is room, the
   state is written, and only then may the file go. *)
ConsumeInbox(p) ==
  /\ pc[p] = "consume"
  /\ \E e \in todo :
       /\ todo' = todo \ {e}
       /\ \/ inbox[e] # "whole" /\ Goto(p, "leave") /\ NoWrite /\ UNCHANGED cur
          \/ inbox[e] = "whole" /\ New(e) /\ Full /\ NoWrite /\ UNCHANGED <<passes, cur>>
          \/ /\ inbox[e] = "whole" /\ ~(New(e) /\ Full)
             /\ cur' = e
             /\ Write(p, IF New(e) THEN record(data, e, "PENDING", 0) ELSE data, "unlink")
  /\ UNCHANGED <<lock, inbox, attempted, config, chats, admitted>>

Unlink(p) ==
  /\ pc[p] = "unlink"
  /\ inbox' = [inbox EXCEPT ![cur] = "absent"]
  /\ cur' = NoEvent
  /\ Goto(p, "consume")
  /\ UNCHANGED <<lock, pending, disk, data, todo, attempted, config, chats, admitted, faults>>

(* The inbox is consumed.  A compacted duplicate, and an event there was no
   room for, end the pass; so does a settled one, after a write.  Otherwise
   the state is written and the drain begins. *)
Queued(p) ==
  /\ pc[p] = "consume" /\ todo = {}
  /\ LET e == call[p].event IN
       \/ /\ e \in data.tombstones \/ (e # NoEvent /\ e \notin Recorded(data))
          /\ Goto(p, "leave") /\ NoWrite
       \/ /\ e \in In(data, Settled) \ data.tombstones
          /\ Write(p, data, "leave")
       \/ /\ e = NoEvent \/ e \in In(data, Open) \ data.tombstones
          /\ Write(p, data, "resolve")
  /\ UNCHANGED <<lock, inbox, todo, cur, attempted, config, chats, admitted>>

-----------------------------------------------------------------------------
(* Draining: first the attempts that are held, without any new submission. *)

(* Held attempts whose successor is observed are settled, each with a write
   of its own (what a death between two of them leaves is what fewer of them
   leave); a write that fails here is passed over. *)
ResolveHeld(p) ==
  /\ pc[p] = "resolve"
  /\ \E S \in SUBSET In(data, {"AMBIGUOUS"}) :
       LET file == [data EXCEPT !.status = [e \in Events |-> IF e \in S THEN "RESOLVED_NOOP" ELSE @[e]],
                                !.gen = [e \in Events |-> IF e \in S THEN 0 ELSE @[e]]]
       IN IF S = {} THEN NoWrite ELSE Stored(file) \/ Unsure(file)
  /\ Goto(p, "prove")
  /\ todo' = In(data', {"AMBIGUOUS"})
  /\ UNCHANGED <<lock, inbox, cur, attempted, config, chats, admitted>>

(* The chat of the generation the event was attempted under shows its turn. *)
Proven(e) == <<data.gen[e], e>> \in turns

Submitted(file, e) == [file EXCEPT !.status[e] = "SUBMITTED"]

(* A held attempt is looked for in the chat it was made in.  When the proof,
   or the write of it, fails the handler writes once more. *)
ProveHeld(p) ==
  /\ pc[p] = "prove"
  /\ \/ \E e \in todo :
          /\ todo' = todo \ {e}
          /\ \/ Write(p, data, "prove")
             \/ /\ Proven(e)
                /\ \/ Stored(Submitted(data, e)) /\ Goto(p, "prove")
                   \/ Unsure(Submitted(data, e)) /\ Goto(p, "reprove")
     \/ todo = {} /\ todo' = In(data, Ready) /\ Goto(p, "pick") /\ NoWrite
  /\ UNCHANGED <<lock, inbox, cur, attempted, config, chats, admitted>>

(* The handler's own write of what is in memory. *)
Rewrite(p) ==
  /\ \/ pc[p] = "reprove" /\ Write(p, data, "prove")
     \/ pc[p] = "repick" /\ Write(p, data, "pick")
  /\ UNCHANGED <<lock, inbox, todo, cur, attempted, config, chats, admitted>>

-----------------------------------------------------------------------------
(* Draining: then the events that are ready, one possible click in all. *)

(* The next event that is ready.  After a possible click the others are only
   settled or put off. *)
Pick(p) ==
  /\ pc[p] = "pick"
  /\ \/ \E e \in todo :
          /\ todo' = todo \ {e}
          /\ \/ ~attempted /\ cur' = e /\ Goto(p, "attach") /\ NoWrite
             \/ /\ attempted /\ UNCHANGED cur
                /\ \E s \in {"RESOLVED_NOOP", "DEFERRED"} : Write(p, record(data, e, s, 0), "pick")
  /\ UNCHANGED <<lock, inbox, attempted, config, chats, admitted>>

(* The drain is over: every event was visited, or its time is up.  A pass for
   the whole lane may then compact it. *)
Finish(p) ==
  /\ pc[p] \in {"resolve", "prove", "pick"}
  /\ \/ Goto(p, "leave")
     \/ call[p].mode = "drain" /\ Goto(p, "compact")
  /\ NoWrite
  /\ UNCHANGED <<lock, inbox, todo, cur, attempted, config, chats, admitted>>

(* An attempt that did not reach its click leaves the event for a later pass. *)
Defer(p) == Write(p, record(data, cur, "DEFERRED", 0), "pick")

(* barrier(): the registry still names the binding the pass was given. *)
Barrier(p) == config = call[p].bound

(* The barrier finds a canonical successor: the event is settled; when that
   write fails the handler writes again. *)
Resolve(p) == /\ Barrier(p)
              /\ \/ Stored(RecordResolved(data, cur)) /\ Goto(p, "pick")
                 \/ Unsure(RecordResolved(data, cur)) /\ Goto(p, "repick")

(* The page is attached and shows no turn of the event; between two barriers
   the text is put into its composer.  Anything else on the page (a draft, a
   generation, a login, another page) puts the event off. *)
Stage(p) ==
  /\ pc[p] = "attach"
  /\ \/ Resolve(p)
     \/ Defer(p)
     \/ Barrier(p) /\ <<call[p].bound, cur>> \notin turns /\ Goto(p, "commit") /\ NoWrite
  /\ UNCHANGED <<lock, inbox, todo, cur, attempted, config, chats, admitted>>

(* Slip: the click goes ahead although the write of its record failed. *)
MutBeforeClick(p) ==
  /\ pc[p] = "commit"
  /\ \/ (Resolve(p) \/ Defer(p)) /\ UNCHANGED attempted
     \/ /\ Barrier(p)
        /\ LET file == record(data, cur, "AMBIGUOUS", call[p].bound)
           IN Stored(file) \/ Unsure(file)
        /\ Goto(p, "click") /\ attempted' = TRUE
  /\ UNCHANGED <<lock, inbox, todo, cur, config, chats, admitted>>

(* before_click(): the event is recorded as held, with the generation of its
   chat, before the click that may follow; an uncertain write ends the pass. *)
BeforeClick(p) ==
  /\ pc[p] = "commit"
  /\ \/ (Resolve(p) \/ Defer(p)) /\ UNCHANGED attempted
     \/ /\ Barrier(p)
        /\ LET file == record(data, cur, "AMBIGUOUS", call[p].bound)
           IN \/ Stored(file) /\ Goto(p, "click") /\ attempted' = TRUE
              \/ Unsure(file) /\ Goto(p, "leave") /\ UNCHANGED attempted
  /\ UNCHANGED <<lock, inbox, todo, cur, config, chats, admitted>>

(* A bound on the history of clicks, above what may ever happen. *)
RingBound == 2

(* The click, if the page is still ready for it; the pass may not learn what
   came of it. *)
Click(p) ==
  /\ pc[p] = "click"
  /\ \/ /\ rung[cur] < RingBound
        /\ turns' = turns \cup {<<call[p].bound, cur>>}
        /\ rung' = [rung EXCEPT ![cur] = @ + 1]
        /\ \E place \in {"settle", "pick"} : Goto(p, place)
     \/ Goto(p, "pick") /\ UNCHANGED chats
  /\ UNCHANGED <<lane, config, admitted, faults>>

(* Slip: an attempt that is not proven is put off like one that was not made. *)
MutSettle(p) ==
  /\ pc[p] = "settle"
  /\ \/ Proven(cur) /\ (Stored(Submitted(data, cur)) \/ Unsure(Submitted(data, cur)))
     \/ LET file == record(data, cur, "DEFERRED", 0) IN Stored(file) \/ Unsure(file)
  /\ Goto(p, "pick")
  /\ UNCHANGED <<lock, inbox, todo, cur, attempted, config, chats, admitted>>

(* The turn is proven and recorded, or the event stays held. *)
Settle(p) ==
  /\ pc[p] = "settle"
  /\ \/ Proven(cur) /\ (Stored(Submitted(data, cur)) \/ Unsure(Submitted(data, cur)))
     \/ NoWrite
  /\ Goto(p, "pick")
  /\ UNCHANGED <<lock, inbox, todo, cur, attempted, config, chats, admitted>>

(* Settled events whose successor is observed shrink to a tombstone, while
   there is room for it. *)
Compact(p) ==
  /\ pc[p] = "compact"
  /\ \E S \in SUBSET In(data, Settled) :
       LET file == [data EXCEPT !.status = [e \in Events |-> IF e \in S THEN "absent" ELSE @[e]],
                                !.gen = [e \in Events |-> IF e \in S THEN 0 ELSE @[e]],
                                !.tombstones = @ \cup S]
       IN /\ S # {} => Cardinality(file.tombstones) <= MaxTombstones
          /\ Write(p, file, "leave")
  /\ UNCHANGED <<lock, inbox, todo, cur, attempted, config, chats, admitted>>

Released == data' = disk /\ todo' = {} /\ cur' = NoEvent /\ attempted' = FALSE

(* The lock file is removed, however the pass ended. *)
Leave(p) ==
  /\ pc[p] = "leave"
  /\ lock' = NoPass /\ Released
  /\ Goto(p, "idle")
  /\ UNCHANGED <<pending, disk, inbox, config, chats, admitted, faults>>

-----------------------------------------------------------------------------
(* What happens around the passes. *)

(* The places whose step writes the state file. *)
Writing == {"recover", "consume", "resolve", "prove", "reprove", "repick", "pick",
            "attach", "commit", "settle", "compact"}

(* A process dies; if it held the lock the file stays behind, and so does the
   .pending file of a write it was in. *)
Die(p) ==
  /\ pc[p] # "idle" /\ faults < MaxFaults
  /\ faults' = faults + 1
  /\ Goto(p, "idle")
  /\ \/ /\ lock = p
        /\ lock' = Stale /\ Released
        /\ pending' \in {pending, pending \/ pc[p] \in Writing}
     \/ lock # p /\ UNCHANGED <<lock, pending, data, todo, cur, attempted>>
  /\ UNCHANGED <<disk, inbox, config, chats, admitted>>

(* The Human takes away what a dead process left: the lock, a .pending file,
   a partial inbox file. *)
Reconcile ==
  /\ \/ lock = Stale /\ lock' = NoPass /\ UNCHANGED <<pending, inbox>>
     \/ lock = NoPass /\ pending /\ pending' = FALSE /\ UNCHANGED <<lock, inbox>>
     \/ /\ \E e \in Events :
             /\ inbox[e] = "partial"
             /\ \A p \in Passes : ~(pc[p] = "fill" /\ call[p].event = e)
             /\ inbox' = [inbox EXCEPT ![e] = "absent"]
        /\ UNCHANGED <<lock, pending>>
  /\ UNCHANGED <<disk, data, todo, cur, attempted, passes, config, chats, admitted, faults>>

(* The Human binds the lane to the chat of another generation. *)
Rebind ==
  /\ config' \in Generations \ {config}
  /\ UNCHANGED <<lane, passes, chats, admitted, faults>>

Work(p) == \/ Locked(p) \/ Enter(p) \/ Offer(p) \/ Fill(p) \/ Recover(p)
           \/ RememberBinding(p) \/ ConsumeInbox(p) \/ Unlink(p) \/ Queued(p)
           \/ ResolveHeld(p) \/ ProveHeld(p) \/ Rewrite(p) \/ Pick(p) \/ Finish(p)
           \/ Stage(p) \/ BeforeClick(p) \/ Click(p) \/ Settle(p) \/ Compact(p) \/ Leave(p)

Called(p) == \E m \in Modes, e \in Events \cup {NoEvent} : Start(p, m, e)

Next == \/ \E p \in Passes : Called(p) \/ Work(p) \/ Die(p)
        \/ Reconcile \/ Rebind

Spec == Init /\ [][Next]_vars

(* A pass that was started goes on until it ends or dies. *)
FairSpec == Spec /\ \A p \in Passes : WF_vars(Work(p))

-----------------------------------------------------------------------------
Places == {"idle", "enter", "offer", "fill", "bind", "unlink", "click", "leave"} \cup Writing

(* The type invariant of the lane. *)
TypeOK == /\ lock \in Passes \cup {NoPass, Stale}
          /\ pending \in BOOLEAN /\ attempted \in BOOLEAN
          /\ disk \in File /\ data \in File
          /\ inbox \in [Events -> {"absent", "partial", "whole"}]
          /\ todo \subseteq Events /\ cur \in Events \cup {NoEvent}
          /\ pc \in [Passes -> Places] /\ call \in [Passes -> Call]
          /\ config \in Generations
          /\ admitted \subseteq Events
          /\ turns \subseteq Generations \X Events
          /\ rung \in [Events -> 0..RingBound]
          /\ faults \in 0..MaxFaults

(* No event is clicked twice, whatever dies, fails, is put off, recovered,
   compacted, bound anew or reconciled: "AMBIGUOUS" is written before the
   click and is never made ready again. *)
AtMostOneRing == \A e \in Events : rung[e] <= 1

(* Attention whose intake finished is never lost: it is in the inbox, in the
   state file or among the tombstones, although the inbox is emptied while
   other processes fill it and any of them may die. *)
NothingLost ==
  \A e \in admitted : inbox[e] = "whole" \/ e \in Recorded(disk) \cup disk.tombstones

(* What the state file calls submitted stands in the chat of the generation
   it was attempted under, also after the lane was bound to another chat. *)
SubmittedIsVisible ==
  \A e \in In(disk, {"SUBMITTED"}) : <<disk.gen[e], e>> \in turns

(* An event is not both summarised and recorded, and compaction does not take
   an event that was clicked out of both. *)
RungIsRemembered ==
  /\ \A e \in Events : rung[e] > 0 =>
       e \in In(disk, Settled \cup {"AMBIGUOUS"}) \cup disk.tombstones
  /\ disk.tombstones \cap Recorded(disk) = {}

(* The tables stay within their capacity. *)
WithinCapacity == /\ Cardinality(Recorded(disk)) <= MaxEvents
                  /\ Cardinality(disk.tombstones) <= MaxTombstones

(* A click happens under a record of it on disk: the event is held, and the
   generation recorded names the chat the message goes to. *)
RingsUnderItsRecord ==
  [][\A e \in Events : rung'[e] # rung[e] =>
        /\ disk.status[e] = "AMBIGUOUS"
        /\ turns' = turns \cup {<<disk.gen[e], e>>}]_vars

(* Every pass ends (or dies) and frees its lane. *)
PassesEnd == \A p \in Passes : pc[p] # "idle" ~> pc[p] = "idle"

(* What the lane promises of each event. *)
Bell == INSTANCE Doorbell WITH
  attention <- [e \in Events |->
     IF e \in In(disk, Settled) \cup disk.tombstones THEN "settled"
     ELSE IF e \in In(disk, {"AMBIGUOUS"}) THEN "held"
     ELSE IF e \in In(disk, Ready) \/ inbox[e] = "whole" THEN "kept" ELSE "none"]

(* The lane implements the promise. *)
ImplementsDoorbell == Bell!Spec

=============================================================================
