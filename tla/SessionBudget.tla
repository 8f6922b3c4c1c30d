---------------------------- MODULE SessionBudget ----------------------------
(***************************************************************************)
(* The interactive execution of one admitted RUN under its budget           *)
(* (ka01_admission.py with the interactive half of runtime.py): one native  *)
(* session whose candidates are proven, refuted with factual feedback and   *)
(* corrected, every step of it reserved, charged and settled by one owner,  *)
(* until the RUN is terminal or the owner stops for good.                   *)
(***************************************************************************)
EXTENDS Integers, Sequences

CONSTANTS MaxCheckpoints, MaxCorrections, \* limits of the admission
          Wall, Verify,                   \* minutes of the RUN, and of proofs
          Tip,                            \* bound on the line of commits
          NoCand

ASSUME LimitAssumption ==
  /\ MaxCheckpoints \in Nat \ {0} /\ MaxCorrections \in Nat
  /\ Wall \in Nat /\ Verify \in Nat \ {0} /\ Verify <= Wall
  /\ Tip \in Nat /\ NoCand \notin 0 .. Tip

Commits == 0 .. Tip      \* 0 is the base of the RUN

VARIABLES at, op,        \* place of the owner, and the operation it is in
          clock,         \* minutes since the admission
          head,          \* HEAD of the workspace
          got, echo,     \* the last turn's candidate; does it carry the receipt
          session,       \* the native session
          stopped,       \* the STOP latch
          pending,       \* the operation with an unresolved reservation
          mem, book,     \* counts reserved and spent: in memory, in the records
          interval,      \* minutes reserved and not settled
          spent, mark,   \* minutes charged, and up to where work is charged
          worked,        \* minutes of guarded work (history)
          terminal,      \* the owner knows the RESULT it wrote
          sealed,        \* checkpoints with their feedback and receipts
          intent, result, failure, fence, note,  \* the files of the RUN
          sent           \* the RESULT was transported

place == <<at, op>>
world == <<clock, head>>
turn == <<got, echo>>
account == <<pending, mem, book, interval, spent, mark>>
proof == <<sealed, intent, result>>
outcome == <<failure, note, sent>>
vars == <<at, op, clock, head, got, echo, session, stopped, pending, mem, book, interval, spent,
          mark, worked, terminal, sealed, intent, result, failure, fence, note, sent>>

Brackets == {"native", "process", "return"}
Effects == {"accept", "seal", "feedback", "terminal"}
Ops == Brackets \cup Effects \cup {"turn", "transport"}
Guarded == {"entered", "inside", "worked", "settled"}
Places == Guarded \cup {"ready", "reserved", "raised", "closing", "over", "dead"}

Counts == [kr : Nat, ks : Nat, cr : Nat, cs : Nat]
NoCounts == [kr |-> 0, ks |-> 0, cr |-> 0, cs |-> 0]
Checkpoint == [cand : Commits, ok : BOOLEAN, asked : BOOLEAN, answer : Commits \cup {NoCand}]

Init == /\ at = "ready" /\ op = "native"
        /\ clock = 0 /\ head = 0
        /\ got = NoCand /\ echo = FALSE
        /\ session = "none" /\ stopped = FALSE
        /\ pending = "none" /\ mem = NoCounts /\ book = NoCounts
        /\ interval = 0 /\ spent = 0 /\ mark = 0 /\ worked = 0
        /\ terminal = FALSE /\ sealed = <<>> /\ intent = FALSE /\ result = NoCand
        /\ failure = FALSE /\ fence = FALSE /\ note = "none" /\ sent = FALSE

-----------------------------------------------------------------------------
(* What the owner asks before it goes on. *)

Least(a, b) == IF a < b THEN a ELSE b
CapCheckpoints == Least(MaxCheckpoints, MaxCorrections + 1)
CapCorrections == Least(MaxCorrections, MaxCheckpoints - 1)

InTime == clock < Wall
Guard == ~stopped /\ InTime /\ spent < Verify
Elapsed == clock - mark
TimeLeft == InTime /\ spent + Elapsed < Verify

(* Room for one more effect of this kind. *)
MutCapacity(o) == /\ o = "seal" => mem.kr < CapCheckpoints /\ (mem.kr = 0 \/ mem.cs = mem.kr)
                  /\ o = "accept" => mem.cr < CapCorrections
Capacity(o) ==
  /\ o = "feedback" => mem.cr < CapCorrections
  /\ o = "seal" => mem.kr < CapCheckpoints /\ (mem.kr = 0 \/ mem.cs = mem.kr)
  /\ o = "accept" => mem.cr < CapCorrections

Last == sealed[Len(sealed)]

(* A clean committed candidate that goes on from the last one. *)
Candidate == /\ head = got /\ got # 0
             /\ \A k \in DOMAIN sealed : sealed[k].cand # got
             /\ sealed # <<>> => Last.cand < got

Fits(o) ==
  /\ o = "accept" => Candidate /\ Last.asked /\ Last.answer = NoCand /\ echo
  /\ o = "seal" => Candidate /\ \A k \in DOMAIN sealed : sealed[k].answer # NoCand
  /\ o = "feedback" => ~Last.ok /\ ~Last.asked /\ head = Last.cand
  /\ o = "terminal" => sealed # <<>> /\ Last.ok /\ Last.cand = got /\ head = got

(* What the owner does next. *)
Following(o) == IF o = "seal" THEN IF Last.ok THEN "return" ELSE "feedback"
                ELSE IF o = "native" THEN "process"
                ELSE IF o \in {"process", "feedback"} THEN "turn"
                ELSE IF o = "accept" THEN "seal"
                ELSE IF o = "return" THEN "terminal" ELSE "transport"

Plus(o, kind) == IF o = kind THEN 1 ELSE 0
MutReserved(o) == [mem EXCEPT !.cr = @ + Plus(o, "accept")]
Reserved(o) == [kr |-> mem.kr + Plus(o, "seal"), ks |-> mem.ks,
                cr |-> mem.cr + Plus(o, "accept"), cs |-> mem.cs]
Spent(o) == [kr |-> mem.kr, ks |-> mem.ks + Plus(o, "seal"),
             cr |-> mem.cr, cs |-> mem.cs + Plus(o, "accept")]

Closed == IF session = "live" THEN "closed" ELSE session
Stop == stopped' = TRUE /\ session' = Closed

-----------------------------------------------------------------------------
(* The native call: its reservation, its process, its return.  These share
   the fence of the RUN and no budget interval. *)

Reserve ==
  /\ at = "ready" /\ op \in Brackets /\ Guard /\ ~fence
  /\ fence' = TRUE /\ at' = "reserved"
  /\ UNCHANGED <<op, world, turn, session, stopped, account, worked, terminal, proof, outcome>>

Bind ==
  /\ at = "reserved" /\ op # "process" /\ Guard
  /\ fence' = FALSE /\ at' = "ready" /\ op' = Following(op)
  /\ UNCHANGED <<world, turn, session, stopped, account, worked, terminal, proof, outcome>>

(* The Executor's process comes up (external). *)
Spawn ==
  /\ at = "reserved" /\ op = "process" /\ Guard
  /\ session' = "live" /\ fence' = FALSE
  /\ at' = "ready" /\ op' = Following(op)
  /\ UNCHANGED <<world, turn, stopped, account, worked, terminal, proof, outcome>>

(* A turn completes with a candidate (external). *)
Turn ==
  /\ at = "ready" /\ op = "turn" /\ Guard /\ session = "live"
  /\ \E h \in Commits, e \in BOOLEAN :
       /\ e => sealed # <<>>
       /\ head' = h /\ got' = h /\ echo' = e
  /\ op' = IF sealed = <<>> THEN "seal" ELSE "accept"
  /\ UNCHANGED <<at, clock, session, stopped, account, worked, terminal, proof, fence, outcome>>

-----------------------------------------------------------------------------
(* One guarded operation: entered, reserved, done, settled, released. *)

Enter ==
  /\ at = "ready" /\ op \in Effects /\ Guard /\ pending = "none"
  /\ mark' = clock /\ at' = "entered"
  /\ UNCHANGED <<op, world, turn, session, stopped, pending, mem, book, interval, spent, worked,
                 terminal, proof, fence, outcome>>

MutOpen ==
  /\ at = "entered" /\ Guard /\ Capacity(op) /\ Fits(op) /\ ~fence /\ TimeLeft
  /\ fence' = TRUE /\ at' = "inside"
  /\ spent' = spent + Elapsed /\ UNCHANGED mark
  /\ mem' = Reserved(op) /\ book' = mem' /\ pending' = op
  /\ interval' = interval + Least(Wall - clock, Verify - spent')
  /\ UNCHANGED <<op, world, turn, session, stopped, worked, terminal, proof, outcome>>

Open ==
  /\ at = "entered" /\ Guard /\ Capacity(op) /\ Fits(op) /\ ~fence /\ TimeLeft
  /\ fence' = TRUE /\ at' = "inside"
  /\ spent' = spent + Elapsed /\ mark' = clock
  /\ mem' = Reserved(op) /\ book' = mem' /\ pending' = op
  /\ interval' = interval + Least(Wall - clock, Verify - spent')
  /\ UNCHANGED <<op, world, turn, session, stopped, worked, terminal, proof, outcome>>

Inside(o) == at = "inside" /\ op = o /\ Guard /\ TimeLeft

Accept ==
  /\ Inside("accept") /\ Fits(op)
  /\ sealed' = [sealed EXCEPT ![Len(sealed)] = [Last EXCEPT !.answer = got]]
  /\ at' = "worked"
  /\ UNCHANGED <<op, world, turn, session, stopped, account, worked, terminal, intent, result,
                 fence, outcome>>

(* The proof of the candidate ends (external), and its checkpoint is written. *)
Prove ==
  /\ Inside("seal") /\ Fits(op)
  /\ \E ok \in BOOLEAN :
       sealed' = Append(sealed, [cand |-> got, ok |-> ok, asked |-> FALSE, answer |-> NoCand])
  /\ at' = "worked"
  /\ UNCHANGED <<op, world, turn, session, stopped, account, worked, terminal, intent, result,
                 fence, outcome>>

Ask ==
  /\ Inside("feedback") /\ Fits(op)
  /\ sealed' = [sealed EXCEPT ![Len(sealed)] = [Last EXCEPT !.asked = TRUE]]
  /\ at' = "worked"
  /\ UNCHANGED <<op, world, turn, session, stopped, account, worked, terminal, intent, result,
                 fence, outcome>>

(* The terminal intent, the RESULT, and the owner's knowledge of it. *)
Promise ==
  /\ Inside("terminal") /\ Fits(op) /\ ~intent
  /\ intent' = TRUE
  /\ UNCHANGED <<place, world, turn, session, stopped, account, worked, terminal, sealed, result,
                 fence, outcome>>

Publish ==
  /\ at = "inside" /\ op = "terminal" /\ intent /\ result = NoCand
  /\ result' = got
  /\ UNCHANGED <<place, world, turn, session, stopped, account, worked, terminal, sealed, intent,
                 fence, outcome>>

Know ==
  /\ at = "inside" /\ op = "terminal" /\ result # NoCand
  /\ terminal' = TRUE /\ at' = "worked"
  /\ UNCHANGED <<op, world, turn, session, stopped, account, worked, proof, fence, outcome>>

Settle ==
  /\ at = "worked" /\ (op # "terminal" => Guard) /\ TimeLeft
  /\ spent' = spent + Elapsed /\ mark' = clock
  /\ mem' = Spent(op) /\ book' = mem' /\ interval' = 0 /\ pending' = "none"
  /\ IF terminal THEN Stop ELSE UNCHANGED <<stopped, session>>
  /\ at' = "settled"
  /\ UNCHANGED <<op, world, turn, worked, terminal, proof, fence, outcome>>

(* The fence is removed, and what that took is charged as well. *)
Release ==
  /\ at = "settled" /\ InTime
  /\ fence' = FALSE
  /\ spent' = spent + Elapsed /\ mark' = clock
  /\ IF spent' < Verify
     THEN /\ at' = "ready" /\ op' = Following(op)
          /\ UNCHANGED <<stopped, session>>
     ELSE /\ at' = "raised" /\ Stop
          /\ UNCHANGED op
  /\ UNCHANGED <<world, turn, pending, mem, book, interval, worked, terminal, proof, outcome>>

-----------------------------------------------------------------------------
(* An exception: a refused guard, a failed write, a lost session, a Human's
   interrupt.  It may come anywhere. *)

RaiseReady ==
  /\ at = "ready" /\ at' = "raised"
  /\ \/ Stop /\ UNCHANGED fence
     \/ op \in Brackets /\ Stop /\ fence' = TRUE
     \/ op \in {"native", "terminal", "transport"} /\ UNCHANGED <<stopped, session, fence>>
  /\ UNCHANGED <<op, world, turn, account, worked, terminal, proof, outcome>>

RaiseReserved ==
  /\ at = "reserved" /\ at' = "raised" /\ Stop
  /\ \/ UNCHANGED fence
     \/ op # "process" /\ fence' = FALSE
  /\ UNCHANGED <<op, world, turn, account, worked, terminal, proof, outcome>>

(* Before the reservation, behind the fence, in the record of it. *)
RaiseEntered ==
  /\ at = "entered" /\ at' = "raised" /\ Stop
  /\ \/ UNCHANGED <<fence, account>>
     \/ fence' = TRUE /\ UNCHANGED account
     \/ /\ TimeLeft /\ Capacity(op) /\ ~fence
        /\ fence' = TRUE /\ spent' = spent + Elapsed /\ mark' = clock
        /\ \/ UNCHANGED <<pending, mem, book, interval>>
           \/ /\ mem' = Reserved(op) /\ book' \in {book, mem'} /\ pending' = op
              /\ interval' = interval + Least(Wall - clock, Verify - spent')
  /\ UNCHANGED <<op, world, turn, worked, terminal, proof, outcome>>

MutRaiseInside ==
  /\ at \in {"inside", "worked"} /\ at' = "raised" /\ Stop
  /\ fence' = FALSE
  /\ UNCHANGED <<op, world, turn, account, worked, terminal, proof, outcome>>

(* What is known to be spent is charged, the reservation stays. *)
RaiseInside ==
  /\ at \in {"inside", "worked"} /\ at' = "raised" /\ Stop
  /\ \/ UNCHANGED account
     \/ /\ spent' = spent + Elapsed /\ mark' = clock
        /\ \/ UNCHANGED <<pending, mem, book, interval>>
           \/ /\ at = "worked" /\ TimeLeft
              /\ mem' = Spent(op) /\ book' \in {book, mem'} /\ interval' = 0
              /\ UNCHANGED pending
  /\ UNCHANGED <<op, world, turn, worked, terminal, proof, fence, outcome>>

RaiseSettled ==
  /\ at = "settled" /\ at' = "raised" /\ Stop
  /\ \/ UNCHANGED <<fence, account>>
     \/ /\ fence' = FALSE /\ spent' \in {spent, spent + Elapsed} /\ mark' = clock
        /\ UNCHANGED <<pending, mem, book, interval>>
  /\ UNCHANGED <<op, world, turn, worked, terminal, proof, outcome>>

Raise == RaiseReady \/ RaiseReserved \/ RaiseEntered \/ RaiseInside \/ RaiseSettled

MutDenied ==
  \/ at = "ready" /\ op \notin {"turn", "transport"} /\ ~Guard
  \/ at = "reserved" /\ ~Guard
  \/ at = "entered" /\ ~(Guard /\ Capacity(op) /\ Fits(op) /\ ~fence /\ TimeLeft)
  \/ at = "inside" /\ ~intent /\ ~(Guard /\ TimeLeft /\ Fits(op))
  \/ at = "worked" /\ ~(TimeLeft /\ (op # "terminal" => Guard))
  \/ at = "settled" /\ ~InTime

(* Here the owner cannot go on and raises of itself. *)
Denied ==
  \/ at \in {"ready", "reserved"} /\ op # "transport" /\ ~Guard
  \/ at = "entered" /\ ~(Guard /\ Capacity(op) /\ Fits(op) /\ ~fence /\ TimeLeft)
  \/ at = "inside" /\ ~intent /\ ~(Guard /\ TimeLeft /\ Fits(op))
  \/ at = "worked" /\ ~(TimeLeft /\ (op # "terminal" => Guard))
  \/ at = "settled" /\ ~InTime

Refuse == Denied /\ Raise

-----------------------------------------------------------------------------
(* How the RUN is left. *)

Judged == result # NoCand \/ failure \/ intent

(* A FAILURE is recorded for a RUN without an outcome, if the fence is free. *)
Judge ==
  /\ at = "raised" /\ at' = "closing"
  /\ \/ (Judged \/ fence) /\ UNCHANGED <<failure, fence>>
     \/ /\ ~Judged /\ ~fence
        /\ \/ failure' = TRUE /\ UNCHANGED fence
           \/ failure' \in BOOLEAN /\ fence' = TRUE
  /\ UNCHANGED <<op, world, turn, session, stopped, account, worked, terminal, proof, note, sent>>

Send ==
  /\ at = "ready" /\ op = "transport"
  /\ pending = "none" /\ stopped /\ terminal
  /\ sent' = TRUE /\ at' = "closing"
  /\ UNCHANGED <<op, world, turn, session, stopped, account, worked, terminal, proof, failure,
                 fence, note>>

(* The observation that is left of the budget. *)
Close ==
  /\ at = "closing" /\ at' = "over"
  /\ stopped' = (stopped \/ ~terminal) /\ session' = Closed
  /\ note' \in {"none", IF terminal /\ pending = "none" THEN "COMPLETED" ELSE "STOPPED"}
  /\ UNCHANGED <<op, world, turn, account, worked, terminal, proof, failure, fence, sent>>

(* The owner dies; a fence it was about to take may be left. *)
Die ==
  /\ at \notin {"over", "dead"} /\ at' = "dead"
  /\ \/ UNCHANGED <<fence, failure>>
     \/ /\ at = "entered" \/ (at = "ready" /\ op \in Brackets)
        /\ fence' = TRUE /\ UNCHANGED failure
     \/ /\ at = "raised" /\ ~Judged /\ ~fence
        /\ fence' = TRUE /\ failure' \in BOOLEAN
  /\ UNCHANGED <<op, world, turn, session, stopped, account, worked, terminal, proof, note, sent>>

-----------------------------------------------------------------------------
(* The world: time passes, and the session may commit when it should not. *)

Tick ==
  /\ at \notin {"over", "dead"} /\ InTime
  /\ clock' = clock + 1
  /\ worked' = worked + IF at \in Guarded THEN 1 ELSE 0
  /\ UNCHANGED <<place, head, turn, session, stopped, account, terminal, proof, fence, outcome>>

Drift ==
  /\ at # "dead" /\ session = "live"
  /\ head' \in Commits \ {head}
  /\ UNCHANGED <<place, clock, turn, session, stopped, account, worked, terminal, proof, fence,
                 outcome>>

Own == \/ Reserve \/ Bind \/ Enter \/ Open \/ Accept \/ Ask \/ Promise \/ Publish \/ Know
       \/ Settle \/ Release \/ Refuse \/ Judge \/ Close
External == Spawn \/ Turn \/ Prove \/ Send \/ Raise \/ Die \/ Drift

Next == Own \/ External \/ Tick

Spec == Init /\ [][Next]_vars
FairSpec == Spec /\ WF_vars(Own) /\ WF_vars(Tick)

-----------------------------------------------------------------------------
(* Every variable keeps its type. *)
TypeOK ==
  /\ at \in Places /\ op \in Ops
  /\ clock \in 0 .. Wall /\ head \in Commits
  /\ got \in Commits \cup {NoCand} /\ echo \in BOOLEAN
  /\ session \in {"none", "live", "closed"} /\ stopped \in BOOLEAN
  /\ pending \in Effects \cup {"none"} /\ mem \in Counts /\ book \in Counts
  /\ interval \in Nat /\ spent \in Nat /\ mark \in 0 .. clock /\ worked \in Nat
  /\ terminal \in BOOLEAN /\ sealed \in Seq(Checkpoint)
  /\ intent \in BOOLEAN /\ result \in Commits \cup {NoCand}
  /\ failure \in BOOLEAN /\ fence \in BOOLEAN
  /\ note \in {"none", "COMPLETED", "STOPPED"} /\ sent \in BOOLEAN

(* Guarded work, its preparation and its cleanup included, is charged once
   and never twice, whatever interrupts it, and no limit is overdrawn; what
   has no pending operation has no open reservation. *)
AccountsBalance ==
  /\ spent <= worked
  /\ ~stopped /\ at # "dead" => worked = spent + IF at \in Guarded THEN Elapsed ELSE 0
  /\ mem.kr <= CapCheckpoints /\ mem.cr <= CapCorrections
  /\ pending = "none" => interval = 0 /\ mem.ks = mem.kr /\ mem.cs = mem.cr

(* What the records on disk say is reserved covers every checkpoint and
   receipt that exists, what they say is spent does exist: whoever finds a
   dead RUN can tell. *)
RecordsCoverEffects ==
  /\ book.ks <= Len(sealed) /\ Len(sealed) <= book.kr
  /\ \A k \in DOMAIN sealed : k <= book.cs => sealed[k].answer # NoCand
  /\ \A k \in DOMAIN sealed : sealed[k].answer # NoCand => k <= book.cr

(* The Executor is never asked for a correction that could not be accepted
   and proven any more. *)
AnswersHaveRoom ==
  at = "ready" /\ op = "turn" /\ ~stopped /\ sealed # <<>> =>
    /\ Last.asked /\ Last.answer = NoCand
    /\ Capacity("accept") /\ mem.kr < CapCheckpoints

(* Each proof but the first is of the answer to the refutation before it, a
   later commit; a RESULT is the last candidate, and that one is proven. *)
ResultIsEarned ==
  /\ \A k \in DOMAIN sealed : k > 1 =>
       /\ ~sealed[k-1].ok /\ sealed[k-1].asked
       /\ sealed[k-1].answer = sealed[k].cand /\ sealed[k-1].cand < sealed[k].cand
  /\ result # NoCand => sealed # <<>> /\ Last.ok /\ Last.cand = result

(* A FAILURE is recorded only where nothing is unknown: no open reservation,
   no promised or written RESULT. *)
UnknownIsUnjudged ==
  failure => pending = "none" /\ interval = 0 /\ ~intent /\ result = NoCand

(* What is transported or observed as COMPLETED has its RESULT, its records
   closed and its session ended. *)
CompletedIsSettled ==
  note = "COMPLETED" \/ sent =>
    /\ result # NoCand /\ pending = "none" /\ session # "live"
    /\ book = mem /\ book.ks = book.kr /\ book.kr = Len(sealed) /\ book.cs = Len(sealed) - 1

(* Within its minutes the RUN is over, dead or waits for its transport, and
   its session is closed. *)
RunEnds == <>(at = "dead" \/ (session # "live" /\ (at = "over" \/ op = "transport")))

-----------------------------------------------------------------------------
(* The abstract promise *)

Dialogue == INSTANCE CorrectionDialogue
              WITH Rounds <- CapCheckpoints, Candidates <- Commits,
                   said <- sealed,
                   outcome <- IF failure THEN [kind |-> "failed"]
                              ELSE IF result # NoCand THEN [kind |-> "done", cand |-> result]
                              ELSE [kind |-> "open"]

(* The owner, its faults and its budget conduct the dialogue that
   CorrectionDialogue describes. *)
ImplementsDialogue == Dialogue!Spec

=============================================================================
