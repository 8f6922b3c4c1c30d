--------------------------- MODULE SessionProofs ---------------------------
(***************************************************************************)
(* Proofs about SessionBudget, for every admission's limits and every       *)
(* number of commits.                                                       *)
(***************************************************************************)
EXTENDS SessionBudget, TLAPS

Live == Guarded \cup {"ready", "reserved"}

(* Where the owner is, what it holds there, and whether it stopped. *)
Placed ==
  /\ at \in Guarded => op \in Effects
  /\ at = "reserved" => op \in Brackets
  /\ at \in {"reserved", "inside", "worked", "settled"} => fence
  /\ at \in {"ready", "entered"} => ~fence
  /\ at \in {"reserved", "entered", "inside", "worked"} => ~stopped
  /\ at = "settled" => (stopped <=> op = "terminal")
  /\ at = "ready" => (stopped <=> op = "transport")
  /\ stopped \/ at = "over" => session # "live"

(* Receipts there are, and what an operation in progress adds. *)
Answered == IF sealed # <<>> /\ Last.answer = NoCand THEN Len(sealed) - 1 ELSE Len(sealed)
Due(o) == IF at = "inside" THEN Plus(op, o) ELSE 0

(* The counts agree with the checkpoints and receipts; where they do not, an
   operation is pending and the fence is there. *)
Counted ==
  /\ at \in {"inside", "worked"} =>
       /\ pending = op /\ book = mem
       /\ mem.kr = mem.ks + Plus(op, "seal") /\ mem.cr = mem.cs + Plus(op, "accept")
       /\ mem.kr = Len(sealed) + Due("seal") /\ mem.cr = Answered + Due("accept")
  /\ at \in {"ready", "reserved", "entered", "settled"} => pending = "none"
  /\ pending # "none" => fence
  /\ pending = "none" =>
       /\ interval = 0 /\ book = mem /\ mem.ks = mem.kr /\ mem.cs = mem.cr
       /\ mem.kr = Len(sealed) /\ mem.cr = Answered
  /\ mem.kr <= CapCheckpoints /\ mem.cr <= CapCorrections
  /\ book.ks <= Len(sealed) /\ Len(sealed) <= book.kr
  /\ book.cs <= Answered /\ Answered <= book.cr

(* The dialogue so far. *)
Chained ==
  /\ \A k \in DOMAIN sealed : k > 1 =>
       sealed[k-1].answer = sealed[k].cand /\ sealed[k-1].cand < sealed[k].cand
  /\ \A k \in DOMAIN sealed : k < Len(sealed) => sealed[k].answer # NoCand
  /\ \A k \in DOMAIN sealed :
       /\ sealed[k].answer # NoCand => sealed[k].asked
       /\ sealed[k].asked => ~sealed[k].ok

(* What the operation the owner is in has before it and leaves behind. *)
Fresh == sealed # <<>> /\ Last.cand = got /\ ~Last.asked /\ Last.answer = NoCand
Asked == sealed # <<>> /\ Last.asked /\ Last.answer = NoCand /\ Len(sealed) < CapCheckpoints
Replied == sealed = <<>> \/ (Last.answer = got /\ Last.cand < got)

Conducted ==
  at \in Live =>
    /\ op \in {"native", "process"} => sealed = <<>>
    /\ op = "turn" => sealed = <<>> \/ Asked
    /\ op = "accept" => IF at \in {"worked", "settled"} THEN sealed # <<>> /\ Replied ELSE Asked
    /\ op = "seal" => IF at \in {"worked", "settled"} THEN Fresh ELSE Replied
    /\ op = "feedback" => IF at \in {"worked", "settled"} THEN Asked
                          ELSE /\ Fresh /\ ~Last.ok
                               /\ at = "inside" => Len(sealed) < CapCheckpoints
    /\ op \in {"return", "terminal", "transport"} => Fresh /\ Last.ok
    /\ op \in {"accept", "seal"} => got \in Commits

(* The RESULT and what precedes it. *)
Promised ==
  /\ intent => op \in {"terminal", "transport"} /\ Fresh /\ Last.ok
  /\ result # NoCand => intent /\ result = got
  /\ terminal => result # NoCand
  /\ op = "terminal" /\ at \in {"ready", "entered"} => ~intent
  /\ op = "terminal" /\ at \in {"worked", "settled"} => terminal
  /\ op = "transport" /\ at = "ready" => terminal

(* How a RUN is left. *)
Left ==
  /\ failure => /\ at \in {"closing", "over", "dead"}
                /\ ~intent /\ pending = "none"
  /\ note # "none" => at = "over"
  /\ note = "COMPLETED" => terminal /\ pending = "none"
  /\ sent => terminal /\ pending = "none" /\ stopped

(* Guarded work is charged up to the mark. *)
Charged ==
  /\ spent <= worked
  /\ at \in Guarded => worked = spent + Elapsed
  /\ at \in {"ready", "reserved"} => worked = spent
  /\ at \in {"raised", "closing", "over"} /\ ~stopped => worked = spent

IInv == TypeOK /\ Placed /\ Counted /\ Chained /\ Conducted /\ Promised /\ Left /\ Charged

-----------------------------------------------------------------------------
(* Steps *)

(* Every step is one of these; a refusal is an exception. *)
LEMMA Cases ==
  ASSUME [Next]_vars
  PROVE  \/ Reserve \/ Bind \/ Spawn \/ Turn \/ Enter \/ Open \/ Accept \/ Prove \/ Ask
         \/ Promise \/ Publish \/ Know \/ Settle \/ Release
         \/ RaiseReady \/ RaiseReserved \/ RaiseEntered \/ RaiseInside \/ RaiseSettled
         \/ Judge \/ Send \/ Close \/ Die \/ Tick \/ Drift \/ UNCHANGED vars
BY DEF Next, Own, External, Refuse, Raise

(* The two caps differ by the first checkpoint, which answers nothing. *)
LEMMA Caps ==
  /\ CapCheckpoints \in Nat \ {0} /\ CapCorrections \in Nat
  /\ CapCorrections = CapCheckpoints - 1
BY LimitAssumption DEF CapCheckpoints, CapCorrections, Least

(* The mark is not ahead of the clock. *)
LEMMA Clocks ==
  ASSUME TypeOK
  PROVE  clock \in Nat /\ mark \in Nat /\ clock <= Wall /\ Elapsed \in Nat
BY LimitAssumption DEF TypeOK, Elapsed

(* The last checkpoint is one. *)
LEMMA LastFacts ==
  ASSUME TypeOK, sealed # <<>>
  PROVE  /\ Len(sealed) \in Nat \ {0} /\ Len(sealed) \in DOMAIN sealed
         /\ Last \in Checkpoint
BY DEF TypeOK, Last

(* Place, fence, latch and session stay consistent. *)
LEMMA PlacedStep ==
  ASSUME IInv, [Next]_vars
  PROVE  Placed'
<1>1. CASE Reserve BY <1>1 DEF Reserve, world, turn, account, proof, outcome, IInv, Placed,
     TypeOK, Guarded, Effects, Brackets, Ops, Guard
<1>2. CASE Bind BY <1>2 DEF Bind, Following, world, turn, account, proof, outcome, IInv,
     Placed, TypeOK, Guarded, Effects, Brackets, Ops, Guard
<1>3. CASE Spawn BY <1>3 DEF Spawn, Following, world, turn, account, proof, outcome, IInv,
     Placed, TypeOK, Guarded, Effects, Brackets, Ops, Guard
<1>4. CASE Turn BY <1>4 DEF Turn, turn, account, proof, outcome, IInv, Placed, TypeOK, Guarded,
     Effects, Brackets, Ops, Guard
<1>5. CASE Enter BY <1>5 DEF Enter, world, turn, proof, outcome, IInv, Placed, TypeOK, Guarded,
     Effects, Brackets, Ops, Guard
<1>6. CASE Open BY <1>6 DEF Open, world, turn, proof, outcome, IInv, Placed, TypeOK, Guarded,
     Effects, Brackets, Ops, Guard
<1>7. CASE Accept BY <1>7 DEF Accept, Inside, world, turn, account, outcome, IInv, Placed,
     TypeOK, Guarded, Effects, Brackets, Ops, Guard
<1>8. CASE Prove BY <1>8 DEF Prove, Inside, world, turn, account, outcome, IInv, Placed,
     TypeOK, Guarded, Effects, Brackets, Ops, Guard
<1>9. CASE Ask BY <1>9 DEF Ask, Inside, world, turn, account, outcome, IInv, Placed, TypeOK,
     Guarded, Effects, Brackets, Ops, Guard
<1>10. CASE Promise BY <1>10 DEF Promise, Inside, place, world, turn, account, outcome, IInv,
     Placed, TypeOK, Guarded, Effects, Brackets, Ops, Guard
<1>11. CASE Publish BY <1>11 DEF Publish, place, world, turn, account, outcome, IInv, Placed,
     TypeOK, Guarded, Effects, Brackets, Ops, Guard
<1>12. CASE Know BY <1>12 DEF Know, world, turn, account, proof, outcome, IInv, Placed, TypeOK,
     Guarded, Effects, Brackets, Ops, Guard
<1>13. CASE Settle BY <1>13 DEF Settle, Stop, Closed, world, turn, proof, outcome, IInv,
     Placed, Promised, TypeOK, Guarded, Effects, Brackets, Ops, Guard
<1>14. CASE Release BY <1>14 DEF Release, Stop, Closed, Following, world, turn, proof, outcome,
     IInv, Placed, TypeOK, Guarded, Effects, Brackets, Ops, Guard
<1>15. CASE RaiseReady BY <1>15 DEF RaiseReady, Stop, Closed, world, turn, account, proof,
     outcome, IInv, Placed, TypeOK, Guarded, Effects, Brackets, Ops, Guard
<1>16. CASE RaiseReserved BY <1>16 DEF RaiseReserved, Stop, Closed, world, turn, account,
     proof, outcome, IInv, Placed, TypeOK, Guarded, Effects, Brackets, Ops, Guard
<1>17. CASE RaiseEntered BY <1>17 DEF RaiseEntered, Stop, Closed, world, turn, account, proof,
     outcome, IInv, Placed, TypeOK, Guarded, Effects, Brackets, Ops, Guard
<1>18. CASE RaiseInside BY <1>18 DEF RaiseInside, Stop, Closed, world, turn, account, proof,
     outcome, IInv, Placed, TypeOK, Guarded, Effects, Brackets, Ops, Guard
<1>19. CASE RaiseSettled BY <1>19 DEF RaiseSettled, Stop, Closed, world, turn, account, proof,
     outcome, IInv, Placed, TypeOK, Guarded, Effects, Brackets, Ops, Guard
<1>20. CASE Judge BY <1>20 DEF Judge, world, turn, account, proof, IInv, Placed, TypeOK,
     Guarded, Effects, Brackets, Ops, Guard
<1>21. CASE Send BY <1>21 DEF Send, world, turn, account, proof, IInv, Placed, TypeOK, Guarded,
     Effects, Brackets, Ops, Guard
<1>22. CASE Close BY <1>22 DEF Close, Closed, world, turn, account, proof, IInv, Placed,
     TypeOK, Guarded, Effects, Brackets, Ops, Guard
<1>23. CASE Die BY <1>23 DEF Die, world, turn, account, proof, IInv, Placed, TypeOK, Guarded,
     Effects, Brackets, Ops, Guard
<1>24. CASE Tick BY <1>24 DEF Tick, place, turn, account, proof, outcome, IInv, Placed, TypeOK,
     Guarded, Effects, Brackets, Ops, Guard
<1>25. CASE Drift BY <1>25 DEF Drift, place, turn, account, proof, outcome, IInv, Placed,
     TypeOK, Guarded, Effects, Brackets, Ops, Guard
<1>26. CASE UNCHANGED vars BY <1>26 DEF vars, IInv, Placed, TypeOK, Guarded, Effects, Brackets,
     Ops, Guard
<1> QED BY Cases, <1>1, <1>2, <1>3, <1>4, <1>5, <1>6, <1>7, <1>8, <1>9, <1>10, <1>11, <1>12,
     <1>13, <1>14, <1>15, <1>16, <1>17, <1>18, <1>19, <1>20, <1>21, <1>22, <1>23, <1>24, <1>25,
     <1>26

(* Work is charged once. *)
LEMMA ChargedStep ==
  ASSUME IInv, [Next]_vars
  PROVE  Charged'
<1>1. CASE Reserve BY <1>1 DEF Reserve, world, turn, account, proof, outcome, IInv, Placed,
     Charged, TypeOK, Guarded, Effects, Brackets, Elapsed, TimeLeft, InTime
<1>2. CASE Bind BY <1>2 DEF Bind, Following, world, turn, account, proof, outcome, IInv,
     Placed, Charged, TypeOK, Guarded, Effects, Brackets, Elapsed, TimeLeft, InTime
<1>3. CASE Spawn BY <1>3 DEF Spawn, Following, world, turn, account, proof, outcome, IInv,
     Placed, Charged, TypeOK, Guarded, Effects, Brackets, Elapsed, TimeLeft, InTime
<1>4. CASE Turn BY <1>4 DEF Turn, turn, account, proof, outcome, IInv, Placed, Charged, TypeOK,
     Guarded, Effects, Brackets, Elapsed, TimeLeft, InTime
<1>5. CASE Enter BY <1>5 DEF Enter, world, turn, proof, outcome, IInv, Placed, Charged, TypeOK,
     Guarded, Effects, Brackets, Elapsed, TimeLeft, InTime
<1>6. CASE Open BY <1>6 DEF Open, world, turn, proof, outcome, IInv, Placed, Charged, TypeOK,
     Guarded, Effects, Brackets, Elapsed, TimeLeft, InTime
<1>7. CASE Accept BY <1>7 DEF Accept, Inside, world, turn, account, outcome, IInv, Placed,
     Charged, TypeOK, Guarded, Effects, Brackets, Elapsed, TimeLeft, InTime
<1>8. CASE Prove BY <1>8 DEF Prove, Inside, world, turn, account, outcome, IInv, Placed,
     Charged, TypeOK, Guarded, Effects, Brackets, Elapsed, TimeLeft, InTime
<1>9. CASE Ask BY <1>9 DEF Ask, Inside, world, turn, account, outcome, IInv, Placed, Charged,
     TypeOK, Guarded, Effects, Brackets, Elapsed, TimeLeft, InTime
<1>10. CASE Promise BY <1>10 DEF Promise, Inside, place, world, turn, account, outcome, IInv,
     Placed, Charged, TypeOK, Guarded, Effects, Brackets, Elapsed, TimeLeft, InTime
<1>11. CASE Publish BY <1>11 DEF Publish, place, world, turn, account, outcome, IInv, Placed,
     Charged, TypeOK, Guarded, Effects, Brackets, Elapsed, TimeLeft, InTime
<1>12. CASE Know BY <1>12 DEF Know, world, turn, account, proof, outcome, IInv, Placed,
     Charged, TypeOK, Guarded, Effects, Brackets, Elapsed, TimeLeft, InTime
<1>13. CASE Settle BY <1>13 DEF Settle, Stop, Closed, world, turn, proof, outcome, IInv,
     Placed, Charged, TypeOK, Guarded, Effects, Brackets, Elapsed, TimeLeft, InTime
<1>14. CASE Release BY <1>14 DEF Release, Stop, Closed, Following, world, turn, proof, outcome,
     IInv, Placed, Charged, TypeOK, Guarded, Effects, Brackets, Elapsed, TimeLeft, InTime
<1>15. CASE RaiseReady BY <1>15 DEF RaiseReady, Stop, Closed, world, turn, account, proof,
     outcome, IInv, Placed, Charged, TypeOK, Guarded, Effects, Brackets, Elapsed, TimeLeft,
     InTime
<1>16. CASE RaiseReserved BY <1>16 DEF RaiseReserved, Stop, Closed, world, turn, account,
     proof, outcome, IInv, Placed, Charged, TypeOK, Guarded, Effects, Brackets, Elapsed,
     TimeLeft, InTime
<1>17. CASE RaiseEntered BY <1>17 DEF RaiseEntered, Stop, Closed, world, turn, account, proof,
     outcome, IInv, Placed, Charged, TypeOK, Guarded, Effects, Brackets, Elapsed, TimeLeft,
     InTime
<1>18. CASE RaiseInside BY <1>18 DEF RaiseInside, Stop, Closed, world, turn, account, proof,
     outcome, IInv, Placed, Charged, TypeOK, Guarded, Effects, Brackets, Elapsed, TimeLeft,
     InTime
<1>19. CASE RaiseSettled
  <2>1. at' = "raised" /\ stopped' /\ spent' \in {spent, spent + Elapsed} /\ worked' = worked
    BY <1>19 DEF RaiseSettled, Stop, account
  <2>2. worked = spent + Elapsed /\ Elapsed \in Nat /\ spent \in Nat
    BY <1>19, Clocks DEF RaiseSettled, IInv, Charged, Guarded, TypeOK
  <2>3. spent' <= worked' BY <2>1, <2>2
  <2> QED BY <2>1, <2>3 DEF Charged, Guarded
<1>20. CASE Judge BY <1>20 DEF Judge, world, turn, account, proof, IInv, Placed, Charged,
     TypeOK, Guarded, Effects, Brackets, Elapsed, TimeLeft, InTime
<1>21. CASE Send BY <1>21 DEF Send, world, turn, account, proof, IInv, Placed, Charged, TypeOK,
     Guarded, Effects, Brackets, Elapsed, TimeLeft, InTime
<1>22. CASE Close BY <1>22 DEF Close, Closed, world, turn, account, proof, IInv, Placed,
     Charged, TypeOK, Guarded, Effects, Brackets, Elapsed, TimeLeft, InTime
<1>23. CASE Die BY <1>23 DEF Die, world, turn, account, proof, IInv, Placed, Charged, TypeOK,
     Guarded, Effects, Brackets, Elapsed, TimeLeft, InTime
<1>24. CASE Tick BY <1>24 DEF Tick, place, turn, account, proof, outcome, IInv, Placed,
     Charged, TypeOK, Guarded, Effects, Brackets, Elapsed, TimeLeft, InTime
<1>25. CASE Drift BY <1>25 DEF Drift, place, turn, account, proof, outcome, IInv, Placed,
     Charged, TypeOK, Guarded, Effects, Brackets, Elapsed, TimeLeft, InTime
<1>26. CASE UNCHANGED vars BY <1>26 DEF vars, IInv, Placed, Charged, TypeOK, Guarded, Effects,
     Brackets, Elapsed, TimeLeft, InTime
<1> QED BY Cases, <1>1, <1>2, <1>3, <1>4, <1>5, <1>6, <1>7, <1>8, <1>9, <1>10, <1>11, <1>12,
     <1>13, <1>14, <1>15, <1>16, <1>17, <1>18, <1>19, <1>20, <1>21, <1>22, <1>23, <1>24, <1>25,
     <1>26

-----------------------------------------------------------------------------
(* The checkpoints *)

(* A new value for the last checkpoint leaves the others. *)
LEMMA Rewritten ==
  ASSUME TypeOK, sealed # <<>>, NEW r \in Checkpoint,
         sealed' = [sealed EXCEPT ![Len(sealed)] = r]
  PROVE  /\ sealed' \in Seq(Checkpoint) /\ Len(sealed') = Len(sealed) /\ sealed' # <<>>
         /\ Last' = r /\ DOMAIN sealed' = 1 .. Len(sealed)
         /\ \A k \in 1 .. Len(sealed) : k < Len(sealed) => sealed'[k] = sealed[k]
         /\ sealed'[Len(sealed)] = r
<1>1. sealed \in Seq(Checkpoint) /\ Len(sealed) \in Nat \ {0} BY LastFacts DEF TypeOK
<1>2. sealed' \in Seq(Checkpoint) /\ Len(sealed') = Len(sealed) BY <1>1
<1>3. DOMAIN sealed' = 1 .. Len(sealed) BY <1>1, <1>2
<1>4. sealed'[Len(sealed)] = r BY <1>1
<1>5. \A k \in 1 .. Len(sealed) : k < Len(sealed) => sealed'[k] = sealed[k] BY <1>1
<1> QED BY <1>1, <1>2, <1>3, <1>4, <1>5 DEF Last

(* So does a new checkpoint. *)
LEMMA Appended ==
  ASSUME TypeOK, NEW r \in Checkpoint, sealed' = Append(sealed, r)
  PROVE  /\ sealed' \in Seq(Checkpoint) /\ Len(sealed') = Len(sealed) + 1 /\ sealed' # <<>>
         /\ Last' = r /\ DOMAIN sealed' = 1 .. Len(sealed) + 1
         /\ \A k \in 1 .. Len(sealed) : sealed'[k] = sealed[k]
         /\ sealed'[Len(sealed) + 1] = r
<1>1. sealed \in Seq(Checkpoint) /\ Len(sealed) \in Nat BY DEF TypeOK
<1>2. sealed' \in Seq(Checkpoint) /\ Len(sealed') = Len(sealed) + 1 BY <1>1
<1>3. DOMAIN sealed' = 1 .. Len(sealed) + 1 BY <1>1, <1>2
<1>4. sealed'[Len(sealed) + 1] = r BY <1>1
<1>5. \A k \in 1 .. Len(sealed) : sealed'[k] = sealed[k] BY <1>1
<1> QED BY <1>1, <1>2, <1>3, <1>4, <1>5 DEF Last

(* What an operation reserves and spends, count by count. *)
LEMMA CountFacts ==
  ASSUME TypeOK, NEW o
  PROVE  /\ Reserved(o) \in Counts /\ Spent(o) \in Counts
         /\ Reserved(o).kr = mem.kr + Plus(o, "seal") /\ Reserved(o).ks = mem.ks
         /\ Reserved(o).cr = mem.cr + Plus(o, "accept") /\ Reserved(o).cs = mem.cs
         /\ Spent(o).ks = mem.ks + Plus(o, "seal") /\ Spent(o).kr = mem.kr
         /\ Spent(o).cs = mem.cs + Plus(o, "accept") /\ Spent(o).cr = mem.cr
         /\ Plus(o, "seal") \in {0, 1} /\ Plus(o, "accept") \in {0, 1}
<1>1. mem.kr \in Nat /\ mem.ks \in Nat /\ mem.cr \in Nat /\ mem.cs \in Nat
  BY DEF TypeOK, Counts
<1> QED BY <1>1 DEF Reserved, Spent, Plus, Counts

(* The receipt goes to the last checkpoint, which was asked and is older. *)
LEMMA AcceptFacts ==
  ASSUME IInv, Accept
  PROVE  /\ sealed # <<>> /\ Last.asked /\ Last.answer = NoCand /\ Last.cand < got
         /\ got \in Commits /\ got # NoCand
         /\ [Last EXCEPT !.answer = got] \in Checkpoint
         /\ sealed' = [sealed EXCEPT ![Len(sealed)] = [Last EXCEPT !.answer = got]]
<1>1. sealed # <<>> /\ Last.asked /\ Last.answer = NoCand /\ got \in Commits
  BY DEF IInv, Conducted, Accept, Inside, Asked, Live, Guarded
<1>2. Last.cand < got BY <1>1 DEF Accept, Inside, Fits, Candidate
<1>3. Last \in Checkpoint BY <1>1, LastFacts DEF IInv
<1>4. [Last EXCEPT !.answer = got] \in Checkpoint BY <1>1, <1>3 DEF Checkpoint
<1> QED BY <1>1, <1>2, <1>4, LimitAssumption DEF Accept, Commits

(* The feedback goes to the last checkpoint, which is refuted and new. *)
LEMMA AskFacts ==
  ASSUME IInv, Ask
  PROVE  /\ sealed # <<>> /\ Fresh /\ ~Last.ok /\ Len(sealed) < CapCheckpoints
         /\ [Last EXCEPT !.asked = TRUE] \in Checkpoint
         /\ sealed' = [sealed EXCEPT ![Len(sealed)] = [Last EXCEPT !.asked = TRUE]]
<1>1. Fresh /\ ~Last.ok /\ Len(sealed) < CapCheckpoints
  BY DEF IInv, Conducted, Ask, Inside, Live, Guarded
<1>2. Last \in Checkpoint BY <1>1, LastFacts DEF IInv, Fresh
<1>3. [Last EXCEPT !.asked = TRUE] \in Checkpoint BY <1>2 DEF Checkpoint
<1> QED BY <1>1, <1>3 DEF Ask, Fresh

(* The proven candidate answers the checkpoint before it. *)
LEMMA ProveFacts ==
  ASSUME IInv, Prove
  PROVE  /\ Replied /\ got \in Commits
         /\ \E ok \in BOOLEAN :
              /\ [cand |-> got, ok |-> ok, asked |-> FALSE, answer |-> NoCand] \in Checkpoint
              /\ sealed' = Append(sealed, [cand |-> got, ok |-> ok, asked |-> FALSE,
                                           answer |-> NoCand])
<1>1. Replied /\ got \in Commits
  BY DEF IInv, Conducted, Prove, Inside, Live, Guarded
<1> QED BY <1>1 DEF Prove, Checkpoint


(* Every variable keeps its type. *)
LEMMA TypeStep ==
  ASSUME IInv, [Next]_vars
  PROVE  TypeOK'
<1>1. CASE Reserve BY <1>1 DEF Reserve, world, turn, account, proof, outcome, IInv, TypeOK,
     Places, Guarded
<1>2. CASE Bind
  <2>1. op \in Brackets \ {"process"} BY <1>2 DEF Bind, IInv, Placed
  <2>2. op' \in {"process", "terminal"} BY <1>2, <2>1 DEF Bind, Following, Brackets
  <2>3. op' \in Ops BY <2>2 DEF Ops, Brackets, Effects
  <2>4. at' \in Places /\ fence' \in BOOLEAN BY <1>2 DEF Bind, Places
  <2>5. UNCHANGED <<world, turn, session, stopped, account, worked, terminal, proof, outcome>>
    BY <1>2 DEF Bind
  <2> QED BY <2>3, <2>4, <2>5 DEF world, turn, account, proof, outcome, IInv, TypeOK
<1>3. CASE Spawn
  <2>1. at' \in Places /\ fence' \in BOOLEAN /\ session' \in {"none", "live", "closed"}
    BY <1>3 DEF Spawn, Places
  <2>2. op' = "turn" BY <1>3 DEF Spawn, Following
  <2>3. op' \in Ops BY <2>2 DEF Ops
  <2>4. UNCHANGED <<world, turn, stopped, account, worked, terminal, proof, outcome>>
    BY <1>3 DEF Spawn
  <2> QED BY <2>1, <2>3, <2>4 DEF world, turn, account, proof, outcome, IInv, TypeOK
<1>4. CASE Turn
  <2>1. op' \in Ops BY <1>4 DEF Turn, Ops, Effects
  <2>2. head' \in Commits /\ got' \in Commits /\ echo' \in BOOLEAN BY <1>4 DEF Turn
  <2> QED BY <1>4, <2>1, <2>2 DEF Turn, account, proof, outcome, IInv, TypeOK
<1>5. CASE Enter
  <2>1. mark' \in 0 .. clock' BY <1>5, Clocks DEF Enter, IInv, TypeOK, world
  <2> QED BY <1>5, <2>1 DEF Enter, world, turn, proof, outcome, IInv, TypeOK, Places, Guarded
<1>6. CASE Open
  <2>1. spent' \in Nat /\ mark' = clock /\ clock' = clock /\ clock \in Nat
    BY <1>6, Clocks DEF Open, IInv, TypeOK, world
  <2>2. mem' \in Counts /\ book' \in Counts BY <1>6, CountFacts DEF Open, IInv
  <2>3. Wall - clock \in Nat /\ Verify - spent' \in Nat
    BY <1>6, <2>1, Clocks, LimitAssumption DEF Open, TimeLeft, IInv, TypeOK
  <2>4. interval' \in Nat BY <1>6, <2>3 DEF Open, Least, IInv, TypeOK
  <2>5. mark' \in 0 .. clock' BY <2>1
  <2> QED BY <1>6, <2>1, <2>2, <2>4, <2>5
       DEF Open, world, turn, proof, outcome, IInv, TypeOK, Places, Guarded, Effects, Placed
<1>7. CASE Accept
  <2>1. sealed' \in Seq(Checkpoint) BY <1>7, AcceptFacts, Rewritten DEF IInv
  <2> QED BY <1>7, <2>1 DEF Accept, Inside, world, turn, account, outcome, IInv, TypeOK, Places, Guarded
<1>8. CASE Prove
  <2>1. sealed' \in Seq(Checkpoint) BY <1>8, ProveFacts, Appended DEF IInv
  <2> QED BY <1>8, <2>1 DEF Prove, Inside, world, turn, account, outcome, IInv, TypeOK, Places, Guarded
<1>9. CASE Ask
  <2>1. sealed' \in Seq(Checkpoint) BY <1>9, AskFacts, Rewritten DEF IInv
  <2> QED BY <1>9, <2>1 DEF Ask, Inside, world, turn, account, outcome, IInv, TypeOK, Places, Guarded
<1>10. CASE Promise BY <1>10 DEF Promise, Inside, place, world, turn, account, outcome, IInv,
     TypeOK, Places, Guarded
<1>11. CASE Publish
  <2>1. result' \in Commits \cup {NoCand} BY <1>11 DEF Publish, IInv, TypeOK
  <2> QED BY <1>11, <2>1 DEF Publish, place, world, turn, account, outcome, IInv, TypeOK, Places, Guarded
<1>12. CASE Know BY <1>12 DEF Know, world, turn, account, proof, outcome, IInv, TypeOK, Places,
     Guarded
<1>13. CASE Settle
  <2>1. clock' = clock /\ clock \in Nat /\ Elapsed \in Nat /\ spent \in Nat
    BY <1>13, Clocks DEF Settle, IInv, TypeOK, world
  <2>2. spent' \in Nat /\ mark' \in 0 .. clock' BY <1>13, <2>1 DEF Settle
  <2>3. mem' \in Counts /\ book' \in Counts BY <1>13, CountFacts DEF Settle, IInv
  <2>4. at' \in Places /\ stopped' \in BOOLEAN /\ session' \in {"none", "live", "closed"}
    BY <1>13 DEF Settle, Stop, Closed, IInv, TypeOK, Places, Guarded
  <2> QED BY <1>13, <2>1, <2>2, <2>3, <2>4
       DEF Settle, world, turn, proof, outcome, IInv, TypeOK
<1>14. CASE Release
  <2>1. clock' = clock /\ clock \in Nat /\ Elapsed \in Nat /\ spent \in Nat
    BY <1>14, Clocks DEF Release, IInv, TypeOK, world
  <2>2. spent' \in Nat /\ mark' \in 0 .. clock' BY <1>14, <2>1 DEF Release
  <2>3. op' \in Ops BY <1>14 DEF Release, Following, IInv, TypeOK, Ops, Brackets, Effects
  <2>4. at' \in Places /\ stopped' \in BOOLEAN /\ session' \in {"none", "live", "closed"}
    BY <1>14 DEF Release, Stop, Closed, IInv, TypeOK, Places, Guarded
  <2> QED BY <1>14, <2>1, <2>2, <2>3, <2>4
       DEF Release, world, turn, proof, outcome, IInv, TypeOK
<1>15. CASE RaiseReady
  <2>1. at' \in Places /\ stopped' \in BOOLEAN /\ session' \in {"none", "live", "closed"}
    BY <1>15 DEF RaiseReady, Stop, Closed, IInv, TypeOK, Places
  <2>2. fence' \in BOOLEAN BY <1>15 DEF RaiseReady, IInv, TypeOK
  <2>3. UNCHANGED <<op, world, turn, account, worked, terminal, proof, outcome>>
    BY <1>15 DEF RaiseReady
  <2> QED BY <2>1, <2>2, <2>3 DEF world, turn, account, proof, outcome, IInv, TypeOK
<1>16. CASE RaiseReserved
  <2>1. at' \in Places /\ stopped' \in BOOLEAN /\ session' \in {"none", "live", "closed"}
    BY <1>16 DEF RaiseReserved, Stop, Closed, IInv, TypeOK, Places
  <2>2. fence' \in BOOLEAN BY <1>16 DEF RaiseReserved, IInv, TypeOK
  <2>3. UNCHANGED <<op, world, turn, account, worked, terminal, proof, outcome>>
    BY <1>16 DEF RaiseReserved
  <2> QED BY <2>1, <2>2, <2>3 DEF world, turn, account, proof, outcome, IInv, TypeOK
<1>17. CASE RaiseEntered
  <2>1. clock' = clock /\ clock \in Nat /\ Elapsed \in Nat /\ spent \in Nat
    BY <1>17, Clocks DEF RaiseEntered, IInv, TypeOK, world
  <2>2. spent' \in Nat /\ mark' \in 0 .. clock'
    BY <1>17, <2>1 DEF RaiseEntered, account, IInv, TypeOK
  <2>3. mem' \in Counts /\ book' \in Counts
    BY <1>17, CountFacts DEF RaiseEntered, account, IInv, TypeOK
  <2>4. interval' \in Nat
    <3>1. CASE interval' = interval BY <3>1 DEF IInv, TypeOK
    <3>2. CASE /\ TimeLeft /\ spent' = spent + Elapsed
               /\ interval' = interval + Least(Wall - clock, Verify - spent')
      <4>1. Wall - clock \in Nat /\ Verify - spent' \in Nat
        BY <3>2, <2>1, <2>2, Clocks, LimitAssumption DEF TimeLeft, IInv, TypeOK
      <4> QED BY <3>2, <4>1 DEF Least, IInv, TypeOK
    <3> QED BY <1>17, <3>1, <3>2 DEF RaiseEntered, account
  <2>5. pending' \in Effects \cup {"none"}
    BY <1>17 DEF RaiseEntered, account, IInv, TypeOK, Placed, Guarded
  <2>6. at' \in Places /\ stopped' \in BOOLEAN /\ session' \in {"none", "live", "closed"}
    BY <1>17 DEF RaiseEntered, Stop, Closed, IInv, TypeOK, Places
  <2>7. fence' \in BOOLEAN BY <1>17 DEF RaiseEntered, IInv, TypeOK
  <2>8. UNCHANGED <<op, world, turn, worked, terminal, proof, outcome>> BY <1>17 DEF RaiseEntered
  <2> QED BY <2>1, <2>2, <2>3, <2>4, <2>5, <2>6, <2>7, <2>8
       DEF world, turn, proof, outcome, IInv, TypeOK
<1>18. CASE RaiseInside
  <2>1. clock' = clock /\ clock \in Nat /\ Elapsed \in Nat /\ spent \in Nat
    BY <1>18, Clocks DEF RaiseInside, IInv, TypeOK, world
  <2>2. spent' \in Nat /\ mark' \in 0 .. clock'
    BY <1>18, <2>1 DEF RaiseInside, account, IInv, TypeOK
  <2>3. mem' \in Counts /\ book' \in Counts /\ interval' \in Nat /\ pending' = pending
    BY <1>18, CountFacts DEF RaiseInside, account, IInv, TypeOK
  <2>4. at' \in Places /\ stopped' \in BOOLEAN /\ session' \in {"none", "live", "closed"}
    BY <1>18 DEF RaiseInside, Stop, Closed, IInv, TypeOK, Places
  <2> QED BY <1>18, <2>1, <2>2, <2>3, <2>4
       DEF RaiseInside, world, turn, proof, outcome, IInv, TypeOK
<1>19. CASE RaiseSettled
  <2>1. clock' = clock /\ clock \in Nat /\ Elapsed \in Nat /\ spent \in Nat
    BY <1>19, Clocks DEF RaiseSettled, IInv, TypeOK, world
  <2>2. spent' \in Nat /\ mark' \in 0 .. clock'
    BY <1>19, <2>1 DEF RaiseSettled, account, IInv, TypeOK
  <2>3. at' \in Places /\ stopped' \in BOOLEAN /\ session' \in {"none", "live", "closed"}
    BY <1>19 DEF RaiseSettled, Stop, Closed, IInv, TypeOK, Places
  <2> QED BY <1>19, <2>1, <2>2, <2>3
       DEF RaiseSettled, account, world, turn, proof, outcome, IInv, TypeOK
<1>20. CASE Judge
  <2>1. at' \in Places /\ fence' \in BOOLEAN /\ failure' \in BOOLEAN
    BY <1>20 DEF Judge, IInv, TypeOK, Places
  <2> QED BY <1>20, <2>1 DEF Judge, world, turn, account, proof, IInv, TypeOK
<1>21. CASE Send
  <2>1. at' \in Places /\ stopped' \in BOOLEAN /\ session' \in {"none", "live", "closed"}
    BY <1>21 DEF Send, IInv, TypeOK, Places
  <2> QED BY <1>21, <2>1 DEF Send, world, turn, account, proof, IInv, TypeOK
<1>22. CASE Close
  <2>1. at' \in Places /\ stopped' \in BOOLEAN /\ session' \in {"none", "live", "closed"}
    BY <1>22 DEF Close, Closed, IInv, TypeOK, Places
  <2> QED BY <1>22, <2>1 DEF Close, world, turn, account, proof, IInv, TypeOK
<1>23. CASE Die
  <2>1. at' \in Places /\ fence' \in BOOLEAN /\ failure' \in BOOLEAN
    BY <1>23 DEF Die, IInv, TypeOK, Places
  <2> QED BY <1>23, <2>1 DEF Die, world, turn, account, proof, IInv, TypeOK
<1>24. CASE Tick
  <2>1. clock \in Nat /\ mark \in Nat /\ mark <= clock /\ clock < Wall /\ Wall \in Nat
    BY <1>24, Clocks, LimitAssumption DEF Tick, InTime, IInv, TypeOK
  <2>2. clock' = clock + 1 /\ mark' = mark BY <1>24 DEF Tick, account
  <2>3. clock' \in 0 .. Wall /\ mark' \in 0 .. clock' BY <2>1, <2>2
  <2>4. worked' \in Nat BY <1>24 DEF Tick, IInv, TypeOK
  <2> QED BY <1>24, <2>3, <2>4
       DEF Tick, place, turn, account, proof, outcome, IInv, TypeOK, Places, Guarded
<1>25. CASE Drift BY <1>25 DEF Drift, place, turn, account, proof, outcome, IInv, TypeOK,
     Places, Guarded
<1>26. CASE UNCHANGED vars BY <1>26 DEF vars, IInv, TypeOK, Places, Guarded
<1> QED BY Cases, <1>1, <1>2, <1>3, <1>4, <1>5, <1>6, <1>7, <1>8, <1>9, <1>10, <1>11, <1>12,
     <1>13, <1>14, <1>15, <1>16, <1>17, <1>18, <1>19, <1>20, <1>21, <1>22, <1>23, <1>24, <1>25,
     <1>26

-----------------------------------------------------------------------------
(* The counts *)

(* A receipt more, no checkpoint more. *)
LEMMA AcceptCounts ==
  ASSUME IInv, Accept
  PROVE  Len(sealed') = Len(sealed) /\ Answered' = Answered + 1
<1>1. Last' = [Last EXCEPT !.answer = got] /\ Len(sealed') = Len(sealed) /\ sealed' # <<>>
  BY AcceptFacts, Rewritten DEF IInv
<1>2. Last'.answer = got BY <1>1, AcceptFacts, LastFacts DEF Checkpoint, IInv
<1>3. Len(sealed) \in Nat BY DEF IInv, TypeOK
<1> QED BY <1>1, <1>2, <1>3, AcceptFacts DEF Answered

(* Neither more. *)
LEMMA AskCounts ==
  ASSUME IInv, Ask
  PROVE  Len(sealed') = Len(sealed) /\ Answered' = Answered
<1>1. Last' = [Last EXCEPT !.asked = TRUE] /\ Len(sealed') = Len(sealed) /\ sealed' # <<>>
  BY AskFacts, Rewritten DEF IInv
<1>2. Last'.answer = NoCand BY <1>1, AskFacts, LastFacts DEF Checkpoint, IInv, Fresh
<1> QED BY <1>1, <1>2, AskFacts DEF Answered, Fresh

(* A checkpoint more, no receipt more. *)
LEMMA ProveCounts ==
  ASSUME IInv, Prove
  PROVE  Len(sealed') = Len(sealed) + 1 /\ Answered' = Answered
<1>1. Len(sealed') = Len(sealed) + 1 /\ sealed' # <<>> /\ Last'.answer = NoCand
  <2>1. PICK ok \in BOOLEAN :
          /\ [cand |-> got, ok |-> ok, asked |-> FALSE, answer |-> NoCand] \in Checkpoint
          /\ sealed' = Append(sealed, [cand |-> got, ok |-> ok, asked |-> FALSE,
                                       answer |-> NoCand])
    BY ProveFacts
  <2> QED BY <2>1, Appended DEF IInv
<1>2. Answered = Len(sealed) BY ProveFacts, LimitAssumption DEF Replied, Answered, Commits
<1>3. Len(sealed) \in Nat BY DEF IInv, TypeOK
<1> QED BY <1>1, <1>2, <1>3 DEF Answered

(* They are natural numbers. *)
LEMMA Numbers ==
  ASSUME TypeOK
  PROVE  /\ Len(sealed) \in Nat /\ Answered \in Nat
         /\ mem.kr \in Nat /\ mem.ks \in Nat /\ mem.cr \in Nat /\ mem.cs \in Nat
         /\ book.kr \in Nat /\ book.ks \in Nat /\ book.cr \in Nat /\ book.cs \in Nat
<1>1. Len(sealed) \in Nat BY DEF TypeOK
<1>2. sealed # <<>> => Len(sealed) \in Nat \ {0} BY LastFacts
<1>3. Answered \in Nat BY <1>1, <1>2 DEF Answered
<1> QED BY <1>1, <1>3 DEF TypeOK, Counts


(* The counts stay true. *)
LEMMA CountedStep ==
  ASSUME IInv, [Next]_vars
  PROVE  Counted'
<1>1. CASE Reserve
  <2>1. Answered' = Answered /\ sealed' = sealed BY <1>1 DEF Answered, Last, Reserve, proof
  <2> QED BY <1>1, <2>1, Numbers DEF Reserve, world, turn, account, proof, outcome, IInv,
       Counted, Placed, Due, Guarded
<1>2. CASE Bind
  <2>1. Answered' = Answered /\ sealed' = sealed BY <1>2 DEF Answered, Last, Bind, proof
  <2> QED BY <1>2, <2>1, Numbers DEF Bind, world, turn, account, proof, outcome, IInv, Counted,
       Placed, Due, Guarded
<1>3. CASE Spawn
  <2>1. Answered' = Answered /\ sealed' = sealed BY <1>3 DEF Answered, Last, Spawn, proof
  <2> QED BY <1>3, <2>1, Numbers DEF Spawn, world, turn, account, proof, outcome, IInv,
       Counted, Placed, Due, Guarded
<1>4. CASE Turn
  <2>1. Answered' = Answered /\ sealed' = sealed BY <1>4 DEF Answered, Last, Turn, proof
  <2> QED BY <1>4, <2>1, Numbers DEF Turn, turn, account, proof, outcome, IInv, Counted,
       Placed, Due, Guarded
<1>5. CASE Enter
  <2>1. Answered' = Answered /\ sealed' = sealed BY <1>5 DEF Answered, Last, Enter, proof
  <2> QED BY <1>5, <2>1, Numbers DEF Enter, world, turn, proof, outcome, IInv, Counted, Placed,
       Due, Guarded
<1>6. CASE Open
  <2>1. Answered' = Answered /\ sealed' = sealed BY <1>6 DEF Answered, Last, Open, proof
  <2>2. /\ mem' = Reserved(op) /\ book' = mem' /\ pending' = op /\ at' = "inside" /\ op' = op
        /\ fence' /\ op \in Effects
    BY <1>6 DEF Open, IInv, Placed, Guarded
  <2>3. /\ mem'.kr = mem.kr + Plus(op, "seal") /\ mem'.cr = mem.cr + Plus(op, "accept")
        /\ mem'.ks = mem.ks /\ mem'.cs = mem.cs
    BY <2>2, CountFacts DEF IInv
  <2>4. mem'.kr <= CapCheckpoints /\ mem'.cr <= CapCorrections
    BY <1>6, <2>3, Caps, Numbers DEF Open, Capacity, Plus, IInv, Counted
  <2>5. /\ mem.ks = mem.kr /\ mem.cs = mem.cr /\ mem.kr = Len(sealed) /\ mem.cr = Answered
    BY <1>6 DEF Open, IInv, Counted
  <2>6. pending' # "none" BY <2>2 DEF Effects
  <2> QED BY <2>1, <2>2, <2>3, <2>4, <2>5, <2>6, Numbers DEF Counted, Plus, Due, IInv
<1>7. CASE Accept
  <2>1. at' = "worked" /\ UNCHANGED <<op, account, fence>> /\ at = "inside" /\ op = "accept"
    BY <1>7 DEF Accept, Inside
  <2> QED BY <2>1, <1>7, AcceptCounts, Numbers DEF account, Plus, IInv, Counted, Placed, Due, Guarded
<1>8. CASE Prove
  <2>1. at' = "worked" /\ UNCHANGED <<op, account, fence>> /\ at = "inside" /\ op = "seal"
    BY <1>8 DEF Prove, Inside
  <2> QED BY <2>1, <1>8, ProveCounts, Numbers DEF account, Plus, IInv, Counted, Placed, Due, Guarded
<1>9. CASE Ask
  <2>1. at' = "worked" /\ UNCHANGED <<op, account, fence>> /\ at = "inside" /\ op = "feedback"
    BY <1>9 DEF Ask, Inside
  <2> QED BY <2>1, <1>9, AskCounts, Numbers DEF account, Plus, IInv, Counted, Placed, Due, Guarded
<1>10. CASE Promise
  <2>1. Answered' = Answered /\ sealed' = sealed BY <1>10 DEF Answered, Last, Promise, Inside
  <2> QED BY <1>10, <2>1, Numbers DEF Promise, Inside, place, world, turn, account, outcome,
       IInv, Counted, Placed, Due, Guarded
<1>11. CASE Publish
  <2>1. Answered' = Answered /\ sealed' = sealed BY <1>11 DEF Answered, Last, Publish
  <2> QED BY <1>11, <2>1, Numbers DEF Publish, place, world, turn, account, outcome, IInv,
       Counted, Placed, Due, Guarded
<1>12. CASE Know
  <2>1. Answered' = Answered /\ sealed' = sealed BY <1>12 DEF Answered, Last, Know, proof
  <2> QED BY <1>12, <2>1, Numbers DEF Know, world, turn, account, proof, outcome, IInv, Counted,
       Placed, Due, Guarded, Plus
<1>13. CASE Settle
  <2>1. Answered' = Answered /\ sealed' = sealed BY <1>13 DEF Answered, Last, Settle, proof
  <2>2. /\ at' = "settled" /\ pending' = "none" /\ mem' = Spent(op) /\ book' = mem'
        /\ interval' = 0
    BY <1>13 DEF Settle
  <2>3. /\ mem'.ks = mem.ks + Plus(op, "seal") /\ mem'.cs = mem.cs + Plus(op, "accept")
        /\ mem'.kr = mem.kr /\ mem'.cr = mem.cr
    BY <2>2, CountFacts DEF IInv
  <2>4. /\ mem.kr = mem.ks + Plus(op, "seal") /\ mem.cr = mem.cs + Plus(op, "accept")
        /\ mem.kr = Len(sealed) /\ mem.cr = Answered
    BY <1>13, Numbers DEF Settle, IInv, Counted, Due
  <2>5. mem.kr <= CapCheckpoints /\ mem.cr <= CapCorrections BY DEF IInv, Counted
  <2> QED BY <2>1, <2>2, <2>3, <2>4, <2>5, Numbers DEF Counted, IInv
<1>14. CASE Release
  <2>1. Answered' = Answered /\ sealed' = sealed BY <1>14 DEF Answered, Last, Release, proof
  <2> QED BY <1>14, <2>1, Numbers DEF Release, Stop, Closed, world, turn, proof, outcome, IInv,
       Counted, Placed, Due, Guarded
<1>15. CASE RaiseReady
  <2>1. Answered' = Answered /\ sealed' = sealed BY <1>15 DEF Answered, Last, RaiseReady, proof
  <2> QED BY <1>15, <2>1, Numbers DEF RaiseReady, Stop, Closed, world, turn, account, proof,
       outcome, IInv, Counted, Placed, Due, Guarded
<1>16. CASE RaiseReserved
  <2>1. Answered' = Answered /\ sealed' = sealed BY <1>16 DEF Answered, Last, RaiseReserved, proof
  <2> QED BY <1>16, <2>1, Numbers DEF RaiseReserved, Stop, Closed, world, turn, account, proof,
       outcome, IInv, Counted, Placed, Due, Guarded
<1>17. CASE RaiseEntered
  <2>1. Answered' = Answered /\ sealed' = sealed BY <1>17 DEF Answered, Last, RaiseEntered, proof
  <2>2. at' = "raised" /\ op \in Effects /\ op # "none" /\ ~fence /\ pending = "none"
    BY <1>17 DEF RaiseEntered, IInv, Placed, Guarded, Effects, Counted
  <2>3. CASE UNCHANGED <<pending, mem, book, interval>> BY <2>1, <2>2, <2>3 DEF IInv, Counted
  <2>4. CASE /\ Capacity(op) /\ fence'
             /\ mem' = Reserved(op) /\ book' \in {book, mem'} /\ pending' = op
    <3>1. /\ mem'.kr = mem.kr + Plus(op, "seal") /\ mem'.cr = mem.cr + Plus(op, "accept")
          /\ mem'.ks = mem.ks /\ mem'.cs = mem.cs
      BY <2>4, CountFacts DEF IInv
    <3>2. mem'.kr <= CapCheckpoints /\ mem'.cr <= CapCorrections
      BY <2>4, <3>1, Caps, Numbers DEF Capacity, Plus, IInv, Counted
    <3>3. /\ mem.ks = mem.kr /\ mem.cs = mem.cr /\ mem.kr = Len(sealed) /\ mem.cr = Answered
          /\ book = mem
      BY <2>2 DEF IInv, Counted
    <3> QED BY <2>1, <2>2, <2>4, <3>1, <3>2, <3>3, Numbers DEF Counted, Plus, IInv
  <2> QED BY <1>17, <2>3, <2>4 DEF RaiseEntered, account
<1>18. CASE RaiseInside
  <2>1. Answered' = Answered /\ sealed' = sealed BY <1>18 DEF Answered, Last, RaiseInside, proof
  <2>2. /\ at' = "raised" /\ pending' = pending /\ pending = op /\ op \in Effects /\ fence'
        /\ op # "none" /\ book = mem
    BY <1>18 DEF RaiseInside, account, IInv, Placed, Guarded, Effects, Counted
  <2>3. CASE UNCHANGED <<mem, book>> BY <2>1, <2>2, <2>3 DEF IInv, Counted
  <2>4. CASE at = "worked" /\ mem' = Spent(op) /\ book' \in {book, mem'}
    <3>1. /\ mem'.ks = mem.ks + Plus(op, "seal") /\ mem'.cs = mem.cs + Plus(op, "accept")
          /\ mem'.kr = mem.kr /\ mem'.cr = mem.cr
      BY <2>4, CountFacts DEF IInv
    <3>2. /\ mem.kr = mem.ks + Plus(op, "seal") /\ mem.cr = mem.cs + Plus(op, "accept")
          /\ mem.kr = Len(sealed) /\ mem.cr = Answered
      BY <2>4, Numbers DEF IInv, Counted, Due
    <3>3. mem.kr <= CapCheckpoints /\ mem.cr <= CapCorrections BY DEF IInv, Counted
    <3> QED BY <2>1, <2>2, <2>4, <3>1, <3>2, <3>3, Numbers DEF Counted, Plus, IInv
  <2> QED BY <1>18, <2>3, <2>4 DEF RaiseInside, account
<1>19. CASE RaiseSettled
  <2>1. Answered' = Answered /\ sealed' = sealed BY <1>19 DEF Answered, Last, RaiseSettled, proof
  <2> QED BY <1>19, <2>1, Numbers DEF RaiseSettled, Stop, Closed, world, turn, account, proof,
       outcome, IInv, Counted, Placed, Due, Guarded
<1>20. CASE Judge
  <2>1. Answered' = Answered /\ sealed' = sealed BY <1>20 DEF Answered, Last, Judge, proof
  <2> QED BY <1>20, <2>1, Numbers DEF Judge, world, turn, account, proof, IInv, Counted, Placed,
       Due, Guarded
<1>21. CASE Send
  <2>1. Answered' = Answered /\ sealed' = sealed BY <1>21 DEF Answered, Last, Send, proof
  <2> QED BY <1>21, <2>1, Numbers DEF Send, world, turn, account, proof, IInv, Counted, Placed,
       Due, Guarded
<1>22. CASE Close
  <2>1. Answered' = Answered /\ sealed' = sealed BY <1>22 DEF Answered, Last, Close, proof
  <2> QED BY <1>22, <2>1, Numbers DEF Close, Closed, world, turn, account, proof, IInv, Counted,
       Placed, Due, Guarded
<1>23. CASE Die
  <2>1. Answered' = Answered /\ sealed' = sealed BY <1>23 DEF Answered, Last, Die, proof
  <2> QED BY <1>23, <2>1, Numbers DEF Die, world, turn, account, proof, IInv, Counted, Placed,
       Due, Guarded
<1>24. CASE Tick
  <2>1. Answered' = Answered /\ sealed' = sealed BY <1>24 DEF Answered, Last, Tick, proof
  <2> QED BY <1>24, <2>1, Numbers DEF Tick, place, turn, account, proof, outcome, IInv, Counted,
       Placed, Due, Guarded
<1>25. CASE Drift
  <2>1. Answered' = Answered /\ sealed' = sealed BY <1>25 DEF Answered, Last, Drift, proof
  <2> QED BY <1>25, <2>1, Numbers DEF Drift, place, turn, account, proof, outcome, IInv,
       Counted, Placed, Due, Guarded
<1>26. CASE UNCHANGED vars BY <1>26 DEF vars, IInv, Counted, Due, Answered, Last
<1> QED BY Cases, <1>1, <1>2, <1>3, <1>4, <1>5, <1>6, <1>7, <1>8, <1>9, <1>10, <1>11, <1>12,
     <1>13, <1>14, <1>15, <1>16, <1>17, <1>18, <1>19, <1>20, <1>21, <1>22, <1>23, <1>24, <1>25,
     <1>26

-----------------------------------------------------------------------------
(* The dialogue *)


(* The dialogue stays one. *)
LEMMA ChainedStep ==
  ASSUME IInv, [Next]_vars
  PROVE  Chained'
<1>1. CASE Reserve
  <2>1. sealed' = sealed BY <1>1 DEF Reserve, proof
  <2> QED BY <2>1 DEF IInv, Chained
<1>2. CASE Bind
  <2>1. sealed' = sealed BY <1>2 DEF Bind, proof
  <2> QED BY <2>1 DEF IInv, Chained
<1>3. CASE Spawn
  <2>1. sealed' = sealed BY <1>3 DEF Spawn, proof
  <2> QED BY <2>1 DEF IInv, Chained
<1>4. CASE Turn
  <2>1. sealed' = sealed BY <1>4 DEF Turn, proof
  <2> QED BY <2>1 DEF IInv, Chained
<1>5. CASE Enter
  <2>1. sealed' = sealed BY <1>5 DEF Enter, proof
  <2> QED BY <2>1 DEF IInv, Chained
<1>6. CASE Open
  <2>1. sealed' = sealed BY <1>6 DEF Open, proof
  <2> QED BY <2>1 DEF IInv, Chained
<1>7. CASE Accept
  <2> DEFINE n == Len(sealed)
             r == [Last EXCEPT !.answer = got]
  <2>1. /\ sealed # <<>> /\ Last.asked /\ Last.answer = NoCand /\ got # NoCand
        /\ r \in Checkpoint /\ sealed' = [sealed EXCEPT ![n] = r]
    BY <1>7, AcceptFacts
  <2>2. /\ Len(sealed') = n /\ DOMAIN sealed' = 1 .. n
        /\ \A k \in 1 .. n : k < n => sealed'[k] = sealed[k]
        /\ sealed'[n] = r
    BY <2>1, Rewritten DEF IInv
  <2>3. r.cand = Last.cand /\ r.answer = got /\ r.asked /\ r.ok = Last.ok /\ ~r.ok
    <3>1. Last \in Checkpoint /\ ~Last.ok
      BY <2>1, LastFacts DEF IInv, Chained, Last
    <3> QED BY <2>1, <3>1 DEF Checkpoint
  <2> HIDE DEF r
  <2>4. n \in Nat /\ n > 0 /\ DOMAIN sealed = 1 .. n /\ Last = sealed[n]
    BY <2>1, LastFacts DEF IInv, Last, TypeOK
  <2> HIDE DEF n
  <2>5. \A k \in 1 .. n : sealed'[k].cand = sealed[k].cand BY <2>2, <2>3, <2>4
  <2>6. \A k \in 1 .. n : k > 1 =>
          sealed'[k-1].answer = sealed'[k].cand /\ sealed'[k-1].cand < sealed'[k].cand
    <3> SUFFICES ASSUME NEW k \in 1 .. n, k > 1
                 PROVE  sealed'[k-1].answer = sealed'[k].cand
                        /\ sealed'[k-1].cand < sealed'[k].cand
      OBVIOUS
    <3>1. k - 1 \in 1 .. n /\ k - 1 < n BY <2>4
    <3>2. sealed'[k-1] = sealed[k-1] BY <3>1, <2>2
    <3>3. sealed[k-1].answer = sealed[k].cand /\ sealed[k-1].cand < sealed[k].cand
      BY <2>4 DEF IInv, Chained
    <3> QED BY <3>2, <3>3, <2>5
  <2>7. \A k \in 1 .. n : k < n => sealed'[k].answer # NoCand
    BY <2>2, <2>4 DEF IInv, Chained, n
  <2>8. \A k \in 1 .. n : /\ sealed'[k].answer # NoCand => sealed'[k].asked
                          /\ sealed'[k].asked => ~sealed'[k].ok
    <3> SUFFICES ASSUME NEW k \in 1 .. n
                 PROVE  /\ sealed'[k].answer # NoCand => sealed'[k].asked
                        /\ sealed'[k].asked => ~sealed'[k].ok
      OBVIOUS
    <3>1. CASE k = n BY <3>1, <2>2, <2>3
    <3>2. CASE k < n BY <3>2, <2>2, <2>4 DEF IInv, Chained
    <3> QED BY <3>1, <3>2, <2>4
  <2> QED BY <2>2, <2>6, <2>7, <2>8 DEF Chained
<1>8. CASE Prove
  <2> DEFINE n == Len(sealed)
  <2>1. PICK ok \in BOOLEAN :
          /\ [cand |-> got, ok |-> ok, asked |-> FALSE, answer |-> NoCand] \in Checkpoint
          /\ sealed' = Append(sealed, [cand |-> got, ok |-> ok, asked |-> FALSE,
                                       answer |-> NoCand])
    BY <1>8, ProveFacts
  <2> DEFINE r == [cand |-> got, ok |-> ok, asked |-> FALSE, answer |-> NoCand]
  <2>2. /\ Len(sealed') = n + 1 /\ DOMAIN sealed' = 1 .. n + 1
        /\ \A k \in 1 .. n : sealed'[k] = sealed[k]
        /\ sealed'[n+1] = r
    BY <2>1, Appended DEF IInv
  <2>3. r.cand = got /\ r.answer = NoCand /\ ~r.asked OBVIOUS
  <2> HIDE DEF r
  <2>4. n \in Nat /\ DOMAIN sealed = 1 .. n BY DEF IInv, TypeOK
  <2>5. n > 0 => sealed[n].answer = got /\ sealed[n].cand < got /\ got # NoCand
    BY <1>8, <2>4, ProveFacts, LimitAssumption DEF Replied, Last, IInv, TypeOK, Commits
  <2> HIDE DEF n
  <2>6. \A k \in 1 .. n + 1 : k > 1 =>
          sealed'[k-1].answer = sealed'[k].cand /\ sealed'[k-1].cand < sealed'[k].cand
    <3> SUFFICES ASSUME NEW k \in 1 .. n + 1, k > 1
                 PROVE  sealed'[k-1].answer = sealed'[k].cand
                        /\ sealed'[k-1].cand < sealed'[k].cand
      OBVIOUS
    <3>1. k - 1 \in 1 .. n /\ sealed'[k-1] = sealed[k-1] BY <2>2, <2>4
    <3>2. CASE k = n + 1
      <4>1. sealed'[k] = r /\ k - 1 = n /\ n > 0 BY <3>2, <3>1, <2>2, <2>4
      <4> QED BY <4>1, <3>1, <2>3, <2>5
    <3>3. CASE k \in 1 .. n
      <4>1. sealed[k-1].answer = sealed[k].cand /\ sealed[k-1].cand < sealed[k].cand
        BY <3>3, <2>4 DEF IInv, Chained
      <4> QED BY <4>1, <3>1, <3>3, <2>2
    <3> QED BY <3>2, <3>3, <2>4
  <2>7. \A k \in 1 .. n + 1 : k < n + 1 => sealed'[k].answer # NoCand
    <3> SUFFICES ASSUME NEW k \in 1 .. n PROVE sealed'[k].answer # NoCand
      BY <2>4
    <3>1. CASE k = n BY <3>1, <2>2, <2>4, <2>5
    <3>2. CASE k < n BY <3>2, <2>2, <2>4 DEF IInv, Chained, n
    <3> QED BY <3>1, <3>2, <2>4
  <2>8. \A k \in 1 .. n + 1 : /\ sealed'[k].answer # NoCand => sealed'[k].asked
                              /\ sealed'[k].asked => ~sealed'[k].ok
    <3> SUFFICES ASSUME NEW k \in 1 .. n + 1
                 PROVE  /\ sealed'[k].answer # NoCand => sealed'[k].asked
                        /\ sealed'[k].asked => ~sealed'[k].ok
      OBVIOUS
    <3>1. CASE k = n + 1 BY <3>1, <2>2, <2>3
    <3>2. CASE k \in 1 .. n BY <3>2, <2>2, <2>4 DEF IInv, Chained
    <3> QED BY <3>1, <3>2, <2>4
  <2> QED BY <2>2, <2>6, <2>7, <2>8 DEF Chained
<1>9. CASE Ask
  <2> DEFINE n == Len(sealed)
             r == [Last EXCEPT !.asked = TRUE]
  <2>1. /\ sealed # <<>> /\ ~Last.ok /\ Last.answer = NoCand
        /\ r \in Checkpoint /\ sealed' = [sealed EXCEPT ![n] = r]
    BY <1>9, AskFacts DEF Fresh
  <2>2. /\ Len(sealed') = n /\ DOMAIN sealed' = 1 .. n
        /\ \A k \in 1 .. n : k < n => sealed'[k] = sealed[k]
        /\ sealed'[n] = r
    BY <2>1, Rewritten DEF IInv
  <2>3. r.cand = Last.cand /\ r.answer = NoCand /\ r.asked /\ r.ok = Last.ok /\ ~r.ok
    <3>1. Last \in Checkpoint BY <2>1, LastFacts DEF IInv
    <3> QED BY <2>1, <3>1 DEF Checkpoint
  <2> HIDE DEF r
  <2>4. n \in Nat /\ n > 0 /\ DOMAIN sealed = 1 .. n /\ Last = sealed[n]
    BY <2>1, LastFacts DEF IInv, Last, TypeOK
  <2> HIDE DEF n
  <2>5. \A k \in 1 .. n : sealed'[k].cand = sealed[k].cand BY <2>2, <2>3, <2>4
  <2>6. \A k \in 1 .. n : k > 1 =>
          sealed'[k-1].answer = sealed'[k].cand /\ sealed'[k-1].cand < sealed'[k].cand
    <3> SUFFICES ASSUME NEW k \in 1 .. n, k > 1
                 PROVE  sealed'[k-1].answer = sealed'[k].cand
                        /\ sealed'[k-1].cand < sealed'[k].cand
      OBVIOUS
    <3>1. k - 1 \in 1 .. n /\ k - 1 < n BY <2>4
    <3>2. sealed'[k-1] = sealed[k-1] BY <3>1, <2>2
    <3>3. sealed[k-1].answer = sealed[k].cand /\ sealed[k-1].cand < sealed[k].cand
      BY <2>4 DEF IInv, Chained
    <3> QED BY <3>2, <3>3, <2>5
  <2>7. \A k \in 1 .. n : k < n => sealed'[k].answer # NoCand
    BY <2>2, <2>4 DEF IInv, Chained, n
  <2>8. \A k \in 1 .. n : /\ sealed'[k].answer # NoCand => sealed'[k].asked
                          /\ sealed'[k].asked => ~sealed'[k].ok
    <3> SUFFICES ASSUME NEW k \in 1 .. n
                 PROVE  /\ sealed'[k].answer # NoCand => sealed'[k].asked
                        /\ sealed'[k].asked => ~sealed'[k].ok
      OBVIOUS
    <3>1. CASE k = n BY <3>1, <2>2, <2>3
    <3>2. CASE k < n BY <3>2, <2>2, <2>4 DEF IInv, Chained
    <3> QED BY <3>1, <3>2, <2>4
  <2> QED BY <2>2, <2>6, <2>7, <2>8 DEF Chained
<1>10. CASE Promise
  <2>1. sealed' = sealed BY <1>10 DEF Promise, Inside
  <2> QED BY <2>1 DEF IInv, Chained
<1>11. CASE Publish
  <2>1. sealed' = sealed BY <1>11 DEF Publish
  <2> QED BY <2>1 DEF IInv, Chained
<1>12. CASE Know
  <2>1. sealed' = sealed BY <1>12 DEF Know, proof
  <2> QED BY <2>1 DEF IInv, Chained
<1>13. CASE Settle
  <2>1. sealed' = sealed BY <1>13 DEF Settle, proof
  <2> QED BY <2>1 DEF IInv, Chained
<1>14. CASE Release
  <2>1. sealed' = sealed BY <1>14 DEF Release, proof
  <2> QED BY <2>1 DEF IInv, Chained
<1>15. CASE RaiseReady
  <2>1. sealed' = sealed BY <1>15 DEF RaiseReady, proof
  <2> QED BY <2>1 DEF IInv, Chained
<1>16. CASE RaiseReserved
  <2>1. sealed' = sealed BY <1>16 DEF RaiseReserved, proof
  <2> QED BY <2>1 DEF IInv, Chained
<1>17. CASE RaiseEntered
  <2>1. sealed' = sealed BY <1>17 DEF RaiseEntered, proof
  <2> QED BY <2>1 DEF IInv, Chained
<1>18. CASE RaiseInside
  <2>1. sealed' = sealed BY <1>18 DEF RaiseInside, proof
  <2> QED BY <2>1 DEF IInv, Chained
<1>19. CASE RaiseSettled
  <2>1. sealed' = sealed BY <1>19 DEF RaiseSettled, proof
  <2> QED BY <2>1 DEF IInv, Chained
<1>20. CASE Judge
  <2>1. sealed' = sealed BY <1>20 DEF Judge, proof
  <2> QED BY <2>1 DEF IInv, Chained
<1>21. CASE Send
  <2>1. sealed' = sealed BY <1>21 DEF Send, proof
  <2> QED BY <2>1 DEF IInv, Chained
<1>22. CASE Close
  <2>1. sealed' = sealed BY <1>22 DEF Close, proof
  <2> QED BY <2>1 DEF IInv, Chained
<1>23. CASE Die
  <2>1. sealed' = sealed BY <1>23 DEF Die, proof
  <2> QED BY <2>1 DEF IInv, Chained
<1>24. CASE Tick
  <2>1. sealed' = sealed BY <1>24 DEF Tick, proof
  <2> QED BY <2>1 DEF IInv, Chained
<1>25. CASE Drift
  <2>1. sealed' = sealed BY <1>25 DEF Drift, proof
  <2> QED BY <2>1 DEF IInv, Chained
<1>26. CASE UNCHANGED vars BY <1>26 DEF vars, IInv, Chained
<1> QED BY Cases, <1>1, <1>2, <1>3, <1>4, <1>5, <1>6, <1>7, <1>8, <1>9, <1>10, <1>11, <1>12,
     <1>13, <1>14, <1>15, <1>16, <1>17, <1>18, <1>19, <1>20, <1>21, <1>22, <1>23, <1>24, <1>25,
     <1>26

-----------------------------------------------------------------------------
(* The conduct of the owner *)


(* The owner goes on from what is there. *)
LEMMA ConductedStep ==
  ASSUME IInv, [Next]_vars
  PROVE  Conducted'
<1>1. CASE Reserve
  <2>1. sealed' = sealed /\ Last' = Last /\ got' = got
    BY <1>1 DEF Last, Reserve, turn, proof
  <2>2. /\ Fresh' = Fresh /\ Asked' = Asked /\ Replied' = Replied
    BY <2>1 DEF Fresh, Asked, Replied
  <2> QED BY <1>1, <2>1, <2>2 DEF Reserve, turn, proof, IInv, Conducted, Placed, Live, Guarded,
       Effects, Brackets, TypeOK, Ops
<1>2. CASE Bind
  <2>1. sealed' = sealed /\ Last' = Last /\ got' = got
    BY <1>2 DEF Last, Bind, turn, proof
  <2>2. /\ Fresh' = Fresh /\ Asked' = Asked /\ Replied' = Replied
    BY <2>1 DEF Fresh, Asked, Replied
  <2> QED BY <1>2, <2>1, <2>2 DEF Bind, Following, turn, proof, IInv, Conducted, Placed, Live,
       Guarded, Effects, Brackets, TypeOK, Ops
<1>3. CASE Spawn
  <2>1. sealed' = sealed /\ Last' = Last /\ got' = got
    BY <1>3 DEF Last, Spawn, turn, proof
  <2>2. /\ Fresh' = Fresh /\ Asked' = Asked /\ Replied' = Replied
    BY <2>1 DEF Fresh, Asked, Replied
  <2> QED BY <1>3, <2>1, <2>2 DEF Spawn, Following, turn, proof, IInv, Conducted, Placed, Live,
       Guarded, Effects, Brackets, TypeOK, Ops
<1>4. CASE Turn
  <2>1. sealed' = sealed /\ at' = "ready" /\ op' = (IF sealed = <<>> THEN "seal" ELSE "accept")
        /\ got' \in Commits
    BY <1>4 DEF Turn, proof
  <2>2. sealed = <<>> \/ Asked BY <1>4 DEF Turn, IInv, Conducted, Live, Guarded
  <2> QED BY <2>1, <2>2 DEF Conducted, Live, Guarded, Asked, Replied, Last
<1>5. CASE Enter
  <2>1. sealed' = sealed /\ Last' = Last /\ got' = got
    BY <1>5 DEF Last, Enter, turn, proof
  <2>2. /\ Fresh' = Fresh /\ Asked' = Asked /\ Replied' = Replied
    BY <2>1 DEF Fresh, Asked, Replied
  <2> QED BY <1>5, <2>1, <2>2 DEF Enter, turn, proof, IInv, Conducted, Placed, Live, Guarded,
       Effects, Brackets
<1>6. CASE Open
  <2>1. sealed' = sealed /\ Last' = Last /\ got' = got
    BY <1>6 DEF Last, Open, proof, turn
  <2>2. /\ Fresh' = Fresh /\ Asked' = Asked /\ Replied' = Replied
    BY <2>1 DEF Fresh, Asked, Replied
  <2>3. op = "feedback" => Len(sealed) < CapCheckpoints
    <3>1. op = "feedback" => mem.cr < CapCorrections BY <1>6 DEF Open, Capacity
    <3>2. mem.cr = Answered BY <1>6 DEF Open, IInv, Counted
    <3>3. op = "feedback" => Fresh BY <1>6 DEF Open, IInv, Conducted, Live, Guarded
    <3>4. op = "feedback" => Answered = Len(sealed) - 1 BY <3>3 DEF Fresh, Answered
    <3> QED BY <3>1, <3>2, <3>4, Caps, Numbers DEF IInv
  <2> QED BY <1>6, <2>1, <2>2, <2>3 DEF Open, turn, IInv, Conducted, Placed, Live, Guarded, Effects, Brackets
<1>7. CASE Accept
  <2>1. at' = "worked" /\ op' = "accept" /\ got' = got BY <1>7 DEF Accept, Inside, turn
  <2>2. sealed' # <<>> /\ Last' = [Last EXCEPT !.answer = got] /\ Last \in Checkpoint
    BY <1>7, AcceptFacts, Rewritten, LastFacts DEF IInv
  <2>3. Last'.answer = got /\ Last'.cand = Last.cand BY <2>2 DEF Checkpoint
  <2> QED BY <1>7, <2>1, <2>2, <2>3, AcceptFacts DEF Conducted, Replied
<1>8. CASE Prove
  <2>1. at' = "worked" /\ op' = "seal" /\ got' = got BY <1>8 DEF Prove, Inside, turn
  <2>2. PICK ok \in BOOLEAN :
          /\ [cand |-> got, ok |-> ok, asked |-> FALSE, answer |-> NoCand] \in Checkpoint
          /\ sealed' = Append(sealed, [cand |-> got, ok |-> ok, asked |-> FALSE,
                                       answer |-> NoCand])
    BY <1>8, ProveFacts
  <2>3. sealed' # <<>> /\ Last' = [cand |-> got, ok |-> ok, asked |-> FALSE, answer |-> NoCand]
    BY <2>2, Appended DEF IInv
  <2> QED BY <1>8, <2>1, <2>3, ProveFacts DEF Conducted, Fresh
<1>9. CASE Ask
  <2>1. at' = "worked" /\ op' = "feedback" BY <1>9 DEF Ask, Inside
  <2>2. /\ sealed' # <<>> /\ Len(sealed') = Len(sealed)
        /\ Last' = [Last EXCEPT !.asked = TRUE] /\ Last \in Checkpoint
    BY <1>9, AskFacts, Rewritten, LastFacts DEF IInv
  <2>3. Last'.asked /\ Last'.answer = Last.answer BY <2>2 DEF Checkpoint
  <2> QED BY <1>9, <2>1, <2>2, <2>3, AskFacts DEF Conducted, Asked, Fresh
<1>10. CASE Promise
  <2>1. sealed' = sealed /\ Last' = Last /\ got' = got
    BY <1>10 DEF Last, Promise, Inside, turn
  <2>2. /\ Fresh' = Fresh /\ Asked' = Asked /\ Replied' = Replied
    BY <2>1 DEF Fresh, Asked, Replied
  <2> QED BY <1>10, <2>1, <2>2 DEF Promise, Inside, place, turn, IInv, Conducted, Placed, Live,
       Guarded, Effects, Brackets
<1>11. CASE Publish
  <2>1. sealed' = sealed /\ Last' = Last /\ got' = got
    BY <1>11 DEF Last, Publish, turn
  <2>2. /\ Fresh' = Fresh /\ Asked' = Asked /\ Replied' = Replied
    BY <2>1 DEF Fresh, Asked, Replied
  <2> QED BY <1>11, <2>1, <2>2 DEF Publish, place, turn, IInv, Conducted, Placed, Live, Guarded,
       Effects, Brackets
<1>12. CASE Know
  <2>1. sealed' = sealed /\ Last' = Last /\ got' = got
    BY <1>12 DEF Last, Know, turn, proof
  <2>2. /\ Fresh' = Fresh /\ Asked' = Asked /\ Replied' = Replied
    BY <2>1 DEF Fresh, Asked, Replied
  <2> QED BY <1>12, <2>1, <2>2 DEF Know, turn, proof, IInv, Conducted, Placed, Live, Guarded,
       Effects, Brackets
<1>13. CASE Settle
  <2>1. sealed' = sealed /\ Last' = Last /\ got' = got
    BY <1>13 DEF Last, Settle, turn, proof
  <2>2. /\ Fresh' = Fresh /\ Asked' = Asked /\ Replied' = Replied
    BY <2>1 DEF Fresh, Asked, Replied
  <2> QED BY <1>13, <2>1, <2>2 DEF Settle, Stop, Closed, turn, proof, IInv, Conducted, Placed,
       Live, Guarded, Effects, Brackets
<1>14. CASE Release
  <2>1. sealed' = sealed /\ Last' = Last /\ got' = got
    BY <1>14 DEF Last, Release, turn, proof
  <2>2. /\ Fresh' = Fresh /\ Asked' = Asked /\ Replied' = Replied
    BY <2>1 DEF Fresh, Asked, Replied
  <2> QED BY <1>14, <2>1, <2>2 DEF Release, Stop, Closed, Following, turn, proof, IInv,
       Conducted, Placed, Live, Guarded, Effects, Brackets
<1>15. CASE RaiseReady
  BY <1>15 DEF RaiseReady, Conducted, Live, Guarded
<1>16. CASE RaiseReserved
  BY <1>16 DEF RaiseReserved, Conducted, Live, Guarded
<1>17. CASE RaiseEntered
  BY <1>17 DEF RaiseEntered, Conducted, Live, Guarded
<1>18. CASE RaiseInside
  BY <1>18 DEF RaiseInside, Conducted, Live, Guarded
<1>19. CASE RaiseSettled
  BY <1>19 DEF RaiseSettled, Conducted, Live, Guarded
<1>20. CASE Judge
  BY <1>20 DEF Judge, Conducted, Live, Guarded
<1>21. CASE Send
  BY <1>21 DEF Send, Conducted, Live, Guarded
<1>22. CASE Close
  BY <1>22 DEF Close, Conducted, Live, Guarded
<1>23. CASE Die
  BY <1>23 DEF Die, Conducted, Live, Guarded
<1>24. CASE Tick
  <2>1. sealed' = sealed /\ Last' = Last /\ got' = got
    BY <1>24 DEF Last, Tick, turn, proof
  <2>2. /\ Fresh' = Fresh /\ Asked' = Asked /\ Replied' = Replied
    BY <2>1 DEF Fresh, Asked, Replied
  <2> QED BY <1>24, <2>1, <2>2 DEF Tick, place, turn, proof, IInv, Conducted, Placed, Live,
       Guarded, Effects, Brackets
<1>25. CASE Drift
  <2>1. sealed' = sealed /\ Last' = Last /\ got' = got
    BY <1>25 DEF Last, Drift, turn, proof
  <2>2. /\ Fresh' = Fresh /\ Asked' = Asked /\ Replied' = Replied
    BY <2>1 DEF Fresh, Asked, Replied
  <2> QED BY <1>25, <2>1, <2>2 DEF Drift, place, turn, proof, IInv, Conducted, Placed, Live,
       Guarded, Effects, Brackets
<1>26. CASE UNCHANGED vars BY <1>26 DEF vars, IInv, Conducted, Placed, Live, Guarded, Effects,
     Brackets, Fresh, Asked, Replied, Last
<1> QED BY Cases, <1>1, <1>2, <1>3, <1>4, <1>5, <1>6, <1>7, <1>8, <1>9, <1>10, <1>11, <1>12,
     <1>13, <1>14, <1>15, <1>16, <1>17, <1>18, <1>19, <1>20, <1>21, <1>22, <1>23, <1>24, <1>25,
     <1>26


(* The RESULT stays as earned. *)
LEMMA PromisedStep ==
  ASSUME IInv, [Next]_vars
  PROVE  Promised'
<1>1. CASE Reserve
  <2>1. sealed' = sealed /\ Last' = Last /\ got' = got
    BY <1>1 DEF Last, Reserve, turn, proof
  <2>2. /\ Fresh' = Fresh /\ Asked' = Asked /\ Replied' = Replied
    BY <2>1 DEF Fresh, Asked, Replied
  <2> QED BY <1>1, <2>1, <2>2 DEF Reserve, turn, proof, outcome, IInv, Promised, Placed,
       Guarded, Effects, Brackets
<1>2. CASE Bind
  <2>1. sealed' = sealed /\ Last' = Last /\ got' = got
    BY <1>2 DEF Last, Bind, turn, proof
  <2>2. /\ Fresh' = Fresh /\ Asked' = Asked /\ Replied' = Replied
    BY <2>1 DEF Fresh, Asked, Replied
  <2> QED BY <1>2, <2>1, <2>2 DEF Bind, Following, turn, proof, outcome, IInv, Promised,
       Placed, Guarded, Effects, Brackets
<1>3. CASE Spawn
  <2>1. sealed' = sealed /\ Last' = Last /\ got' = got
    BY <1>3 DEF Last, Spawn, turn, proof
  <2>2. /\ Fresh' = Fresh /\ Asked' = Asked /\ Replied' = Replied
    BY <2>1 DEF Fresh, Asked, Replied
  <2> QED BY <1>3, <2>1, <2>2 DEF Spawn, Following, turn, proof, outcome, IInv, Promised,
       Placed, Guarded, Effects, Brackets
<1>4. CASE Turn
  <2>1. ~intent /\ ~terminal /\ result = NoCand BY <1>4 DEF Turn, IInv, Promised
  <2>2. /\ ~intent' /\ ~terminal' /\ result' = NoCand /\ op' \in {"accept", "seal", "feedback"}
    BY <1>4, <2>1 DEF Turn, proof
  <2> QED BY <2>2 DEF Promised
<1>5. CASE Enter
  <2>1. sealed' = sealed /\ Last' = Last /\ got' = got
    BY <1>5 DEF Last, Enter, turn, proof
  <2>2. /\ Fresh' = Fresh /\ Asked' = Asked /\ Replied' = Replied
    BY <2>1 DEF Fresh, Asked, Replied
  <2> QED BY <1>5, <2>1, <2>2 DEF Enter, turn, proof, outcome, IInv, Promised, Placed, Guarded,
       Effects, Brackets
<1>6. CASE Open
  <2>1. sealed' = sealed /\ Last' = Last /\ got' = got
    BY <1>6 DEF Last, Open, turn, proof
  <2>2. /\ Fresh' = Fresh /\ Asked' = Asked /\ Replied' = Replied
    BY <2>1 DEF Fresh, Asked, Replied
  <2> QED BY <1>6, <2>1, <2>2 DEF Open, turn, proof, outcome, IInv, Promised, Placed, Guarded,
       Effects, Brackets
<1>7. CASE Accept
  <2>1. ~intent /\ ~terminal /\ result = NoCand BY <1>7 DEF Accept, Inside, IInv, Promised
  <2>2. /\ ~intent' /\ ~terminal' /\ result' = NoCand /\ op' \in {"accept", "seal", "feedback"}
    BY <1>7, <2>1 DEF Accept, Inside, proof
  <2> QED BY <2>2 DEF Promised
<1>8. CASE Prove
  <2>1. ~intent /\ ~terminal /\ result = NoCand BY <1>8 DEF Prove, Inside, IInv, Promised
  <2>2. /\ ~intent' /\ ~terminal' /\ result' = NoCand /\ op' \in {"accept", "seal", "feedback"}
    BY <1>8, <2>1 DEF Prove, Inside, proof
  <2> QED BY <2>2 DEF Promised
<1>9. CASE Ask
  <2>1. ~intent /\ ~terminal /\ result = NoCand BY <1>9 DEF Ask, Inside, IInv, Promised
  <2>2. /\ ~intent' /\ ~terminal' /\ result' = NoCand /\ op' \in {"accept", "seal", "feedback"}
    BY <1>9, <2>1 DEF Ask, Inside, proof
  <2> QED BY <2>2 DEF Promised
<1>10. CASE Promise
  <2>1. sealed' = sealed /\ Last' = Last /\ got' = got
    BY <1>10 DEF Last, Promise, Inside, turn
  <2>2. /\ Fresh' = Fresh /\ Asked' = Asked /\ Replied' = Replied
    BY <2>1 DEF Fresh, Asked, Replied
  <2>3. Fresh /\ Last.ok BY <1>10 DEF Promise, Inside, IInv, Conducted, Live, Guarded
  <2> QED BY <1>10, <2>1, <2>2, <2>3 DEF Promise, Inside, place, turn, outcome, IInv, Promised,
       Placed, Guarded, Effects, Brackets
<1>11. CASE Publish
  <2>1. sealed' = sealed /\ Last' = Last /\ got' = got
    BY <1>11 DEF Last, Publish, turn
  <2>2. /\ Fresh' = Fresh /\ Asked' = Asked /\ Replied' = Replied
    BY <2>1 DEF Fresh, Asked, Replied
  <2> QED BY <1>11, <2>1, <2>2 DEF Publish, place, turn, outcome, IInv, Promised, Placed,
       Guarded, Effects, Brackets
<1>12. CASE Know
  <2>1. sealed' = sealed /\ Last' = Last /\ got' = got
    BY <1>12 DEF Last, Know, turn, proof
  <2>2. /\ Fresh' = Fresh /\ Asked' = Asked /\ Replied' = Replied
    BY <2>1 DEF Fresh, Asked, Replied
  <2> QED BY <1>12, <2>1, <2>2 DEF Know, turn, proof, outcome, IInv, Promised, Placed, Guarded,
       Effects, Brackets
<1>13. CASE Settle
  <2>1. sealed' = sealed /\ Last' = Last /\ got' = got
    BY <1>13 DEF Last, Settle, turn, proof
  <2>2. /\ Fresh' = Fresh /\ Asked' = Asked /\ Replied' = Replied
    BY <2>1 DEF Fresh, Asked, Replied
  <2> QED BY <1>13, <2>1, <2>2 DEF Settle, Stop, Closed, turn, proof, outcome, IInv, Promised,
       Placed, Guarded, Effects, Brackets
<1>14. CASE Release
  <2>1. sealed' = sealed /\ Last' = Last /\ got' = got
    BY <1>14 DEF Last, Release, turn, proof
  <2>2. /\ Fresh' = Fresh /\ Asked' = Asked /\ Replied' = Replied
    BY <2>1 DEF Fresh, Asked, Replied
  <2> QED BY <1>14, <2>1, <2>2 DEF Release, Stop, Closed, Following, turn, proof, outcome, IInv,
       Promised, Placed, Guarded, Effects, Brackets
<1>15. CASE RaiseReady
  <2>1. sealed' = sealed /\ Last' = Last /\ got' = got
    BY <1>15 DEF Last, RaiseReady, turn, proof
  <2>2. /\ Fresh' = Fresh /\ Asked' = Asked /\ Replied' = Replied
    BY <2>1 DEF Fresh, Asked, Replied
  <2> QED BY <1>15, <2>1, <2>2 DEF RaiseReady, Stop, Closed, turn, proof, outcome, IInv,
       Promised, Placed, Guarded, Effects, Brackets
<1>16. CASE RaiseReserved
  <2>1. sealed' = sealed /\ Last' = Last /\ got' = got
    BY <1>16 DEF Last, RaiseReserved, turn, proof
  <2>2. /\ Fresh' = Fresh /\ Asked' = Asked /\ Replied' = Replied
    BY <2>1 DEF Fresh, Asked, Replied
  <2> QED BY <1>16, <2>1, <2>2 DEF RaiseReserved, Stop, Closed, turn, proof, outcome, IInv,
       Promised, Placed, Guarded, Effects, Brackets
<1>17. CASE RaiseEntered
  <2>1. sealed' = sealed /\ Last' = Last /\ got' = got
    BY <1>17 DEF Last, RaiseEntered, turn, proof
  <2>2. /\ Fresh' = Fresh /\ Asked' = Asked /\ Replied' = Replied
    BY <2>1 DEF Fresh, Asked, Replied
  <2> QED BY <1>17, <2>1, <2>2 DEF RaiseEntered, Stop, Closed, turn, proof, outcome, IInv,
       Promised, Placed, Guarded, Effects, Brackets
<1>18. CASE RaiseInside
  <2>1. sealed' = sealed /\ Last' = Last /\ got' = got
    BY <1>18 DEF Last, RaiseInside, turn, proof
  <2>2. /\ Fresh' = Fresh /\ Asked' = Asked /\ Replied' = Replied
    BY <2>1 DEF Fresh, Asked, Replied
  <2> QED BY <1>18, <2>1, <2>2 DEF RaiseInside, Stop, Closed, turn, proof, outcome, IInv,
       Promised, Placed, Guarded, Effects, Brackets
<1>19. CASE RaiseSettled
  <2>1. sealed' = sealed /\ Last' = Last /\ got' = got
    BY <1>19 DEF Last, RaiseSettled, turn, proof
  <2>2. /\ Fresh' = Fresh /\ Asked' = Asked /\ Replied' = Replied
    BY <2>1 DEF Fresh, Asked, Replied
  <2> QED BY <1>19, <2>1, <2>2 DEF RaiseSettled, Stop, Closed, turn, proof, outcome, IInv,
       Promised, Placed, Guarded, Effects, Brackets
<1>20. CASE Judge
  <2>1. sealed' = sealed /\ Last' = Last /\ got' = got
    BY <1>20 DEF Last, Judge, turn, proof
  <2>2. /\ Fresh' = Fresh /\ Asked' = Asked /\ Replied' = Replied
    BY <2>1 DEF Fresh, Asked, Replied
  <2> QED BY <1>20, <2>1, <2>2 DEF Judge, turn, proof, IInv, Promised, Placed, Guarded, Effects,
       Brackets
<1>21. CASE Send
  <2>1. sealed' = sealed /\ Last' = Last /\ got' = got
    BY <1>21 DEF Last, Send, turn, proof
  <2>2. /\ Fresh' = Fresh /\ Asked' = Asked /\ Replied' = Replied
    BY <2>1 DEF Fresh, Asked, Replied
  <2> QED BY <1>21, <2>1, <2>2 DEF Send, turn, proof, IInv, Promised, Placed, Guarded, Effects,
       Brackets
<1>22. CASE Close
  <2>1. sealed' = sealed /\ Last' = Last /\ got' = got
    BY <1>22 DEF Last, Close, turn, proof
  <2>2. /\ Fresh' = Fresh /\ Asked' = Asked /\ Replied' = Replied
    BY <2>1 DEF Fresh, Asked, Replied
  <2> QED BY <1>22, <2>1, <2>2 DEF Close, Closed, turn, proof, IInv, Promised, Placed, Guarded,
       Effects, Brackets
<1>23. CASE Die
  <2>1. sealed' = sealed /\ Last' = Last /\ got' = got
    BY <1>23 DEF Last, Die, turn, proof
  <2>2. /\ Fresh' = Fresh /\ Asked' = Asked /\ Replied' = Replied
    BY <2>1 DEF Fresh, Asked, Replied
  <2> QED BY <1>23, <2>1, <2>2 DEF Die, turn, proof, IInv, Promised, Placed, Guarded, Effects,
       Brackets
<1>24. CASE Tick
  <2>1. sealed' = sealed /\ Last' = Last /\ got' = got
    BY <1>24 DEF Last, Tick, turn, proof
  <2>2. /\ Fresh' = Fresh /\ Asked' = Asked /\ Replied' = Replied
    BY <2>1 DEF Fresh, Asked, Replied
  <2> QED BY <1>24, <2>1, <2>2 DEF Tick, place, turn, proof, outcome, IInv, Promised, Placed,
       Guarded, Effects, Brackets
<1>25. CASE Drift
  <2>1. sealed' = sealed /\ Last' = Last /\ got' = got
    BY <1>25 DEF Last, Drift, turn, proof
  <2>2. /\ Fresh' = Fresh /\ Asked' = Asked /\ Replied' = Replied
    BY <2>1 DEF Fresh, Asked, Replied
  <2> QED BY <1>25, <2>1, <2>2 DEF Drift, place, turn, proof, outcome, IInv, Promised, Placed,
       Guarded, Effects, Brackets
<1>26. CASE UNCHANGED vars BY <1>26 DEF vars, IInv, Promised, Placed, Guarded, Effects,
     Brackets, Fresh, Last
<1> QED BY Cases, <1>1, <1>2, <1>3, <1>4, <1>5, <1>6, <1>7, <1>8, <1>9, <1>10, <1>11, <1>12,
     <1>13, <1>14, <1>15, <1>16, <1>17, <1>18, <1>19, <1>20, <1>21, <1>22, <1>23, <1>24, <1>25,
     <1>26


(* A RUN is left with what is known. *)
LEMMA LeftStep ==
  ASSUME IInv, [Next]_vars
  PROVE  Left'
<1>1. CASE Reserve BY <1>1 DEF Reserve, world, turn, account, proof, outcome, IInv, Left,
     TypeOK, Placed, Guarded
<1>2. CASE Bind BY <1>2 DEF Bind, Following, world, turn, account, proof, outcome, IInv, Left,
     TypeOK, Placed, Guarded
<1>3. CASE Spawn BY <1>3 DEF Spawn, Following, world, turn, account, proof, outcome, IInv,
     Left, TypeOK, Placed, Guarded
<1>4. CASE Turn BY <1>4 DEF Turn, turn, account, proof, outcome, IInv, Left, TypeOK, Placed,
     Guarded
<1>5. CASE Enter BY <1>5 DEF Enter, world, turn, proof, outcome, IInv, Left, TypeOK, Placed,
     Guarded
<1>6. CASE Open BY <1>6 DEF Open, world, turn, proof, outcome, IInv, Left, TypeOK, Placed,
     Guarded
<1>7. CASE Accept BY <1>7 DEF Accept, Inside, world, turn, account, outcome, IInv, Left,
     TypeOK, Placed, Guarded
<1>8. CASE Prove BY <1>8 DEF Prove, Inside, world, turn, account, outcome, IInv, Left, TypeOK,
     Placed, Guarded
<1>9. CASE Ask BY <1>9 DEF Ask, Inside, world, turn, account, outcome, IInv, Left, TypeOK,
     Placed, Guarded
<1>10. CASE Promise BY <1>10 DEF Promise, Inside, place, world, turn, account, outcome, IInv,
     Left, TypeOK, Placed, Guarded
<1>11. CASE Publish BY <1>11 DEF Publish, place, world, turn, account, outcome, IInv, Left,
     TypeOK, Placed, Guarded
<1>12. CASE Know BY <1>12 DEF Know, world, turn, account, proof, outcome, IInv, Left, TypeOK
<1>13. CASE Settle BY <1>13 DEF Settle, Stop, Closed, world, turn, proof, outcome, IInv, Left,
     TypeOK
<1>14. CASE Release BY <1>14 DEF Release, Stop, Closed, Following, world, turn, proof, outcome,
     IInv, Left, TypeOK, Placed, Guarded
<1>15. CASE RaiseReady BY <1>15 DEF RaiseReady, Stop, Closed, world, turn, account, proof,
     outcome, IInv, Left, TypeOK, Placed, Guarded
<1>16. CASE RaiseReserved BY <1>16 DEF RaiseReserved, Stop, Closed, world, turn, account,
     proof, outcome, IInv, Left, TypeOK, Placed, Guarded
<1>17. CASE RaiseEntered BY <1>17 DEF RaiseEntered, Stop, Closed, world, turn, account, proof,
     outcome, IInv, Left, TypeOK, Placed, Guarded
<1>18. CASE RaiseInside BY <1>18 DEF RaiseInside, Stop, Closed, world, turn, account, proof,
     outcome, IInv, Left, TypeOK, Placed, Guarded
<1>19. CASE RaiseSettled BY <1>19 DEF RaiseSettled, Stop, Closed, world, turn, account, proof,
     outcome, IInv, Left, TypeOK, Placed, Guarded
<1>20. CASE Judge BY <1>20 DEF Judge, world, turn, account, proof, IInv, Left, TypeOK, Judged,
     Counted
<1>21. CASE Send BY <1>21 DEF Send, world, turn, account, proof, IInv, Left, TypeOK, Placed,
     Guarded
<1>22. CASE Close BY <1>22 DEF Close, Closed, world, turn, account, proof, IInv, Left, TypeOK
<1>23. CASE Die BY <1>23 DEF Die, world, turn, account, proof, IInv, Left, TypeOK, Judged,
     Counted
<1>24. CASE Tick BY <1>24 DEF Tick, place, turn, account, proof, outcome, IInv, Left, TypeOK,
     Placed, Guarded
<1>25. CASE Drift BY <1>25 DEF Drift, place, turn, account, proof, outcome, IInv, Left, TypeOK,
     Placed, Guarded
<1>26. CASE UNCHANGED vars BY <1>26 DEF vars, IInv, Left, TypeOK, Placed, Guarded
<1> QED BY Cases, <1>1, <1>2, <1>3, <1>4, <1>5, <1>6, <1>7, <1>8, <1>9, <1>10, <1>11, <1>12,
     <1>13, <1>14, <1>15, <1>16, <1>17, <1>18, <1>19, <1>20, <1>21, <1>22, <1>23, <1>24, <1>25,
     <1>26

-----------------------------------------------------------------------------
(* The invariant *)

(* An admitted RUN starts in it. *)
LEMMA InitInvariant ==
  ASSUME Init
  PROVE  IInv
<1>1. sealed = <<>> /\ Len(sealed) = 0 /\ sealed \in Seq(Checkpoint) BY DEF Init
<1>2. TypeOK
  <2>1. at \in Places /\ op \in Ops /\ pending \in Effects \cup {"none"}
    BY DEF Init, Places, Guarded, Ops, Brackets, Effects
  <2>2. clock \in 0 .. Wall /\ head \in Commits /\ mark \in 0 .. clock
    BY LimitAssumption DEF Init, Commits
  <2>3. mem \in Counts /\ book \in Counts BY DEF Init, Counts, NoCounts
  <2> QED BY <1>1, <2>1, <2>2, <2>3 DEF Init, TypeOK
<1>3. Placed BY DEF Init, Placed, Guarded, Effects, Brackets
<1>4. Counted BY <1>1, Caps DEF Init, Counted, Answered, NoCounts
<1>5. Chained BY <1>1 DEF Chained
<1>6. Conducted BY <1>1 DEF Init, Conducted
<1>7. Promised /\ Left BY DEF Init, Promised, Left
<1>8. Charged BY DEF Init, Charged, Guarded
<1> QED BY <1>2, <1>3, <1>4, <1>5, <1>6, <1>7, <1>8 DEF IInv

(* The inductive invariant holds in every state of every admitted RUN. *)
THEOREM Invariance == Spec => []IInv
<1>1. Init => IInv BY InitInvariant
<1>2. IInv /\ [Next]_vars => IInv'
  <2> SUFFICES ASSUME IInv, [Next]_vars PROVE IInv' OBVIOUS
  <2> QED BY TypeStep, PlacedStep, CountedStep, ChainedStep, ConductedStep, PromisedStep,
             LeftStep, ChargedStep DEF IInv
<1> QED BY <1>1, <1>2, PTL DEF Spec

(* Every variable of the owner, its records and the RUN keeps its type. *)
THEOREM TypeCorrect == Spec => []TypeOK
<1>1. IInv => TypeOK BY DEF IInv
<1> QED BY <1>1, Invariance, PTL

(* ka01_admission.py charges guarded work, its preparation and its cleanup,
   once: no limit of the admission is overdrawn. *)
THEOREM Balance == Spec => []AccountsBalance
<1>1. IInv => AccountsBalance
  <2> SUFFICES ASSUME IInv PROVE AccountsBalance OBVIOUS
  <2>1. at \in Places /\ spent \in Nat BY DEF IInv, TypeOK
  <2>2. ~stopped /\ at # "dead" => worked = spent + IF at \in Guarded THEN Elapsed ELSE 0
    BY <2>1 DEF Places, IInv, Charged
  <2> QED BY <2>2 DEF AccountsBalance, IInv, Charged, Counted
<1> QED BY <1>1, Invariance, PTL

(* The records an owner leaves cover every checkpoint and receipt it wrote,
   and claim none it did not. *)
THEOREM Coverage == Spec => []RecordsCoverEffects
<1>1. IInv => RecordsCoverEffects
  <2> SUFFICES ASSUME IInv PROVE RecordsCoverEffects OBVIOUS
  <2> DEFINE n == Len(sealed)
  <2>1. n \in Nat /\ DOMAIN sealed = 1 .. n BY DEF IInv, TypeOK
  <2>2. \A k \in 1 .. n : k < n => sealed[k].answer # NoCand BY <2>1 DEF IInv, Chained
  <2>3. n > 0 => sealed # <<>> /\ Last = sealed[n] BY <2>1 DEF Last
  <2>4. Answered = IF n > 0 /\ sealed[n].answer = NoCand THEN n - 1 ELSE n
    <3>1. n = 0 => sealed = <<>> BY DEF IInv, TypeOK
    <3> QED BY <2>1, <2>3, <3>1 DEF Answered
  <2>5. book.cs <= Answered /\ Answered <= book.cr BY DEF IInv, Counted
  <2>6. book.cs \in Nat /\ book.cr \in Nat BY Numbers DEF IInv
  <2> HIDE DEF n
  <2>7. \A k \in 1 .. n : k <= book.cs => sealed[k].answer # NoCand
    BY <2>1, <2>2, <2>4, <2>5, <2>6
  <2>8. \A k \in 1 .. n : sealed[k].answer # NoCand => k <= book.cr
    BY <2>1, <2>2, <2>4, <2>5, <2>6
  <2> QED BY <2>1, <2>7, <2>8 DEF RecordsCoverEffects, IInv, Counted
<1> QED BY <1>1, Invariance, PTL

(* A turn is asked for only while its answer can be accepted and proven. *)
THEOREM Room == Spec => []AnswersHaveRoom
<1>1. IInv => AnswersHaveRoom
  <2> SUFFICES ASSUME IInv, at = "ready", op = "turn", sealed # <<>>
               PROVE  /\ Last.asked /\ Last.answer = NoCand
                      /\ Capacity("accept") /\ mem.kr < CapCheckpoints
    BY DEF AnswersHaveRoom
  <2>1. Asked BY DEF IInv, Conducted, Live
  <2>2. mem.kr = Len(sealed) /\ mem.cr = Answered BY DEF IInv, Counted
  <2>3. Answered = Len(sealed) - 1 BY <2>1 DEF Asked, Answered
  <2>4. Len(sealed) < CapCheckpoints BY <2>1 DEF Asked
  <2> QED BY <2>1, <2>2, <2>3, <2>4, Caps, Numbers DEF Asked, Capacity, IInv
<1> QED BY <1>1, Invariance, PTL

(* A RESULT is the last candidate of an unbroken dialogue, and proven. *)
THEOREM Earned == Spec => []ResultIsEarned
<1>1. IInv => ResultIsEarned
  <2> SUFFICES ASSUME IInv PROVE ResultIsEarned OBVIOUS
  <2>1. Len(sealed) \in Nat /\ DOMAIN sealed = 1 .. Len(sealed) BY DEF IInv, TypeOK
  <2>2. \A k \in DOMAIN sealed : k > 1 =>
          /\ ~sealed[k-1].ok /\ sealed[k-1].asked
          /\ sealed[k-1].answer = sealed[k].cand /\ sealed[k-1].cand < sealed[k].cand
    <3> SUFFICES ASSUME NEW k \in DOMAIN sealed, k > 1
                 PROVE  /\ ~sealed[k-1].ok /\ sealed[k-1].asked
                        /\ sealed[k-1].answer = sealed[k].cand
                        /\ sealed[k-1].cand < sealed[k].cand
      OBVIOUS
    <3>1. k - 1 \in DOMAIN sealed /\ k - 1 < Len(sealed) BY <2>1
    <3>2. sealed[k-1].answer # NoCand BY <3>1 DEF IInv, Chained
    <3> QED BY <3>1, <3>2 DEF IInv, Chained
  <2>3. result # NoCand => sealed # <<>> /\ Last.ok /\ Last.cand = result
    BY DEF IInv, Promised, Fresh
  <2> QED BY <2>2, <2>3 DEF ResultIsEarned
<1> QED BY <1>1, Invariance, PTL

(* persist_failure finds nothing open and nothing promised where it records a
   FAILURE, and nothing becomes so afterwards. *)
THEOREM Unjudged == Spec => []UnknownIsUnjudged
<1>1. IInv => UnknownIsUnjudged BY DEF IInv, UnknownIsUnjudged, Left, Counted, Promised
<1> QED BY <1>1, Invariance, PTL

(* What leaves the RUN as COMPLETED is whole. *)
THEOREM Settled == Spec => []CompletedIsSettled
<1>1. IInv => CompletedIsSettled
  <2> SUFFICES ASSUME IInv, note = "COMPLETED" \/ sent
               PROVE  /\ result # NoCand /\ pending = "none" /\ session # "live"
                      /\ book = mem /\ book.ks = book.kr /\ book.kr = Len(sealed)
                      /\ book.cs = Len(sealed) - 1
    BY DEF CompletedIsSettled
  <2>1. terminal /\ pending = "none" /\ (stopped \/ at = "over") BY DEF IInv, Left
  <2>2. result # NoCand /\ Fresh BY <2>1 DEF IInv, Promised
  <2>3. session # "live" BY <2>1 DEF IInv, Placed
  <2>4. book = mem /\ mem.ks = mem.kr /\ mem.cs = mem.cr /\ mem.kr = Len(sealed)
        /\ mem.cr = Answered
    BY <2>1 DEF IInv, Counted
  <2>5. Answered = Len(sealed) - 1 BY <2>2 DEF Fresh, Answered
  <2> QED BY <2>1, <2>2, <2>3, <2>4, <2>5
<1> QED BY <1>1, Invariance, PTL

-----------------------------------------------------------------------------
(* The dialogue is implemented *)

(* While the owner works, the dialogue is open. *)
LEMMA InsideOpen ==
  ASSUME IInv, at \in {"inside", "raised"}, result = NoCand
  PROVE  Dialogue!Open
BY DEF IInv, Left, Dialogue!Open

(* What leaves checkpoints, RESULT and FAILURE alone is a stutter. *)
LEMMA Stutters ==
  ASSUME UNCHANGED <<sealed, failure, result>>
  PROVE  UNCHANGED Dialogue!vars
BY DEF Dialogue!vars

(* A receipt is the answer. *)
LEMMA AcceptAnswers ==
  ASSUME IInv, Accept
  PROVE  Dialogue!Next
<1>1. at = "inside" /\ op = "accept" /\ \A k \in DOMAIN sealed : sealed[k].cand # got
  BY DEF Accept, Inside, Fits, Candidate
<1>2. result = NoCand BY <1>1 DEF IInv, Promised
<1>3. Dialogue!Open BY <1>1, <1>2, InsideOpen
<1>4. UNCHANGED <<failure, result>> BY DEF Accept, outcome
<1>5. Dialogue!Answer(got)
  BY <1>1, <1>3, <1>4, AcceptFacts DEF Dialogue!Answer, Dialogue!Final, Last
<1> QED BY <1>5, AcceptFacts DEF Dialogue!Next

(* A checkpoint is the proof of it. *)
LEMMA ProveProves ==
  ASSUME IInv, Prove
  PROVE  Dialogue!Next
<1>1. at = "inside" /\ op = "seal" BY DEF Prove, Inside
<1>2. result = NoCand BY <1>1 DEF IInv, Promised
<1>3. Dialogue!Open BY <1>1, <1>2, InsideOpen
<1>4. UNCHANGED <<failure, result>> BY DEF Prove, proof, outcome
<1>5. Len(sealed) < CapCheckpoints
  BY <1>1, Numbers, Caps DEF IInv, Counted, Due, Plus
<1>6. sealed # <<>> => ~Last.ok /\ Last.answer = got
  <2> SUFFICES ASSUME sealed # <<>> PROVE ~Last.ok /\ Last.answer = got OBVIOUS
  <2>1. Last.answer = got /\ got # NoCand
    BY ProveFacts, LimitAssumption DEF Replied, Commits
  <2>2. Len(sealed) \in DOMAIN sealed BY LastFacts DEF IInv
  <2> QED BY <2>1, <2>2 DEF IInv, Chained, Last
<1>7. Dialogue!Prove(got)
  BY <1>3, <1>4, <1>5, <1>6, ProveFacts DEF Dialogue!Prove, Dialogue!Final, Last
<1> QED BY <1>7, ProveFacts DEF Dialogue!Next

(* Feedback asks. *)
LEMMA AskAsks ==
  ASSUME IInv, Ask
  PROVE  Dialogue!Next
<1>1. at = "inside" /\ op = "feedback" BY DEF Ask, Inside
<1>2. result = NoCand BY <1>1 DEF IInv, Promised
<1>3. Dialogue!Open BY <1>1, <1>2, InsideOpen
<1>4. UNCHANGED <<failure, result>> BY DEF Ask, outcome
<1>5. Dialogue!Ask
  BY <1>3, <1>4, AskFacts DEF Dialogue!Ask, Dialogue!Final, Fresh, Last
<1> QED BY <1>5 DEF Dialogue!Next

(* The RESULT concludes. *)
LEMMA PublishConcludes ==
  ASSUME IInv, Publish
  PROVE  Dialogue!Next
<1>1. at = "inside" /\ intent /\ result = NoCand BY DEF Publish
<1>2. Dialogue!Open BY <1>1, InsideOpen
<1>3. Fresh /\ Last.ok BY <1>1 DEF IInv, Promised
<1>4. UNCHANGED <<failure, sealed>> /\ result' = Last.cand /\ ~failure
  BY <1>1, <1>3 DEF Publish, outcome, Fresh, IInv, Left
<1>5. result' # NoCand BY <1>3, <1>4, LastFacts, LimitAssumption DEF IInv, Fresh, Checkpoint, Commits
<1>6. Dialogue!Conclude
  BY <1>2, <1>3, <1>4, <1>5 DEF Dialogue!Conclude, Dialogue!Final, Fresh, Last
<1> QED BY <1>6 DEF Dialogue!Next

(* A FAILURE fails it, where nothing else was reached. *)
LEMMA FailureFails ==
  ASSUME IInv, at = "raised", ~Judged, failure', UNCHANGED <<sealed, result>>
  PROVE  Dialogue!Next
<1>1. Dialogue!Open BY InsideOpen DEF Judged
<1>2. Dialogue!Fail BY <1>1 DEF Dialogue!Fail
<1> QED BY <1>2 DEF Dialogue!Next

(* Every step of the owner, of its faults and of its budget is a step of the
   dialogue or none. *)
LEMMA StepRefines ==
  ASSUME IInv, [Next]_vars
  PROVE  [Dialogue!Next]_(Dialogue!vars)
<1>1. CASE Reserve BY <1>1, Stutters DEF Reserve, proof, outcome
<1>2. CASE Bind BY <1>2, Stutters DEF Bind, proof, outcome
<1>3. CASE Spawn BY <1>3, Stutters DEF Spawn, proof, outcome
<1>4. CASE Turn BY <1>4, Stutters DEF Turn, proof, outcome
<1>5. CASE Enter BY <1>5, Stutters DEF Enter, proof, outcome
<1>6. CASE Open BY <1>6, Stutters DEF Open, proof, outcome
<1>7. CASE Accept BY <1>7, AcceptAnswers
<1>8. CASE Prove BY <1>8, ProveProves
<1>9. CASE Ask BY <1>9, AskAsks
<1>10. CASE Promise BY <1>10, Stutters DEF Promise, Inside, outcome
<1>11. CASE Publish BY <1>11, PublishConcludes
<1>12. CASE Know BY <1>12, Stutters DEF Know, proof, outcome
<1>13. CASE Settle BY <1>13, Stutters DEF Settle, proof, outcome
<1>14. CASE Release BY <1>14, Stutters DEF Release, proof, outcome
<1>15. CASE RaiseReady BY <1>15, Stutters DEF RaiseReady, proof, outcome
<1>16. CASE RaiseReserved BY <1>16, Stutters DEF RaiseReserved, proof, outcome
<1>17. CASE RaiseEntered BY <1>17, Stutters DEF RaiseEntered, proof, outcome
<1>18. CASE RaiseInside BY <1>18, Stutters DEF RaiseInside, proof, outcome
<1>19. CASE RaiseSettled BY <1>19, Stutters DEF RaiseSettled, proof, outcome
<1>20. CASE Judge
  <2>1. CASE failure' = failure
    BY <1>20, <2>1, Stutters DEF Judge, proof
  <2>2. CASE failure' # failure
    BY <1>20, <2>2, FailureFails DEF Judge, proof, Judged, IInv, TypeOK
  <2> QED BY <2>1, <2>2
<1>21. CASE Send BY <1>21, Stutters DEF Send, proof
<1>22. CASE Close BY <1>22, Stutters DEF Close, proof
<1>23. CASE Die
  <2>1. CASE failure' = failure
    BY <1>23, <2>1, Stutters DEF Die, proof
  <2>2. CASE failure' # failure
    BY <1>23, <2>2, FailureFails DEF Die, proof, Judged, IInv, TypeOK
  <2> QED BY <2>1, <2>2
<1>24. CASE Tick BY <1>24, Stutters DEF Tick, proof, outcome
<1>25. CASE Drift BY <1>25, Stutters DEF Drift, proof, outcome
<1>26. CASE UNCHANGED vars BY <1>26, Stutters DEF vars
<1> QED BY Cases, <1>1, <1>2, <1>3, <1>4, <1>5, <1>6, <1>7, <1>8, <1>9, <1>10, <1>11, <1>12,
     <1>13, <1>14, <1>15, <1>16, <1>17, <1>18, <1>19, <1>20, <1>21, <1>22, <1>23, <1>24, <1>25,
     <1>26

(* The owner, its faults and its budget conduct the dialogue: at most as many
   proofs as the admission allows, each of an answer, and one outcome. *)
THEOREM Refinement == Spec => ImplementsDialogue
<1>1. Init => Dialogue!Init BY DEF Init, Dialogue!Init
<1>2. IInv /\ [Next]_vars => [Dialogue!Next]_(Dialogue!vars) BY StepRefines
<1> QED BY <1>1, <1>2, Invariance, PTL DEF Spec, ImplementsDialogue, Dialogue!Spec

=============================================================================
