-------------------------- MODULE RunTerminalProofs --------------------------
(* Safety of RunTerminal for every number of owners, candidates, packages,
   checkpoints and faults. *)
EXTENDS RunTerminal, TLAPS

-----------------------------------------------------------------------------
(* The inductive invariant, in named parts. *)

Inside == EffectSteps \cup {"record", "recording"}
Waiting == {"ready", "fencing", "fenced"}
SealSteps == {"launch", "executing", "sealing", "confirm"}
ResultSteps == {"write", "writing", "written"}

(* Whoever is in an effect made the fence. *)
Fenced == \A p \in Owners : pc[p] \in Inside => fence = p

(* Each step belongs to its operation. *)
Busy ==
  \A p \in Owners :
    /\ pc[p] \in {"idle", "dead"} <=> op[p].kind = "none"
    /\ pc[p] = "ready" => op[p].kind \in {"seal", "feedback", "complete"}
    /\ pc[p] \in SealSteps => op[p].kind = "seal"
    /\ pc[p] \in {"prepare", "preparing"} => op[p].kind = "feedback"
    /\ pc[p] \in {"intend", "intending"} => op[p].kind = "complete"
    /\ pc[p] = "verify" => op[p].kind = "legacy"
    /\ pc[p] \in ResultSteps => op[p].kind \in {"complete", "legacy"}
    /\ pc[p] \in {"record", "recording"} => op[p].kind = "fail"
    /\ op[p].kind = "legacy" => p = Main /\ out[p].kind = "none" /\ op[p].package \in Packages
    /\ op[p].kind \in {"seal", "feedback", "complete"} => p # Main
    /\ op[p].kind = "complete" => op[p].package \in Packages
    /\ op[p].kind = "seal" => op[p].cand \in Candidates

(* The store directory is there before anything of a checkpoint is. *)
Stored ==
  /\ captures > 0 \/ Exists(intent.file) => prospective
  /\ \A p \in Owners :
       op[p].kind \in {"seal", "feedback", "complete"} /\ pc[p] # "ready" => prospective

(* What an owner found by looking still holds of what it looked at: the
   chain of checkpoints only grows. *)
Looked ==
  \A p \in Owners : pc[p] \in Waiting =>
    /\ op[p].kind = "seal" =>
         /\ op[p].ordinal = Len(view[p]) + 1
         /\ \A k \in 1..Len(view[p]) : view[p][k].cand # op[p].cand
    /\ op[p].kind = "complete" =>
         op[p].ordinal \in 1..Len(seals) /\ seals[op[p].ordinal].ok
    /\ op[p].kind = "feedback" =>
         op[p].ordinal \in 1..Len(seals) /\ ~seals[op[p].ordinal].ok

(* The chain: one capture and one complete checkpoint per ordinal, but for
   the last, which an owner may be writing. *)
Chained ==
  /\ captures \in {Len(seals), Len(seals) + 1}
  /\ \A k \in 1..Len(seals) : k < Len(seals) => seals[k].file = "whole"
  /\ \A j, k \in 1..Len(seals) : j # k => seals[j].cand # seals[k].cand

(* What holds in the middle of sealing a checkpoint. *)
Sealing ==
  \A p \in Owners :
    /\ pc[p] \in SealSteps => Bound
    /\ pc[p] \in {"launch", "executing"} =>
         /\ op[p].ordinal = Len(seals) + 1
         /\ \A k \in 1..Len(seals) : seals[k].file = "whole" /\ seals[k].cand # op[p].cand
    /\ pc[p] = "launch" => captures = Len(seals)
    /\ pc[p] = "executing" => captures = Len(seals) + 1
    /\ pc[p] \in {"sealing", "confirm"} => captures = Len(seals) /\ Len(seals) > 0
    /\ pc[p] \in {"prepare", "preparing"} =>
         /\ Bound /\ op[p].ordinal \in 1..Len(seals) /\ ~seals[op[p].ordinal].ok

(* What holds in the middle of a completion with a checkpoint ... *)
Completing ==
  \A p \in Owners : op[p].kind = "complete" =>
    /\ pc[p] = "intend" => Bound /\ FinalSeal(op[p].ordinal) /\ seals[op[p].ordinal].ok
    /\ pc[p] \in {"intending", "write"} => ~Exists(failure) /\ ~Exists(result.file)
    /\ pc[p] \in {"intending"} \cup ResultSteps =>
         Exists(intent.file) /\ intent.package = op[p].package
    /\ pc[p] \in ResultSteps => intent.file = "whole" /\ ~Exists(failure)

(* ... and of one without. *)
Unsealed ==
  /\ unaccounted => captures = 0
  /\ \A p \in Owners : op[p].kind = "legacy" =>
       /\ Exists(failure) => prospective
       /\ Exists(result.file) /\ pc[p] \notin {"writing", "written"} => prospective
       /\ pc[p] \in {"verify", "write"} => ~Exists(result.file)
       /\ pc[p] \in {"verify"} \cup ResultSteps =>
            captures = 0 /\ ~Exists(intent.file) /\ ~Exists(failure)
       /\ pc[p] \in ResultSteps => unaccounted

(* The RESULT while it is written, and what it rests on. *)
Resulting ==
  /\ \A p \in Owners :
       /\ pc[p] \in {"writing", "written"} => Exists(result.file) /\ result.package = op[p].package
       /\ pc[p] = "written" => result.file = "whole"
  /\ Exists(intent.file) =>
       /\ intent.ordinal = Len(seals) /\ captures = Len(seals) /\ Len(seals) > 0
       /\ seals[Len(seals)].ok /\ seals[Len(seals)].file = "whole"
  /\ ~Exists(intent.file) => intent.ordinal = 0
  /\ Exists(result.file) =>
       /\ result.ordinal = intent.ordinal
       /\ Exists(intent.file) => intent.file = "whole" /\ result.package = intent.package
       /\ ~Exists(intent.file) => unaccounted
       /\ result.package \in Packages

(* Only the RUN's own process records a FAILURE of a RUN without store, and
   it has then done with its completion. *)
Failing ==
  /\ \A p \in Owners :
       /\ op[p].kind = "fail" /\ ~prospective => p = Main /\ ~Exists(result.file)
       /\ pc[p] = "record" => ~Exists(result.file) /\ ~Exists(intent.file)
       /\ pc[p] = "recording" => Exists(failure)
  /\ Exists(failure) /\ ~prospective =>
       \A p \in Owners : p = Main => out[p].kind # "none" \/ op[p].kind = "fail" \/ pc[p] = "dead"
  /\ Exists(failure) => ~Exists(intent.file)

(* A RUN without store has a RESULT only after its own process opened it. *)
Spent ==
  Exists(result.file) /\ ~prospective =>
    \A p \in Owners : p = Main =>
      \/ out[p].kind # "none" \/ pc[p] = "dead"
      \/ op[p].kind = "legacy" /\ pc[p] \in {"writing", "written"}

IInv ==
  /\ TypeOK /\ Fenced /\ Busy /\ Stored /\ Looked /\ Chained /\ Sealing
  /\ Completing /\ Unsealed /\ Resulting /\ Failing /\ Spent
  /\ OneTerminal /\ CompletedAnswerStands /\ FeedbackOnRefutedSeal

-----------------------------------------------------------------------------
(* Types *)

(* A step of owner p. *)
Step(p) == Operation(p) \/ Effect(p) \/ Break(p) \/ BreakFailure(p) \/ Die(p)

(* The store starts empty, which is well typed. *)
LEMMA TypeInit == Init => TypeOK
<1> SUFFICES ASSUME Init PROVE TypeOK OBVIOUS
<1>1. NoOp \in Op BY CheckpointAssumption DEF NoOp, Ask, Op
<1>2. Say("none") \in Answer BY DEF Say, Answer
<1>3. NoTerminal \in Terminals BY CheckpointAssumption DEF NoTerminal, Terminals, FileState
<1>4. seals \in Seq(Seal) /\ Len(seals) = 0 BY DEF Init
<1>5. view \in [Owners -> Seq(Seal)] BY DEF Init
<1>6. feedback \in [Ordinals -> FileState] /\ failure \in FileState BY DEF Init, FileState
<1>7. pc \in [Owners -> PCs] /\ keep \in [Owners -> BOOLEAN] BY DEF Init, PCs
<1>8. op \in [Owners -> Op] /\ out \in [Owners -> Answer] BY <1>1, <1>2 DEF Init
<1>9. intent \in Terminals /\ result \in Terminals BY <1>3 DEF Init
<1>10. captures \in 0..MaxCheckpoints /\ faults \in 0..MaxFaults BY CheckpointAssumption DEF Init
<1>11. fence \in Owners \cup {NoOwner, Orphan} /\ prospective \in BOOLEAN /\ unaccounted \in BOOLEAN BY DEF Init
<1>12. Len(seals) <= MaxCheckpoints BY <1>4, CheckpointAssumption
<1> QED BY <1>4, <1>5, <1>6, <1>7, <1>8, <1>9, <1>10, <1>11, <1>12 DEF TypeOK

(* What an operation is asked for and what it answers is well typed. *)
LEMMA AskType ==
  ASSUME NEW k \in 0..MaxCheckpoints, NEW c \in Candidates \cup {NoCandidate}, NEW g \in Packages \cup {NoPackage}
  PROVE  /\ \A w \in {"seal", "feedback", "complete", "legacy", "fail"} :
              Ask(w, k, c, g) \in Op
         /\ \A w \in {"none", "refused", "raised", "sealed", "prepared", "recorded"} : Say(w) \in Answer
         /\ Completed(g) \in Answer
BY CheckpointAssumption DEF Ask, Op, Say, Answer, Completed

(* An operation that ends leaves well typed locals. *)
LEMMA EndType ==
  ASSUME TypeOK, NEW p \in Owners, NEW a \in Answer, End(p, a)
  PROVE  /\ pc' \in [Owners -> PCs] /\ op' \in [Owners -> Op] /\ view' \in [Owners -> Seq(Seal)]
         /\ keep' \in [Owners -> BOOLEAN] /\ out' \in [Owners -> Answer]
         /\ pc'[p] = "idle" /\ op'[p] = NoOp /\ out'[p] = a
<1>1. NoOp \in Op BY CheckpointAssumption DEF NoOp, Ask, Op
<1>2. <<>> \in Seq(Seal) OBVIOUS
<1>3. "idle" \in PCs BY DEF PCs
<1> QED BY <1>1, <1>2, <1>3 DEF End, Goto, TypeOK

(* An owner that goes on without ending leaves well typed locals. *)
LEMMA ProceedType ==
  ASSUME TypeOK, NEW p \in Owners, NEW x \in PCs, Proceed(p, x)
  PROVE  /\ pc' \in [Owners -> PCs] /\ op' \in [Owners -> Op] /\ view' \in [Owners -> Seq(Seal)]
         /\ keep' \in [Owners -> BOOLEAN] /\ out' \in [Owners -> Answer] /\ pc'[p] = x
BY DEF Proceed, Goto, TypeOK

(* An attempted operation is well typed. *)
LEMMA AttemptType ==
  ASSUME TypeOK, NEW p \in Owners, NEW x \in PCs, NEW o \in Op, NEW b \in BOOLEAN, Attempt(p, x, o, b)
  PROVE  TypeOK' /\ pc'[p] = x /\ op'[p] = o /\ view'[p] = seals
BY DEF Attempt, Goto, TypeOK, store

(* A reply is well typed. *)
LEMMA ReplyType ==
  ASSUME TypeOK, NEW p \in Owners, NEW a \in Answer, Reply(p, a)
  PROVE  TypeOK'
BY EndType DEF Reply, TypeOK, store

(* Every step keeps the types; the bounds need the chain to be in order. *)
LEMMA TypeStep == ASSUME IInv, NEW p \in Owners, Step(p) PROVE TypeOK'
<1> USE CheckpointAssumption
<1> TypeOK BY DEF IInv
<1>a. \A k \in Ordinals : k \in 0..MaxCheckpoints /\ k \in Nat BY DEF Ordinals
<1>b. ASSUME NEW x \in PCs, Proceed(p, x),
             UNCHANGED <<prospective, unaccounted, captures, seals, feedback, intent, result, failure, faults>>,
             fence' \in Owners \cup {NoOwner, Orphan}
      PROVE  TypeOK'
  BY <1>b, ProceedType DEF TypeOK
<1>c. ASSUME NEW a \in Answer, End(p, a),
             UNCHANGED <<prospective, unaccounted, captures, seals, feedback, intent, result, failure>>,
             faults' \in 0..MaxFaults, fence' \in Owners \cup {NoOwner, Orphan}
      PROVE  TypeOK'
  BY <1>c, EndType DEF TypeOK
<1>d. LeftFence(p) \in Owners \cup {NoOwner, Orphan} /\ NoOwner \in Owners \cup {NoOwner, Orphan}
  BY DEF LeftFence
<1>e. /\ \A w \in {"none", "refused", "raised", "sealed", "prepared", "recorded"} : Say(w) \in Answer
      /\ Completed(op[p].package) \in Answer
  BY AskType DEF TypeOK, Op
<1>f. op[p] \in Op BY DEF TypeOK
<1>g. \A x \in {"ready", "fencing", "fenced", "launch", "executing", "sealing", "confirm", "prepare", "preparing",
                "intend", "intending", "verify", "write", "writing", "written", "record", "recording"} : x \in PCs
  BY DEF PCs, EffectSteps
<1>1. CASE BeginSeal(p)
  BY <1>1, <1>a, AskType, AttemptType, ReplyType DEF BeginSeal, PCs
<1>2. CASE BeginFeedback(p)
  BY <1>2, <1>a, AskType, AttemptType, ReplyType DEF BeginFeedback, PCs
<1>3. CASE BeginComplete(p)
  BY <1>3, <1>a, AskType, AttemptType, ReplyType DEF BeginComplete, PCs
<1>4. CASE BeginLegacy(p)
  <2>1. 0 \in 0..MaxCheckpoints OBVIOUS
  <2> QED BY <1>4, <2>1, <1>g, AskType, AttemptType DEF BeginLegacy
<1>5. CASE BeginFail(p)
  <2>1. 0 \in 0..MaxCheckpoints OBVIOUS
  <2>2. prospective \in BOOLEAN BY DEF TypeOK
  <2> QED BY <1>5, <2>1, <2>2, <1>e, <1>g, AskType, AttemptType, ReplyType DEF BeginFail
<1>6. CASE MakeStore(p)
  BY <1>6, <1>g, ProceedType DEF MakeStore, TypeOK
<1>7. CASE Enter(p)
  BY <1>7, <1>b, <1>c, <1>e, <1>g DEF Enter, store, TypeOK
<1>8. CASE Recheck(p)
  <2>1. op[p].kind # "none" BY <1>8 DEF Recheck, IInv, Busy
  <2>2. FirstWrite(op[p].kind) \in PCs BY <2>1, <1>f, <1>g DEF FirstWrite, Op
  <2> QED BY <1>8, <2>2, <1>b, <1>c, <1>d, <1>e, <1>f DEF Recheck, Leave, Abort, store, TypeOK
<1>9. CASE Launch(p)
  <2>1. captures = Len(seals) /\ op[p].ordinal = Len(seals) + 1 BY <1>9 DEF Launch, IInv, Sealing
  <2>2. captures + 1 \in 0..MaxCheckpoints BY <2>1, <1>f DEF Op
  <2> QED BY <1>9, <2>2, <1>g, ProceedType DEF Launch, TypeOK
<1>10. CASE OpenSeal(p)
  <2>1. op[p].ordinal = Len(seals) + 1 /\ op[p].kind = "seal" /\ op[p].cand \in Candidates
    BY <1>10 DEF OpenSeal, IInv, Sealing, Busy, SealSteps
  <2>2. Len(seals) + 1 <= MaxCheckpoints BY <2>1, <1>f DEF Op
  <2>3. PICK ok \in BOOLEAN : seals' = Append(seals, [cand |-> op[p].cand, ok |-> ok, file |-> "torn"])
    BY <1>10 DEF OpenSeal
  <2>4. [cand |-> op[p].cand, ok |-> ok, file |-> "torn"] \in Seal BY <2>1 DEF Seal
  <2>5. seals' \in Seq(Seal) /\ Len(seals') <= MaxCheckpoints BY <2>2, <2>3, <2>4 DEF TypeOK
  <2> QED BY <1>10, <2>5, <1>g, ProceedType DEF OpenSeal, TypeOK
<1>11. CASE FillSeal(p)
  <2>1. Len(seals) > 0 BY <1>11 DEF FillSeal, IInv, Sealing
  <2>2. seals[Len(seals)] \in Seal /\ Len(seals) \in 1..Len(seals) BY <2>1 DEF TypeOK
  <2>3. [seals[Len(seals)] EXCEPT !.file = "whole"] \in Seal BY <2>2 DEF Seal
  <2>4. seals' = [seals EXCEPT ![Len(seals)] = [seals[Len(seals)] EXCEPT !.file = "whole"]] BY <1>11 DEF FillSeal
  <2>5. seals' \in Seq(Seal) /\ Len(seals') <= MaxCheckpoints BY <2>2, <2>3, <2>4 DEF TypeOK
  <2> QED BY <1>11, <2>5, <1>g, ProceedType DEF FillSeal, TypeOK
<1>12. CASE Confirm(p)
  BY <1>12, <1>c, <1>d, <1>e DEF Confirm, Leave, Abort, store, TypeOK
<1>13. CASE OpenFeedback(p)
  BY <1>13, <1>g, ProceedType DEF OpenFeedback, TypeOK, FileState
<1>14. CASE FillFeedback(p)
  BY <1>14, <1>d, <1>e, EndType DEF FillFeedback, Leave, TypeOK, FileState
<1>15. CASE OpenIntent(p)
  BY <1>15, <1>f, <1>g, ProceedType DEF OpenIntent, TypeOK, FileState, Terminals, Op
<1>16. CASE FillIntent(p)
  BY <1>16, <1>g, ProceedType DEF FillIntent, TypeOK, FileState, Terminals
<1>17. CASE Verify(p)
  BY <1>17, <1>g, ProceedType DEF Verify, TypeOK
<1>18. CASE OpenResult(p)
  BY <1>18, <1>f, <1>g, ProceedType DEF OpenResult, TypeOK, FileState, Terminals, Op
<1>19. CASE FillResult(p)
  BY <1>19, <1>g, ProceedType DEF FillResult, TypeOK, FileState, Terminals
<1>20. CASE Complete(p)
  BY <1>20, <1>c, <1>d, <1>e DEF Complete, Leave, store, TypeOK
<1>21. CASE OpenFailure(p)
  BY <1>21, <1>c, <1>d, <1>e, <1>g, ProceedType DEF OpenFailure, Leave, TypeOK, FileState
<1>22. CASE FillFailure(p)
  BY <1>22, <1>d, <1>e, EndType DEF FillFailure, Leave, TypeOK, FileState
<1>23. CASE Break(p)
  BY <1>23, <1>c, <1>d, <1>e DEF Break, Abort, store, TypeOK
<1>24. CASE BreakFailure(p)
  BY <1>24, <1>c, <1>d, <1>e DEF BreakFailure, store, TypeOK
<1>25. CASE Die(p)
  <2>1. NoOp \in Op /\ "dead" \in PCs /\ <<>> \in Seq(Seal) BY DEF NoOp, Ask, Op, PCs
  <2> QED BY <1>25, <2>1 DEF Die, Goto, store, TypeOK
<1> QED
  BY <1>1, <1>2, <1>3, <1>4, <1>5, <1>6, <1>7, <1>8, <1>9, <1>10, <1>11, <1>12, <1>13, <1>14, <1>15,
     <1>16, <1>17, <1>18, <1>19, <1>20, <1>21, <1>22, <1>23, <1>24, <1>25
  DEF Step, Operation, Effect

-----------------------------------------------------------------------------
(* Steps that write nothing *)

(* What a step of p leaves to the other owners. *)
Others(p) ==
  \A q \in Owners : q # p =>
    /\ pc'[q] = pc[q] /\ op'[q] = op[q] /\ view'[q] = view[q] /\ out'[q] = out[q]

(* Only one owner is in an effect. *)
LEMMA Alone ==
  ASSUME IInv, NEW p \in Owners, pc[p] \in Inside, NEW q \in Owners, q # p
  PROVE  fence = p /\ pc[q] \notin Inside
BY DEF IInv, Fenced

(* An operation may end at any point, as long as its answer is true. *)
LEMMA EndStep ==
  ASSUME IInv, TypeOK', NEW p \in Owners, NEW a \in Answer, End(p, a), UNCHANGED store,
         (fence' = fence) \/ (pc[p] \in Inside),
         a.kind # "none",
         (a.kind = "completed") => (result.file = "whole" /\ result.package = a.package)
  PROVE  IInv'
<1>1. Others(p) /\ pc'[p] = "idle" /\ op'[p].kind = "none" /\ out'[p] = a
  BY DEF Others, End, Goto, IInv, TypeOK, NoOp, Ask
<1>2. UNCHANGED <<prospective, unaccounted, captures, seals, feedback, intent, result, failure>> BY DEF store
<1>3. Fenced'
  BY <1>1, Alone DEF Fenced, Others, IInv, Inside, EffectSteps
<1>4. Busy'
  BY <1>1 DEF Busy, Others, IInv, SealSteps, ResultSteps
<1>5. Stored'
  BY <1>1, <1>2 DEF Stored, Others, IInv, Exists
<1>6. Looked'
  <2> SUFFICES ASSUME NEW q \in Owners, pc'[q] \in Waiting PROVE Looked!(q)'
    BY DEF Looked
  <2>1. q # p BY <1>1 DEF Waiting
  <2>2. pc'[q] = pc[q] /\ op'[q] = op[q] /\ view'[q] = view[q] BY <1>1, <2>1 DEF Others
  <2> QED BY <1>2, <2>2 DEF Looked, IInv
<1>7. Chained'
  BY <1>2 DEF Chained, IInv
<1>8. Sealing'
  BY <1>1, <1>2 DEF Sealing, Others, IInv, SealSteps, Bound, Admitted, Exists
<1>9. Completing'
  BY <1>1, <1>2 DEF Completing, Others, IInv, ResultSteps, Bound, Admitted, Exists, FinalSeal, Readable
<1>10. Unsealed'
  BY <1>1, <1>2 DEF Unsealed, Others, IInv, ResultSteps, Exists
<1>11. Resulting'
  BY <1>1, <1>2 DEF Resulting, Others, IInv, Exists
<1>12. Failing'
  BY <1>1, <1>2 DEF Failing, Others, IInv, Exists
<1>13. OneTerminal' /\ FeedbackOnRefutedSeal'
  BY <1>2 DEF OneTerminal, FeedbackOnRefutedSeal, IInv, Exists
<1>15. Spent'
  BY <1>1, <1>2 DEF Spent, Others, IInv, Exists
<1>14. CompletedAnswerStands'
  BY <1>1, <1>2 DEF CompletedAnswerStands, Others, IInv
<1> QED
  BY <1>3, <1>4, <1>5, <1>6, <1>7, <1>8, <1>9, <1>10, <1>11, <1>12, <1>13, <1>14, <1>15 DEF IInv

(* What may be attempted, and what the look before it established. *)
Attemptable(p, x, o) ==
  /\ \/ /\ x = "ready" /\ p # Main
        /\ o.kind \in {"seal", "feedback", "complete"}
     \/ /\ x = "fencing" /\ p = Main
        /\ o.kind = "legacy" /\ out[p].kind = "none" /\ o.package \in Packages
     \/ /\ x = "fencing" /\ o.kind = "fail"
        /\ prospective \/ (p = Main /\ ~Exists(result.file))
  /\ o.kind = "seal" => o.cand \in Candidates /\ o.ordinal = Len(seals) + 1 /\ Fresh(o.cand)
  /\ o.kind = "complete" =>
       o.package \in Packages /\ o.ordinal \in 1..Len(seals) /\ seals[o.ordinal].ok
  /\ o.kind = "feedback" => o.ordinal \in 1..Len(seals) /\ ~seals[o.ordinal].ok

LEMMA AttemptStep ==
  ASSUME IInv, TypeOK', NEW p \in Owners, pc[p] = "idle",
         NEW x, NEW o \in Op, NEW b, Attempt(p, x, o, b), Attemptable(p, x, o)
  PROVE  IInv'
<1>1. Others(p) /\ pc'[p] = x /\ op'[p] = o /\ view'[p] = seals /\ out' = out
  BY DEF Others, Attempt, Goto, IInv, TypeOK
<1>2. UNCHANGED <<fence, prospective, unaccounted, captures, seals, feedback, intent, result, failure>>
  BY DEF Attempt, store
<1>3. Fenced'
  BY <1>1, <1>2 DEF Fenced, Others, IInv, Inside, EffectSteps, Attemptable
<1>4. Busy'
  BY <1>1 DEF Busy, Others, IInv, SealSteps, ResultSteps, Attemptable
<1>5. Stored'
  BY <1>1, <1>2 DEF Stored, Others, IInv, Exists, Attemptable
<1>6. Looked'
  <2> SUFFICES ASSUME NEW q \in Owners, pc'[q] \in Waiting PROVE Looked!(q)'
    BY DEF Looked
  <2>1. CASE q # p
    <3>1. pc'[q] = pc[q] /\ op'[q] = op[q] /\ view'[q] = view[q] BY <1>1, <2>1 DEF Others
    <3> QED BY <1>2, <3>1 DEF Looked, IInv
  <2>2. CASE q = p
    <3>1. o.kind = "seal" => \A k \in 1..Len(seals) : seals[k].cand # o.cand
      BY DEF Attemptable, Fresh, IInv, TypeOK
    <3> QED BY <1>1, <1>2, <2>2, <3>1 DEF Attemptable
  <2> QED BY <2>1, <2>2
<1>7. Chained'
  BY <1>2 DEF Chained, IInv
<1>8. Sealing'
  BY <1>1, <1>2 DEF Sealing, Others, IInv, SealSteps, Bound, Admitted, Exists, Attemptable
<1>9. Completing'
  BY <1>1, <1>2 DEF Completing, Others, IInv, ResultSteps, Bound, Admitted, Exists, FinalSeal, Readable, Attemptable
<1>10. Unsealed'
  <2>1. o.kind = "legacy" => (Exists(failure) \/ Exists(result.file) => prospective)
    BY DEF Attemptable, IInv, Failing, Spent, Busy
  <2> QED BY <1>1, <1>2, <2>1 DEF Unsealed, Others, IInv, ResultSteps, Exists, Attemptable
<1>11. Resulting'
  BY <1>1, <1>2 DEF Resulting, Others, IInv, Exists, Attemptable
<1>12. Failing'
  <2>1. \A q \in Owners : op'[q].kind = "fail" /\ ~prospective => q = Main /\ ~Exists(result.file)
    BY <1>1 DEF Failing, Others, IInv, Attemptable
  <2>2. \A q \in Owners : /\ pc'[q] = "record" => ~Exists(result.file) /\ ~Exists(intent.file)
                          /\ pc'[q] = "recording" => Exists(failure)
    BY <1>1 DEF Failing, Others, IInv, Attemptable
  <2>3. ASSUME Exists(failure), ~prospective, NEW q \in Owners, q = Main
        PROVE  out'[q].kind # "none" \/ op'[q].kind = "fail" \/ pc'[q] = "dead"
    <3>1. out[q].kind # "none" \/ op[q].kind = "fail" \/ pc[q] = "dead" BY <2>3 DEF Failing, IInv
    <3> QED BY <1>1, <3>1 DEF Others, IInv, Busy
  <2> QED BY <1>2, <2>1, <2>2, <2>3 DEF Failing, IInv, Exists
<1>13. OneTerminal' /\ FeedbackOnRefutedSeal'
  BY <1>2 DEF OneTerminal, FeedbackOnRefutedSeal, IInv, Exists
<1>15. Spent'
  BY <1>1, <1>2 DEF Spent, Others, IInv, Exists
<1>14. CompletedAnswerStands'
  BY <1>1, <1>2 DEF CompletedAnswerStands, IInv
<1> QED
  BY <1>3, <1>4, <1>5, <1>6, <1>7, <1>8, <1>9, <1>10, <1>11, <1>12, <1>13, <1>14, <1>15 DEF IInv

(* The five operations: a reply or an attempt. *)
LEMMA OperationStep == ASSUME IInv, TypeOK', NEW p \in Owners, Operation(p) PROVE IInv'
<1>1. \A w \in {"refused", "sealed", "prepared"} : Say(w) \in Answer /\ Say(w).kind = w
  BY DEF Say, Answer
<1>2. \A g \in Packages : Completed(g) \in Answer /\ Completed(g).kind = "completed" /\ Completed(g).package = g
  BY DEF Completed, Answer
<1>3. \A w \in {"refused", "sealed", "prepared"} : Reply(p, Say(w)) => IInv'
  BY <1>1, EndStep DEF Reply
<1>4. \A k \in Ordinals : FinalSeal(k) => k \in 1..Len(seals)
  BY DEF FinalSeal, Ordinals, IInv, TypeOK
<1>5. CASE BeginSeal(p)
  <2>1. ASSUME NEW k \in Ordinals, NEW c \in Candidates, k = Len(seals) + 1, Fresh(c),
               Attempt(p, "ready", Ask("seal", k, c, NoPackage), TRUE)
        PROVE  IInv'
    <3>1. Ask("seal", k, c, NoPackage) \in Op BY AskType DEF Ordinals
    <3>2. Attemptable(p, "ready", Ask("seal", k, c, NoPackage))
      BY <1>5, <2>1 DEF BeginSeal, Attemptable, Ask
    <3> QED BY <1>5, <2>1, <3>1, <3>2, AttemptStep DEF BeginSeal
  <2> QED BY <1>3, <1>5, <2>1 DEF BeginSeal
<1>6. CASE BeginFeedback(p)
  <2>1. ASSUME NEW k \in Ordinals, FinalSeal(k), ~Satisfied(k),
               Attempt(p, "ready", Ask("feedback", k, NoCandidate, NoPackage), TRUE)
        PROVE  IInv'
    <3>1. Ask("feedback", k, NoCandidate, NoPackage) \in Op BY AskType DEF Ordinals
    <3>2. Attemptable(p, "ready", Ask("feedback", k, NoCandidate, NoPackage))
      BY <1>4, <1>6, <2>1 DEF BeginFeedback, Attemptable, Ask, Satisfied
    <3> QED BY <1>6, <2>1, <3>1, <3>2, AttemptStep DEF BeginFeedback
  <2> QED BY <1>3, <1>6, <2>1 DEF BeginFeedback
<1>7. CASE BeginComplete(p)
  <2>1. ASSUME NEW k \in Ordinals, NEW g \in Packages, FinalSeal(k), Satisfied(k),
               Attempt(p, "ready", Ask("complete", k, NoCandidate, g), TRUE)
        PROVE  IInv'
    <3>1. Ask("complete", k, NoCandidate, g) \in Op BY AskType DEF Ordinals
    <3>2. Attemptable(p, "ready", Ask("complete", k, NoCandidate, g))
      BY <1>4, <1>7, <2>1 DEF BeginComplete, Attemptable, Ask, Satisfied
    <3> QED BY <1>7, <2>1, <3>1, <3>2, AttemptStep DEF BeginComplete
  <2>2. ASSUME NEW k \in Ordinals, NEW g \in Packages, OriginalTerminal(k, g), Reply(p, Completed(g))
        PROVE  IInv'
    BY <1>2, <2>2, EndStep DEF Reply, OriginalTerminal
  <2> QED BY <1>3, <1>7, <2>1, <2>2 DEF BeginComplete
<1>8. CASE BeginLegacy(p)
  <2>1. PICK g \in Packages : Attempt(p, "fencing", Ask("legacy", 0, NoCandidate, g), FALSE)
    BY <1>8 DEF BeginLegacy
  <2>2. Ask("legacy", 0, NoCandidate, g) \in Op BY AskType, CheckpointAssumption
  <2>3. Attemptable(p, "fencing", Ask("legacy", 0, NoCandidate, g))
    BY <1>8 DEF BeginLegacy, Attemptable, Ask
  <2> QED BY <1>8, <2>1, <2>2, <2>3, AttemptStep DEF BeginLegacy
<1>9. CASE BeginFail(p)
  <2>1. Ask("fail", 0, NoCandidate, NoPackage) \in Op BY AskType, CheckpointAssumption
  <2>2. Attemptable(p, "fencing", Ask("fail", 0, NoCandidate, NoPackage))
    BY <1>9 DEF BeginFail, Attemptable, Ask
  <2> QED BY <1>3, <1>9, <2>1, <2>2, AttemptStep DEF BeginFail
<1> QED BY <1>5, <1>6, <1>7, <1>8, <1>9 DEF Operation

(* The store directory appears, or an owner comes one step further, while
   the evidence stays: then everything about the others, and about what the
   owner asked for, still holds. *)
LEMMA MoveStep ==
  ASSUME IInv, TypeOK', NEW p \in Owners, NEW x, Proceed(p, x), pc[p] \in Waiting,
         UNCHANGED <<unaccounted, captures, seals, feedback, intent, result, failure>>,
         (prospective' = prospective) \/ (pc[p] = "ready" /\ x = "fencing" /\ prospective' = TRUE),
         (pc[p] = "ready") => (prospective' = TRUE /\ x = "fencing"),
         (x \in Waiting) \/ (pc[p] = "fenced" /\ Permitted(p) /\ x = FirstWrite(op[p].kind)),
         (fence' = fence) \/ (fence = NoOwner /\ fence' = p),
         (x \in Inside) => (fence' = p),
         x # "ready"
  PROVE  IInv'
<1>1. Others(p) /\ pc'[p] = x /\ UNCHANGED <<op, view, out>>
  BY DEF Others, Proceed, Goto, IInv, TypeOK
<1>a. op[p] \in Op /\ op[p].kind # "none" BY DEF IInv, TypeOK, Busy, Waiting
<1>b. x \notin Waiting =>
        /\ op[p].kind = "seal" => x = "launch"
        /\ op[p].kind = "feedback" => x = "prepare"
        /\ op[p].kind = "complete" => x = "intend"
        /\ op[p].kind = "legacy" => x = "verify"
        /\ op[p].kind = "fail" => x = "record"
  BY DEF FirstWrite
<1>c. x \in Waiting \cup {"launch", "prepare", "intend", "verify", "record"}
  BY <1>a, <1>b DEF Op
<1>d. x \notin Waiting => Permitted(p) /\ prospective' = prospective BY DEF Waiting
<1>2. Fenced'
  BY <1>1, OwnerAssumption DEF Fenced, Others, IInv
<1>3. Busy'
  <2> SUFFICES ASSUME NEW q \in Owners PROVE Busy!(q)' BY DEF Busy
  <2>1. CASE q # p
    <3>1. pc'[q] = pc[q] /\ op'[q] = op[q] /\ out'[q] = out[q] BY <1>1, <2>1 DEF Others
    <3> QED BY <3>1 DEF Busy, IInv
  <2>2. CASE q = p
    <3>1. x \notin {"idle", "dead", "ready"} /\ op'[p] = op[p] /\ out'[p] = out[p]
      BY <1>1, <1>c DEF Waiting
    <3>2. /\ op[p].kind = "legacy" => p = Main /\ out[p].kind = "none" /\ op[p].package \in Packages
          /\ op[p].kind \in {"seal", "feedback", "complete"} => p # Main
          /\ op[p].kind = "complete" => op[p].package \in Packages
          /\ op[p].kind = "seal" => op[p].cand \in Candidates
      BY DEF Busy, IInv
    <3>3. /\ x \in SealSteps => op[p].kind = "seal"
          /\ x \in {"prepare", "preparing"} => op[p].kind = "feedback"
          /\ x \in {"intend", "intending"} => op[p].kind = "complete"
          /\ x = "verify" => op[p].kind = "legacy"
          /\ x \notin ResultSteps
          /\ x \in {"record", "recording"} => op[p].kind = "fail"
      BY <1>a, <1>b, <1>c DEF SealSteps, ResultSteps, Waiting, Op
    <3> QED BY <1>1, <1>a, <2>2, <3>1, <3>2, <3>3
  <2> QED BY <2>1, <2>2
<1>4. Stored'
  BY <1>1, <1>c DEF Stored, Others, IInv, Exists, Waiting
<1>5. Looked'
  <2> SUFFICES ASSUME NEW q \in Owners, pc'[q] \in Waiting PROVE Looked!(q)'
    BY DEF Looked
  <2>1. pc[q] \in Waiting BY <1>1 DEF Others
  <2> QED BY <1>1, <2>1 DEF Looked, IInv
<1>6. Chained'
  BY DEF Chained, IInv
<1>7. Sealing'
  <2>1. x = "launch" => /\ Bound /\ captures = Len(seals) /\ op[p].ordinal = Len(seals) + 1
                        /\ \A k \in 1..Len(seals) : seals[k].file = "whole" /\ seals[k].cand # op[p].cand
    <3> HAVE x = "launch"
    <3>1. op[p].kind = "seal" BY <1>a, <1>b DEF Waiting, Op
    <3>2. Bound /\ Readable /\ seals = view[p] BY <1>d, <3>1 DEF Permitted, Waiting
    <3>3. op[p].ordinal = Len(seals) + 1 /\ \A k \in 1..Len(seals) : seals[k].cand # op[p].cand
      BY <3>1, <3>2 DEF Looked, IInv
    <3>4. captures = Len(seals) /\ \A k \in DOMAIN seals : seals[k].file = "whole" BY <3>2 DEF Readable
    <3>5. DOMAIN seals = 1..Len(seals) BY DEF IInv, TypeOK
    <3> QED BY <3>2, <3>3, <3>4, <3>5
  <2>2. x = "prepare" => Bound /\ op[p].ordinal \in 1..Len(seals) /\ ~seals[op[p].ordinal].ok
    <3> HAVE x = "prepare"
    <3>1. op[p].kind = "feedback" BY <1>a, <1>b DEF Waiting, Op
    <3>2. FinalSeal(op[p].ordinal) BY <1>d, <3>1 DEF Permitted, Waiting
    <3> QED BY <3>1, <3>2 DEF Looked, IInv, FinalSeal
  <2> QED BY <1>1, <1>c, <2>1, <2>2 DEF Sealing, Others, IInv, SealSteps, Bound, Admitted, Exists, Waiting
<1>8. Completing'
  <2>1. x = "intend" => Bound /\ FinalSeal(op[p].ordinal) /\ seals[op[p].ordinal].ok
    <3> HAVE x = "intend"
    <3>1. op[p].kind = "complete" BY <1>a, <1>b DEF Waiting, Op
    <3>2. FinalSeal(op[p].ordinal) BY <1>d, <3>1 DEF Permitted, Waiting
    <3> QED BY <3>1, <3>2 DEF Looked, IInv, FinalSeal
  <2> QED BY <1>1, <1>c, <2>1
    DEF Completing, Others, IInv, ResultSteps, Bound, Admitted, Exists, FinalSeal, Readable, Waiting
<1>9. Unsealed'
  <2>1. x = "verify" =>
          captures = 0 /\ ~Exists(intent.file) /\ ~Exists(failure) /\ ~Exists(result.file)
    <3> HAVE x = "verify"
    <3>1. op[p].kind = "legacy" BY <1>a, <1>b DEF Waiting, Op
    <3>2. ~prospective BY <1>d, <3>1 DEF Permitted, Waiting
    <3>3. captures = 0 /\ ~Exists(intent.file) BY <3>2 DEF Stored, IInv, TypeOK
    <3>4. pc[p] \notin {"writing", "written"} BY DEF Waiting
    <3>5. ~Exists(failure) /\ ~Exists(result.file) BY <3>1, <3>2, <3>4 DEF Unsealed, IInv
    <3> QED BY <3>3, <3>5
  <2> QED BY <1>1, <1>c, <2>1 DEF Unsealed, Others, IInv, ResultSteps, Exists, Waiting
<1>10. Resulting'
  BY <1>1, <1>c DEF Resulting, Others, IInv, Exists, Waiting
<1>11. Failing'
  <2>1. x = "record" => ~Exists(result.file) /\ ~Exists(intent.file)
    <3> HAVE x = "record"
    <3>1. op[p].kind = "fail" BY <1>a, <1>b DEF Waiting, Op
    <3>2. ~(prospective /\ (Exists(result.file) \/ Exists(intent.file))) BY <1>d, <3>1 DEF Permitted, Waiting
    <3> QED BY <3>1, <3>2 DEF Failing, Stored, IInv
  <2>2. \A q \in Owners : op'[q].kind = "fail" /\ ~prospective' => q = Main /\ ~Exists(result'.file)
    BY <1>1 DEF Failing, IInv
  <2>3. \A q \in Owners : /\ pc'[q] = "record" => ~Exists(result.file) /\ ~Exists(intent.file)
                          /\ pc'[q] = "recording" => Exists(failure)
    BY <1>1, <1>c, <2>1 DEF Failing, Others, IInv, Waiting
  <2>4. ASSUME Exists(failure), ~prospective', NEW q \in Owners, q = Main
        PROVE  out'[q].kind # "none" \/ op'[q].kind = "fail" \/ pc'[q] = "dead"
    <3>1. out[q].kind # "none" \/ op[q].kind = "fail" \/ pc[q] = "dead" BY <2>4 DEF Failing, IInv
    <3> QED BY <1>1, <3>1 DEF Others, Waiting
  <2> QED BY <2>2, <2>3, <2>4 DEF Failing, IInv, Exists
<1>12. OneTerminal' /\ FeedbackOnRefutedSeal'
  BY DEF OneTerminal, FeedbackOnRefutedSeal, IInv, Exists
<1>14. Spent'
  BY <1>1, <1>c DEF Spent, Others, IInv, Exists, Waiting
<1>13. CompletedAnswerStands'
  BY <1>1 DEF CompletedAnswerStands, IInv
<1> QED
  BY <1>2, <1>3, <1>4, <1>5, <1>6, <1>7, <1>8, <1>9, <1>10, <1>11, <1>12, <1>13, <1>14 DEF IInv

(* Leaving the fence, in whatever way. *)
LEMMA LeaveStep ==
  ASSUME IInv, TypeOK', NEW p \in Owners, pc[p] \in Inside, UNCHANGED store,
         NEW w \in {"refused", "raised", "sealed", "prepared", "recorded"},
         End(p, Say(w))
  PROVE  IInv'
<1>1. Say(w) \in Answer /\ Say(w).kind # "none" /\ Say(w).kind # "completed" BY DEF Say, Answer
<1> QED BY <1>1, EndStep

(* Taking the fence, looking again under it, and every step that gives it
   back without a file. *)
LEMMA FenceStep ==
  ASSUME IInv, TypeOK', NEW p \in Owners,
         MakeStore(p) \/ Enter(p) \/ Recheck(p) \/ Confirm(p) \/ Complete(p) \/ Break(p) \/ BreakFailure(p)
  PROVE  IInv'
<1>1. CASE MakeStore(p)
  BY <1>1, MoveStep DEF MakeStore, Waiting, Inside, EffectSteps
<1>2. CASE Enter(p)
  <2>1. CASE FenceFree
    BY <1>2, <2>1, MoveStep DEF Enter, FenceFree, Waiting, store
  <2>2. CASE ~FenceFree
    <3>1. \A w \in {"refused", "raised"} :
            Say(w) \in Answer /\ Say(w).kind # "none" /\ Say(w).kind # "completed"
      BY DEF Say, Answer
    <3> QED BY <1>2, <2>2, <3>1, EndStep DEF Enter
  <2> QED BY <2>1, <2>2
<1>3. CASE Recheck(p)
  <2>1. pc[p] = "fenced" /\ pc[p] \in Inside BY <1>3 DEF Recheck, Inside, EffectSteps
  <2>2. CASE Proceed(p, FirstWrite(op[p].kind)) /\ UNCHANGED fence /\ Permitted(p)
    <3>1. op[p] \in Op /\ op[p].kind # "none" BY <2>1 DEF IInv, TypeOK, Busy
    <3>2. FirstWrite(op[p].kind) # "ready" BY <3>1 DEF FirstWrite, Op
    <3>3. fence' = p BY <2>1, <2>2 DEF IInv, Fenced
    <3> QED BY <1>3, <2>1, <2>2, <3>2, <3>3, MoveStep DEF Recheck, Waiting, store
  <2> QED BY <1>3, <2>1, <2>2, LeaveStep DEF Recheck, Leave, Abort
<1>4. CASE Confirm(p)
  BY <1>4, LeaveStep DEF Confirm, Leave, Abort, Inside, EffectSteps
<1>5. CASE Complete(p)
  <2>1. pc[p] = "written" /\ pc[p] \in Inside BY <1>5 DEF Complete, Inside, EffectSteps
  <2>2. result.file = "whole" /\ result.package = op[p].package BY <2>1 DEF IInv, Resulting
  <2>3. op[p].package \in Packages BY <2>1 DEF IInv, Busy, ResultSteps
  <2>4. /\ Completed(op[p].package) \in Answer
        /\ Completed(op[p].package).kind = "completed" /\ Completed(op[p].package).package = op[p].package
    BY <2>3 DEF Completed, Answer
  <2> QED BY <1>5, <2>1, <2>2, <2>4, EndStep DEF Complete, Leave
<1>6. CASE Break(p)
  BY <1>6, LeaveStep DEF Break, Abort, Inside
<1>7. CASE BreakFailure(p)
  BY <1>7, LeaveStep DEF BreakFailure, Inside
<1> QED BY <1>1, <1>2, <1>3, <1>4, <1>5, <1>6, <1>7

(* A death leaves the evidence as it is. *)
LEMMA DieStep == ASSUME IInv, TypeOK', NEW p \in Owners, Die(p) PROVE IInv'
<1>1. Others(p) /\ pc'[p] = "dead" /\ op'[p].kind = "none" /\ out' = out
  BY DEF Die, Others, Goto, IInv, TypeOK, NoOp, Ask
<1>2. UNCHANGED <<prospective, unaccounted, captures, seals, feedback, intent, result, failure>> BY DEF Die, store
<1>3. Fenced'
  BY <1>1 DEF Die, Fenced, Others, IInv, Inside, EffectSteps
<1>4. Busy'
  BY <1>1 DEF Busy, Others, IInv, SealSteps, ResultSteps
<1>5. Stored'
  BY <1>1, <1>2 DEF Stored, Others, IInv, Exists
<1>6. Looked'
  <2> SUFFICES ASSUME NEW q \in Owners, pc'[q] \in Waiting PROVE Looked!(q)'
    BY DEF Looked
  <2>1. q # p BY <1>1 DEF Waiting
  <2>2. pc'[q] = pc[q] /\ op'[q] = op[q] /\ view'[q] = view[q] BY <1>1, <2>1 DEF Others
  <2> QED BY <1>2, <2>2 DEF Looked, IInv
<1>7. Chained'
  BY <1>2 DEF Chained, IInv
<1>8. Sealing'
  BY <1>1, <1>2 DEF Sealing, Others, IInv, SealSteps, Bound, Admitted, Exists
<1>9. Completing'
  BY <1>1, <1>2 DEF Completing, Others, IInv, ResultSteps, Bound, Admitted, Exists, FinalSeal, Readable
<1>10. Unsealed'
  BY <1>1, <1>2 DEF Unsealed, Others, IInv, ResultSteps, Exists
<1>11. Resulting'
  BY <1>1, <1>2 DEF Resulting, Others, IInv, Exists
<1>12. Failing'
  BY <1>1, <1>2 DEF Failing, Others, IInv, Exists
<1>13. OneTerminal' /\ FeedbackOnRefutedSeal'
  BY <1>2 DEF OneTerminal, FeedbackOnRefutedSeal, IInv, Exists
<1>15. Spent'
  BY <1>1, <1>2 DEF Spent, Others, IInv, Exists
<1>14. CompletedAnswerStands'
  BY <1>1, <1>2 DEF CompletedAnswerStands, IInv
<1> QED
  BY <1>3, <1>4, <1>5, <1>6, <1>7, <1>8, <1>9, <1>10, <1>11, <1>12, <1>13, <1>14, <1>15 DEF IInv

-----------------------------------------------------------------------------
(* Steps that write: the owner of the fence is alone in an effect. *)

(* The owner goes to its next step x; the other ones wait or idle. *)
LEMMA WriterStep ==
  ASSUME IInv, TypeOK', NEW p \in Owners, pc[p] \in Inside, NEW x, Proceed(p, x), fence' = fence,
         x \in Inside \ {"fenced"},
         (x \in SealSteps) => (op[p].kind = "seal"),
         (x \in {"prepare", "preparing"}) => (op[p].kind = "feedback"),
         (x \in {"intend", "intending"}) => (op[p].kind = "complete"),
         (x = "verify") => (op[p].kind = "legacy"),
         (x \in ResultSteps) => (op[p].kind \in {"complete", "legacy"}),
         (x \in {"record", "recording"}) => (op[p].kind = "fail")
  PROVE  /\ Fenced' /\ Busy'
         /\ pc'[p] = x /\ UNCHANGED <<op, view, out>>
         /\ \A q \in Owners : q # p => pc'[q] = pc[q] /\ pc[q] \notin Inside
<1>1. Others(p) /\ pc'[p] = x /\ UNCHANGED <<op, view, out>>
  BY DEF Others, Proceed, Goto, IInv, TypeOK
<1>2. \A q \in Owners : q # p => pc'[q] = pc[q] /\ pc[q] \notin Inside
  BY <1>1, Alone DEF Others
<1>3. Fenced'
  BY <1>1, <1>2, Alone DEF Fenced, IInv
<1>4. Busy'
  <2> SUFFICES ASSUME NEW q \in Owners PROVE Busy!(q)' BY DEF Busy
  <2>1. CASE q # p
    <3>1. pc'[q] = pc[q] /\ op'[q] = op[q] /\ out'[q] = out[q] BY <1>1, <2>1 DEF Others
    <3> QED BY <3>1 DEF Busy, IInv
  <2>2. CASE q = p
    <3>1. x \notin {"idle", "dead", "ready"} BY DEF Inside, EffectSteps
    <3>2. op[p].kind # "none" BY DEF Busy, IInv, Inside, EffectSteps
    <3>3. /\ op[p].kind = "legacy" => p = Main /\ out[p].kind = "none" /\ op[p].package \in Packages
          /\ op[p].kind \in {"seal", "feedback", "complete"} => p # Main
          /\ op[p].kind = "complete" => op[p].package \in Packages
          /\ op[p].kind = "seal" => op[p].cand \in Candidates
      BY DEF Busy, IInv
    <3> QED BY <1>1, <2>2, <3>1, <3>2, <3>3
  <2> QED BY <2>1, <2>2
<1> QED BY <1>1, <1>2, <1>3, <1>4

(* What the waiting owners found stays true while the chain only grows. *)
LEMMA LookedKept ==
  ASSUME IInv, NEW p \in Owners, UNCHANGED <<op, view>>, pc'[p] \notin Waiting,
         \A q \in Owners : q # p => pc'[q] = pc[q],
         \A k \in 1..Len(seals) : k \in 1..Len(seals') /\ seals'[k].ok = seals[k].ok
  PROVE  Looked'
<1> SUFFICES ASSUME NEW q \in Owners, pc'[q] \in Waiting PROVE Looked!(q)'
  BY DEF Looked
<1>1. q # p OBVIOUS
<1>2. pc[q] \in Waiting BY <1>1
<1> QED BY <1>2 DEF Looked, IInv

(* A proof execution gets its capture directory. *)
LEMMA LaunchStep == ASSUME IInv, TypeOK', NEW p \in Owners, Launch(p) PROVE IInv'
<1>1. /\ Fenced' /\ Busy' /\ pc[p] = "launch" /\ pc'[p] = "executing" /\ UNCHANGED <<op, view, out>>
      /\ \A q \in Owners : q # p => pc'[q] = pc[q] /\ pc[q] \notin Inside
  BY WriterStep DEF Launch, IInv, Busy, Inside, EffectSteps, SealSteps, ResultSteps
<1>2. captures' = captures + 1 /\ UNCHANGED <<prospective, unaccounted, seals, feedback, intent, result, failure>>
  BY DEF Launch
<1>3. Bound /\ op[p].kind = "seal" /\ prospective /\ captures = Len(seals) /\ Len(seals) \in Nat
  BY <1>1 DEF IInv, Sealing, Busy, Stored, SealSteps, TypeOK
<1>4. Stored'
  BY <1>1, <1>2, <1>3 DEF Stored, IInv, Exists
<1>5. Looked'
  BY <1>1, <1>2, <1>3, LookedKept DEF Waiting
<1>6. Chained'
  BY <1>1, <1>2, <1>3 DEF Chained, IInv
<1>7. Sealing'
  BY <1>1, <1>2, <1>3 DEF Sealing, IInv, SealSteps, Inside, EffectSteps, Bound, Admitted, Exists
<1>8. Completing'
  BY <1>1, <1>2, <1>3 DEF Completing, IInv, ResultSteps, Inside, EffectSteps, Bound, Admitted, Exists, FinalSeal, Readable
<1>9. Unsealed'
  BY <1>1, <1>2, <1>3 DEF Unsealed, IInv, ResultSteps, Inside, EffectSteps, Exists, Bound, Admitted
<1>10. Resulting'
  BY <1>1, <1>2, <1>3 DEF Resulting, IInv, Inside, EffectSteps, Exists, Bound, Admitted
<1>11. Failing'
  BY <1>1, <1>2, <1>3 DEF Failing, IInv, Inside, EffectSteps, Exists, Bound, Admitted
<1>12. Spent'
  BY <1>1, <1>2, <1>3 DEF Spent, IInv, Inside, EffectSteps, Exists, Bound, Admitted
<1>13. OneTerminal' /\ FeedbackOnRefutedSeal' /\ CompletedAnswerStands'
  BY <1>1, <1>2, <1>3 DEF OneTerminal, FeedbackOnRefutedSeal, CompletedAnswerStands, IInv, Exists, Bound, Admitted
<1> QED
  BY <1>1, <1>4, <1>5, <1>6, <1>7, <1>8, <1>9, <1>10, <1>11, <1>12, <1>13 DEF IInv

(* The feedback file appears. *)
LEMMA OpenFeedbackStep == ASSUME IInv, TypeOK', NEW p \in Owners, OpenFeedback(p) PROVE IInv'
<1>1. /\ Fenced' /\ Busy' /\ pc[p] = "prepare" /\ pc'[p] = "preparing" /\ UNCHANGED <<op, view, out>>
      /\ \A q \in Owners : q # p => pc'[q] = pc[q] /\ pc[q] \notin Inside
  BY WriterStep DEF OpenFeedback, IInv, Busy, Inside, EffectSteps, SealSteps, ResultSteps
<1>2. UNCHANGED <<prospective, unaccounted, captures, seals, intent, result, failure>>
  BY DEF OpenFeedback
<1>3. /\ feedback' = [feedback EXCEPT ![op[p].ordinal] = "torn"] /\ feedback \in [Ordinals -> FileState]
      /\ op[p].kind = "feedback" /\ Bound /\ op[p].ordinal \in 1..Len(seals) /\ ~seals[op[p].ordinal].ok
  BY <1>1 DEF OpenFeedback, IInv, Sealing, Busy, TypeOK
<1>4. Stored'
  BY <1>1, <1>2, <1>3 DEF Stored, IInv, Exists
<1>5. Looked'
  BY <1>1, <1>2, <1>3, LookedKept DEF Waiting
<1>6. Chained'
  BY <1>1, <1>2, <1>3 DEF Chained, IInv
<1>7. Sealing'
  BY <1>1, <1>2, <1>3 DEF Sealing, IInv, SealSteps, Inside, EffectSteps, Bound, Admitted, Exists
<1>8. Completing'
  BY <1>1, <1>2, <1>3 DEF Completing, IInv, ResultSteps, Inside, EffectSteps, Bound, Admitted, Exists, FinalSeal, Readable
<1>9. Unsealed'
  BY <1>1, <1>2, <1>3 DEF Unsealed, IInv, ResultSteps, Inside, EffectSteps, Exists, Bound, Admitted
<1>10. Resulting'
  BY <1>1, <1>2, <1>3 DEF Resulting, IInv, Inside, EffectSteps, Exists, Bound, Admitted
<1>11. Failing'
  BY <1>1, <1>2, <1>3 DEF Failing, IInv, Inside, EffectSteps, Exists, Bound, Admitted
<1>12. Spent'
  BY <1>1, <1>2, <1>3 DEF Spent, IInv, Inside, EffectSteps, Exists, Bound, Admitted
<1>13. OneTerminal' /\ FeedbackOnRefutedSeal' /\ CompletedAnswerStands'
  BY <1>1, <1>2, <1>3 DEF OneTerminal, FeedbackOnRefutedSeal, CompletedAnswerStands, IInv, Exists, Bound, Admitted
<1> QED
  BY <1>1, <1>4, <1>5, <1>6, <1>7, <1>8, <1>9, <1>10, <1>11, <1>12, <1>13 DEF IInv

(* The terminal intent appears. *)
LEMMA OpenIntentStep == ASSUME IInv, TypeOK', NEW p \in Owners, OpenIntent(p) PROVE IInv'
<1>1. /\ Fenced' /\ Busy' /\ pc[p] = "intend" /\ pc'[p] = "intending" /\ UNCHANGED <<op, view, out>>
      /\ \A q \in Owners : q # p => pc'[q] = pc[q] /\ pc[q] \notin Inside
  BY WriterStep DEF OpenIntent, IInv, Busy, Inside, EffectSteps, SealSteps, ResultSteps
<1>2. UNCHANGED <<prospective, unaccounted, captures, seals, feedback, result, failure>>
  BY DEF OpenIntent
<1>3. intent'.file = "torn" /\ intent'.ordinal = op[p].ordinal /\ intent'.package = op[p].package
  BY DEF OpenIntent
<1>4. op[p].kind = "complete" /\ prospective /\ Bound /\ FinalSeal(op[p].ordinal) /\ seals[op[p].ordinal].ok
  BY <1>1 DEF IInv, Completing, Busy, Stored
<1>5. /\ op[p].ordinal = Len(seals) /\ captures = Len(seals) /\ Len(seals) \in Nat /\ Len(seals) > 0
      /\ seals[Len(seals)].ok /\ seals[Len(seals)].file = "whole"
  BY <1>4 DEF FinalSeal, Readable, IInv, TypeOK
<1>6. Stored'
  BY <1>1, <1>2, <1>3, <1>4, <1>5 DEF Stored, IInv, Exists
<1>7. Looked'
  BY <1>1, <1>2, <1>3, <1>4, <1>5, LookedKept DEF Waiting
<1>8. Chained'
  BY <1>1, <1>2, <1>3, <1>4, <1>5 DEF Chained, IInv
<1>9. Sealing'
  BY <1>1, <1>2, <1>3, <1>4, <1>5 DEF Sealing, IInv, SealSteps, Inside, EffectSteps, Bound, Admitted, Exists
<1>10. Completing'
  BY <1>1, <1>2, <1>3, <1>4, <1>5 DEF Completing, IInv, ResultSteps, Inside, EffectSteps, Bound, Admitted, Exists, FinalSeal, Readable
<1>11. Unsealed'
  BY <1>1, <1>2, <1>3, <1>4, <1>5 DEF Unsealed, IInv, ResultSteps, Inside, EffectSteps, Exists, Bound, Admitted
<1>12. Resulting'
  BY <1>1, <1>2, <1>3, <1>4, <1>5 DEF Resulting, IInv, Inside, EffectSteps, Exists, Bound, Admitted
<1>13. Failing'
  BY <1>1, <1>2, <1>3, <1>4, <1>5 DEF Failing, IInv, Inside, EffectSteps, Exists, Bound, Admitted
<1>14. Spent'
  BY <1>1, <1>2, <1>3, <1>4, <1>5 DEF Spent, IInv, Inside, EffectSteps, Exists, Bound, Admitted
<1>15. OneTerminal' /\ FeedbackOnRefutedSeal' /\ CompletedAnswerStands'
  BY <1>1, <1>2, <1>3, <1>4, <1>5 DEF OneTerminal, FeedbackOnRefutedSeal, CompletedAnswerStands, IInv, Exists, Bound, Admitted
<1> QED
  BY <1>1, <1>6, <1>7, <1>8, <1>9, <1>10, <1>11, <1>12, <1>13, <1>14, <1>15 DEF IInv

(* The terminal intent is complete. *)
LEMMA FillIntentStep == ASSUME IInv, TypeOK', NEW p \in Owners, FillIntent(p) PROVE IInv'
<1>1. /\ Fenced' /\ Busy' /\ pc[p] = "intending" /\ pc'[p] = "write" /\ UNCHANGED <<op, view, out>>
      /\ \A q \in Owners : q # p => pc'[q] = pc[q] /\ pc[q] \notin Inside
  BY WriterStep DEF FillIntent, IInv, Busy, Inside, EffectSteps, SealSteps, ResultSteps
<1>2. UNCHANGED <<prospective, unaccounted, captures, seals, feedback, result, failure>>
  BY DEF FillIntent
<1>3. intent'.file = "whole" /\ intent'.ordinal = intent.ordinal /\ intent'.package = intent.package
  BY DEF FillIntent, IInv, TypeOK, Terminals
<1>4. op[p].kind = "complete" /\ ~Exists(failure) /\ ~Exists(result.file) /\ Exists(intent.file) /\ intent.package = op[p].package
  BY <1>1 DEF IInv, Completing, Busy, Stored
<1>5. Stored'
  BY <1>1, <1>2, <1>3, <1>4 DEF Stored, IInv, Exists
<1>6. Looked'
  BY <1>1, <1>2, <1>3, <1>4, LookedKept DEF Waiting
<1>7. Chained'
  BY <1>1, <1>2, <1>3, <1>4 DEF Chained, IInv
<1>8. Sealing'
  BY <1>1, <1>2, <1>3, <1>4 DEF Sealing, IInv, SealSteps, Inside, EffectSteps, Bound, Admitted, Exists
<1>9. Completing'
  BY <1>1, <1>2, <1>3, <1>4 DEF Completing, IInv, ResultSteps, Inside, EffectSteps, Bound, Admitted, Exists, FinalSeal, Readable
<1>10. Unsealed'
  BY <1>1, <1>2, <1>3, <1>4 DEF Unsealed, IInv, ResultSteps, Inside, EffectSteps, Exists, Bound, Admitted
<1>11. Resulting'
  BY <1>1, <1>2, <1>3, <1>4 DEF Resulting, IInv, Inside, EffectSteps, Exists, Bound, Admitted
<1>12. Failing'
  BY <1>1, <1>2, <1>3, <1>4 DEF Failing, IInv, Inside, EffectSteps, Exists, Bound, Admitted
<1>13. Spent'
  BY <1>1, <1>2, <1>3, <1>4 DEF Spent, IInv, Inside, EffectSteps, Exists, Bound, Admitted
<1>14. OneTerminal' /\ FeedbackOnRefutedSeal' /\ CompletedAnswerStands'
  BY <1>1, <1>2, <1>3, <1>4 DEF OneTerminal, FeedbackOnRefutedSeal, CompletedAnswerStands, IInv, Exists, Bound, Admitted
<1> QED
  BY <1>1, <1>5, <1>6, <1>7, <1>8, <1>9, <1>10, <1>11, <1>12, <1>13, <1>14 DEF IInv

(* The verification without checkpoints leaves its evidence. *)
LEMMA VerifyStep == ASSUME IInv, TypeOK', NEW p \in Owners, Verify(p) PROVE IInv'
<1>1. /\ Fenced' /\ Busy' /\ pc[p] = "verify" /\ pc'[p] = "write" /\ UNCHANGED <<op, view, out>>
      /\ \A q \in Owners : q # p => pc'[q] = pc[q] /\ pc[q] \notin Inside
  BY WriterStep DEF Verify, IInv, Busy, Inside, EffectSteps, SealSteps, ResultSteps
<1>2. unaccounted' = TRUE /\ UNCHANGED <<prospective, captures, seals, feedback, intent, result, failure>>
  BY DEF Verify
<1>3. op[p].kind = "legacy" /\ captures = 0 /\ ~Exists(intent.file) /\ ~Exists(failure) /\ ~Exists(result.file)
  BY <1>1 DEF IInv, Unsealed, Busy
<1>4. Stored'
  BY <1>1, <1>2, <1>3 DEF Stored, IInv, Exists
<1>5. Looked'
  BY <1>1, <1>2, <1>3, LookedKept DEF Waiting
<1>6. Chained'
  BY <1>1, <1>2, <1>3 DEF Chained, IInv
<1>7. Sealing'
  BY <1>1, <1>2, <1>3 DEF Sealing, IInv, SealSteps, Inside, EffectSteps, Bound, Admitted, Exists
<1>8. Completing'
  BY <1>1, <1>2, <1>3 DEF Completing, IInv, ResultSteps, Inside, EffectSteps, Bound, Admitted, Exists, FinalSeal, Readable
<1>9. Unsealed'
  BY <1>1, <1>2, <1>3 DEF Unsealed, IInv, ResultSteps, Inside, EffectSteps, Exists, Bound, Admitted
<1>10. Resulting'
  BY <1>1, <1>2, <1>3 DEF Resulting, IInv, Inside, EffectSteps, Exists, Bound, Admitted
<1>11. Failing'
  BY <1>1, <1>2, <1>3 DEF Failing, IInv, Inside, EffectSteps, Exists, Bound, Admitted
<1>12. Spent'
  BY <1>1, <1>2, <1>3 DEF Spent, IInv, Inside, EffectSteps, Exists, Bound, Admitted
<1>13. OneTerminal' /\ FeedbackOnRefutedSeal' /\ CompletedAnswerStands'
  BY <1>1, <1>2, <1>3 DEF OneTerminal, FeedbackOnRefutedSeal, CompletedAnswerStands, IInv, Exists, Bound, Admitted
<1> QED
  BY <1>1, <1>4, <1>5, <1>6, <1>7, <1>8, <1>9, <1>10, <1>11, <1>12, <1>13 DEF IInv

(* The RESULT appears. *)
LEMMA OpenResultStep == ASSUME IInv, TypeOK', NEW p \in Owners, OpenResult(p) PROVE IInv'
<1>1. /\ Fenced' /\ Busy' /\ pc[p] = "write" /\ pc'[p] = "writing" /\ UNCHANGED <<op, view, out>>
      /\ \A q \in Owners : q # p => pc'[q] = pc[q] /\ pc[q] \notin Inside
  BY WriterStep DEF OpenResult, IInv, Busy, Inside, EffectSteps, SealSteps, ResultSteps
<1>2. UNCHANGED <<prospective, unaccounted, captures, seals, feedback, intent, failure>>
  BY DEF OpenResult
<1>3. result'.file = "torn" /\ result'.ordinal = intent.ordinal /\ result'.package = op[p].package
  BY DEF OpenResult
<1>4. /\ op[p].kind \in {"complete", "legacy"} /\ ~Exists(failure) /\ ~Exists(result.file) /\ op[p].package \in Packages
      /\ op[p].kind = "complete" => intent.file = "whole" /\ intent.package = op[p].package /\ prospective
      /\ op[p].kind = "legacy" => ~Exists(intent.file) /\ unaccounted /\ p = Main
  BY <1>1 DEF IInv, Completing, Unsealed, Busy, Stored, ResultSteps, Exists
<1>5. Stored'
  BY <1>1, <1>2, <1>3, <1>4 DEF Stored, IInv, Exists
<1>6. Looked'
  BY <1>1, <1>2, <1>3, <1>4, LookedKept DEF Waiting
<1>7. Chained'
  BY <1>1, <1>2, <1>3, <1>4 DEF Chained, IInv
<1>8. Sealing'
  BY <1>1, <1>2, <1>3, <1>4 DEF Sealing, IInv, SealSteps, Inside, EffectSteps, Bound, Admitted, Exists
<1>9. Completing'
  BY <1>1, <1>2, <1>3, <1>4 DEF Completing, IInv, ResultSteps, Inside, EffectSteps, Bound, Admitted, Exists, FinalSeal, Readable
<1>10. Unsealed'
  BY <1>1, <1>2, <1>3, <1>4 DEF Unsealed, IInv, ResultSteps, Inside, EffectSteps, Exists, Bound, Admitted, Busy
<1>11. Resulting'
  BY <1>1, <1>2, <1>3, <1>4 DEF Resulting, IInv, Inside, EffectSteps, Exists, Bound, Admitted
<1>12. Failing'
  BY <1>1, <1>2, <1>3, <1>4 DEF Failing, IInv, Inside, EffectSteps, Exists, Bound, Admitted
<1>13. Spent'
  BY <1>1, <1>2, <1>3, <1>4 DEF Spent, IInv, Inside, EffectSteps, Exists, Bound, Admitted
<1>14. OneTerminal' /\ FeedbackOnRefutedSeal' /\ CompletedAnswerStands'
  BY <1>1, <1>2, <1>3, <1>4 DEF OneTerminal, FeedbackOnRefutedSeal, CompletedAnswerStands, IInv, Exists, Bound, Admitted
<1> QED
  BY <1>1, <1>5, <1>6, <1>7, <1>8, <1>9, <1>10, <1>11, <1>12, <1>13, <1>14 DEF IInv

(* The RESULT is complete. *)
LEMMA FillResultStep == ASSUME IInv, TypeOK', NEW p \in Owners, FillResult(p) PROVE IInv'
<1>1. /\ Fenced' /\ Busy' /\ pc[p] = "writing" /\ pc'[p] = "written" /\ UNCHANGED <<op, view, out>>
      /\ \A q \in Owners : q # p => pc'[q] = pc[q] /\ pc[q] \notin Inside
  BY WriterStep DEF FillResult, IInv, Busy, Inside, EffectSteps, SealSteps, ResultSteps
<1>2. UNCHANGED <<prospective, unaccounted, captures, seals, feedback, intent, failure>>
  BY DEF FillResult
<1>3. result'.file = "whole" /\ result'.ordinal = result.ordinal /\ result'.package = result.package
  BY DEF FillResult, IInv, TypeOK, Terminals
<1>4. Exists(result.file) /\ result.package = op[p].package /\ op[p].kind \in {"complete", "legacy"}
  BY <1>1 DEF IInv, Resulting, Busy, ResultSteps
<1>5. Stored'
  BY <1>1, <1>2, <1>3, <1>4 DEF Stored, IInv, Exists
<1>6. Looked'
  BY <1>1, <1>2, <1>3, <1>4, LookedKept DEF Waiting
<1>7. Chained'
  BY <1>1, <1>2, <1>3, <1>4 DEF Chained, IInv
<1>8. Sealing'
  BY <1>1, <1>2, <1>3, <1>4 DEF Sealing, IInv, SealSteps, Inside, EffectSteps, Bound, Admitted, Exists
<1>9. Completing'
  BY <1>1, <1>2, <1>3, <1>4 DEF Completing, IInv, ResultSteps, Inside, EffectSteps, Bound, Admitted, Exists, FinalSeal, Readable
<1>10. Unsealed'
  BY <1>1, <1>2, <1>3, <1>4 DEF Unsealed, IInv, ResultSteps, Inside, EffectSteps, Exists, Bound, Admitted
<1>11. Resulting'
  BY <1>1, <1>2, <1>3, <1>4 DEF Resulting, IInv, Inside, EffectSteps, Exists, Bound, Admitted
<1>12. Failing'
  BY <1>1, <1>2, <1>3, <1>4 DEF Failing, IInv, Inside, EffectSteps, Exists, Bound, Admitted
<1>13. Spent'
  BY <1>1, <1>2, <1>3, <1>4 DEF Spent, IInv, Inside, EffectSteps, Exists, Bound, Admitted
<1>14. OneTerminal' /\ FeedbackOnRefutedSeal' /\ CompletedAnswerStands'
  BY <1>1, <1>2, <1>3, <1>4 DEF OneTerminal, FeedbackOnRefutedSeal, CompletedAnswerStands, IInv, Exists, Bound, Admitted
<1> QED
  BY <1>1, <1>5, <1>6, <1>7, <1>8, <1>9, <1>10, <1>11, <1>12, <1>13, <1>14 DEF IInv

(* The owner ends with its last file, and leaves the fence. *)
LEMMA WriterEnds ==
  ASSUME IInv, TypeOK', NEW p \in Owners, pc[p] \in Inside, UNCHANGED seals,
         NEW w \in {"prepared", "recorded"}, End(p, Say(w))
  PROVE  /\ Fenced' /\ Busy' /\ Looked'
         /\ pc'[p] = "idle" /\ op'[p].kind = "none" /\ out'[p].kind = w
         /\ \A q \in Owners : q # p => /\ pc'[q] = pc[q] /\ op'[q] = op[q] /\ out'[q] = out[q]
                                       /\ pc[q] \notin Inside
<1>1. Others(p) /\ pc'[p] = "idle" /\ op'[p].kind = "none" /\ out'[p].kind = w
  BY DEF Others, End, Goto, IInv, TypeOK, NoOp, Ask, Say
<1>2. \A q \in Owners : q # p => pc'[q] = pc[q] /\ op'[q] = op[q] /\ out'[q] = out[q] /\ pc[q] \notin Inside
  BY <1>1, Alone DEF Others
<1>3. Fenced'
  BY <1>1, <1>2 DEF Fenced, IInv, Inside, EffectSteps
<1>4. Busy'
  BY <1>1, <1>2 DEF Busy, IInv, SealSteps, ResultSteps
<1>5. Looked'
  <2> SUFFICES ASSUME NEW q \in Owners, pc'[q] \in Waiting PROVE Looked!(q)'
    BY DEF Looked
  <2>1. q # p BY <1>1 DEF Waiting
  <2>2. pc'[q] = pc[q] /\ op'[q] = op[q] /\ view'[q] = view[q] BY <1>1, <2>1 DEF Others
  <2> QED BY <2>2 DEF Looked, IInv
<1> QED BY <1>1, <1>2, <1>3, <1>4, <1>5

(* The feedback is complete. *)
LEMMA FillFeedbackStep == ASSUME IInv, TypeOK', NEW p \in Owners, FillFeedback(p) PROVE IInv'
<1>1. /\ Fenced' /\ Busy' /\ Looked' /\ pc[p] = "preparing"
      /\ pc'[p] = "idle" /\ op'[p].kind = "none" /\ out'[p].kind = "prepared"
      /\ \A q \in Owners : q # p => /\ pc'[q] = pc[q] /\ op'[q] = op[q] /\ out'[q] = out[q]
                                    /\ pc[q] \notin Inside
  BY WriterEnds DEF FillFeedback, Leave, Inside, EffectSteps
<1>2. UNCHANGED <<prospective, unaccounted, captures, seals, intent, result, failure>>
  BY DEF FillFeedback
<1>3. /\ feedback' = [feedback EXCEPT ![op[p].ordinal] = "whole"] /\ feedback \in [Ordinals -> FileState]
      /\ op[p].kind = "feedback" /\ Bound /\ op[p].ordinal \in 1..Len(seals) /\ ~seals[op[p].ordinal].ok
  BY <1>1 DEF FillFeedback, IInv, Sealing, Busy, TypeOK
<1>4. Stored'
  BY <1>1, <1>2, <1>3 DEF Stored, IInv, Exists
<1>5. Looked'
  BY <1>1
<1>6. Chained'
  BY <1>1, <1>2, <1>3 DEF Chained, IInv
<1>7. Sealing'
  BY <1>1, <1>2, <1>3 DEF Sealing, IInv, SealSteps, Inside, EffectSteps, Bound, Admitted, Exists
<1>8. Completing'
  BY <1>1, <1>2, <1>3 DEF Completing, IInv, ResultSteps, Inside, EffectSteps, Bound, Admitted, Exists, FinalSeal, Readable
<1>9. Unsealed'
  BY <1>1, <1>2, <1>3 DEF Unsealed, IInv, ResultSteps, Inside, EffectSteps, Exists, Bound, Admitted
<1>10. Resulting'
  BY <1>1, <1>2, <1>3 DEF Resulting, IInv, Inside, EffectSteps, Exists, Bound, Admitted
<1>11. Failing'
  BY <1>1, <1>2, <1>3 DEF Failing, IInv, Inside, EffectSteps, Exists, Bound, Admitted
<1>12. Spent'
  BY <1>1, <1>2, <1>3 DEF Spent, IInv, Inside, EffectSteps, Exists, Bound, Admitted
<1>13. OneTerminal' /\ FeedbackOnRefutedSeal' /\ CompletedAnswerStands'
  BY <1>1, <1>2, <1>3 DEF OneTerminal, FeedbackOnRefutedSeal, CompletedAnswerStands, IInv, Exists, Bound, Admitted
<1> QED
  BY <1>1, <1>4, <1>5, <1>6, <1>7, <1>8, <1>9, <1>10, <1>11, <1>12, <1>13 DEF IInv

(* The FAILURE is complete. *)
LEMMA FillFailureStep == ASSUME IInv, TypeOK', NEW p \in Owners, FillFailure(p) PROVE IInv'
<1>1. /\ Fenced' /\ Busy' /\ Looked' /\ pc[p] = "recording"
      /\ pc'[p] = "idle" /\ op'[p].kind = "none" /\ out'[p].kind = "recorded"
      /\ \A q \in Owners : q # p => /\ pc'[q] = pc[q] /\ op'[q] = op[q] /\ out'[q] = out[q]
                                    /\ pc[q] \notin Inside
  BY WriterEnds DEF FillFailure, Leave, Inside, EffectSteps
<1>2. failure' = "whole" /\ UNCHANGED <<prospective, unaccounted, captures, seals, feedback, intent, result>>
  BY DEF FillFailure
<1>3. Exists(failure) /\ op[p].kind = "fail" /\ ~Exists(result.file) /\ ~Exists(intent.file)
  BY <1>1 DEF IInv, Failing, Busy, OneTerminal
<1>4. Stored'
  BY <1>1, <1>2, <1>3 DEF Stored, IInv, Exists
<1>5. Looked'
  BY <1>1
<1>6. Chained'
  BY <1>1, <1>2, <1>3 DEF Chained, IInv
<1>7. Sealing'
  BY <1>1, <1>2, <1>3 DEF Sealing, IInv, SealSteps, Inside, EffectSteps, Bound, Admitted, Exists
<1>8. Completing'
  BY <1>1, <1>2, <1>3 DEF Completing, IInv, ResultSteps, Inside, EffectSteps, Bound, Admitted, Exists, FinalSeal, Readable
<1>9. Unsealed'
  BY <1>1, <1>2, <1>3 DEF Unsealed, IInv, ResultSteps, Inside, EffectSteps, Exists, Bound, Admitted
<1>10. Resulting'
  BY <1>1, <1>2, <1>3 DEF Resulting, IInv, Inside, EffectSteps, Exists, Bound, Admitted
<1>11. Failing'
  BY <1>1, <1>2, <1>3 DEF Failing, IInv, Inside, EffectSteps, Exists, Bound, Admitted
<1>12. Spent'
  BY <1>1, <1>2, <1>3 DEF Spent, IInv, Inside, EffectSteps, Exists, Bound, Admitted
<1>13. OneTerminal' /\ FeedbackOnRefutedSeal' /\ CompletedAnswerStands'
  BY <1>1, <1>2, <1>3 DEF OneTerminal, FeedbackOnRefutedSeal, CompletedAnswerStands, IInv, Exists, Bound, Admitted
<1> QED
  BY <1>1, <1>4, <1>5, <1>6, <1>7, <1>8, <1>9, <1>10, <1>11, <1>12, <1>13 DEF IInv

(* The FAILURE appears, or the first one is kept. *)
LEMMA OpenFailureStep == ASSUME IInv, TypeOK', NEW p \in Owners, OpenFailure(p) PROVE IInv'
<1> SUFFICES ASSUME ~Exists(failure) PROVE IInv'
  BY LeaveStep DEF OpenFailure, Leave, store, Inside
<1>1. /\ Fenced' /\ Busy' /\ pc[p] = "record" /\ pc'[p] = "recording" /\ UNCHANGED <<op, view, out>>
      /\ \A q \in Owners : q # p => pc'[q] = pc[q] /\ pc[q] \notin Inside
  BY WriterStep DEF OpenFailure, IInv, Busy, Inside, EffectSteps, SealSteps, ResultSteps
<1>2. failure' = "torn" /\ UNCHANGED <<prospective, unaccounted, captures, seals, feedback, intent, result>>
  BY DEF OpenFailure
<1>3. op[p].kind = "fail" /\ ~Exists(result.file) /\ ~Exists(intent.file) /\ (prospective \/ p = Main)
  BY <1>1 DEF IInv, Failing, Busy
<1>4. Stored'
  BY <1>1, <1>2, <1>3 DEF Stored, IInv, Exists
<1>5. Looked'
  BY <1>1, <1>2, <1>3, LookedKept DEF Waiting
<1>6. Chained'
  BY <1>1, <1>2, <1>3 DEF Chained, IInv
<1>7. Sealing'
  BY <1>1, <1>2, <1>3 DEF Sealing, IInv, SealSteps, Inside, EffectSteps, Bound, Admitted, Exists
<1>8. Completing'
  BY <1>1, <1>2, <1>3 DEF Completing, IInv, ResultSteps, Inside, EffectSteps, Bound, Admitted, Exists, FinalSeal, Readable
<1>9. Unsealed'
  BY <1>1, <1>2, <1>3 DEF Unsealed, IInv, ResultSteps, Inside, EffectSteps, Exists, Bound, Admitted, Busy
<1>10. Resulting'
  BY <1>1, <1>2, <1>3 DEF Resulting, IInv, Inside, EffectSteps, Exists, Bound, Admitted
<1>11. Failing'
  BY <1>1, <1>2, <1>3 DEF Failing, IInv, Inside, EffectSteps, Exists, Bound, Admitted
<1>12. Spent'
  BY <1>1, <1>2, <1>3 DEF Spent, IInv, Inside, EffectSteps, Exists, Bound, Admitted
<1>13. OneTerminal' /\ FeedbackOnRefutedSeal' /\ CompletedAnswerStands'
  BY <1>1, <1>2, <1>3 DEF OneTerminal, FeedbackOnRefutedSeal, CompletedAnswerStands, IInv, Exists, Bound, Admitted
<1> QED
  BY <1>1, <1>4, <1>5, <1>6, <1>7, <1>8, <1>9, <1>10, <1>11, <1>12, <1>13 DEF IInv

(* A checkpoint appears. *)
LEMMA OpenSealStep == ASSUME IInv, TypeOK', NEW p \in Owners, OpenSeal(p) PROVE IInv'
<1>1. /\ Fenced' /\ Busy' /\ pc[p] = "executing" /\ pc'[p] = "sealing" /\ UNCHANGED <<op, view, out>>
      /\ \A q \in Owners : q # p => pc'[q] = pc[q] /\ pc[q] \notin Inside
  BY WriterStep DEF OpenSeal, IInv, Busy, Inside, EffectSteps, SealSteps, ResultSteps
<1>2. UNCHANGED <<prospective, unaccounted, captures, feedback, intent, result, failure>>
  BY DEF OpenSeal
<1>3. Bound /\ op[p].kind = "seal" /\ prospective /\ captures = Len(seals) + 1 /\ Len(seals) \in Nat
      /\ \A k \in 1..Len(seals) : seals[k].file = "whole" /\ seals[k].cand # op[p].cand
  BY <1>1 DEF IInv, Sealing, Busy, Stored, SealSteps, TypeOK
<1>4. /\ Len(seals') = Len(seals) + 1 /\ seals'[Len(seals) + 1].cand = op[p].cand
      /\ \A k \in 1..Len(seals) : k \in 1..Len(seals') /\ seals'[k] = seals[k]
  BY DEF OpenSeal, IInv, TypeOK
<1>5. Stored'
  BY <1>1, <1>2, <1>3, <1>4 DEF Stored, IInv, Exists
<1>6. Looked'
  BY <1>1, <1>2, <1>3, <1>4, LookedKept DEF Waiting
<1>7. Chained'
  BY <1>1, <1>2, <1>3, <1>4 DEF Chained, IInv
<1>8. Sealing'
  BY <1>1, <1>2, <1>3, <1>4 DEF Sealing, IInv, SealSteps, Inside, EffectSteps, Bound, Admitted, Exists
<1>9. Completing'
  BY <1>1, <1>2, <1>3, <1>4 DEF Completing, IInv, ResultSteps, Inside, EffectSteps, Bound, Admitted, Exists, FinalSeal, Readable
<1>10. Unsealed'
  BY <1>1, <1>2, <1>3, <1>4 DEF Unsealed, IInv, ResultSteps, Inside, EffectSteps, Exists, Bound, Admitted
<1>11. Resulting'
  BY <1>1, <1>2, <1>3, <1>4 DEF Resulting, IInv, Inside, EffectSteps, Exists, Bound, Admitted
<1>12. Failing'
  BY <1>1, <1>2, <1>3, <1>4 DEF Failing, IInv, Inside, EffectSteps, Exists, Bound, Admitted
<1>13. Spent'
  BY <1>1, <1>2, <1>3, <1>4 DEF Spent, IInv, Inside, EffectSteps, Exists, Bound, Admitted
<1>14. OneTerminal' /\ FeedbackOnRefutedSeal' /\ CompletedAnswerStands'
  <2>1. FeedbackOnRefutedSeal'
    <3> SUFFICES ASSUME NEW k \in Ordinals, Exists(feedback[k]) PROVE k <= Len(seals') /\ ~seals'[k].ok
      BY <1>2 DEF FeedbackOnRefutedSeal, Exists
    <3>1. k <= Len(seals) /\ ~seals[k].ok BY DEF FeedbackOnRefutedSeal, IInv
    <3>2. k \in 1..Len(seals) BY <1>3, <3>1 DEF Ordinals
    <3> QED BY <1>3, <1>4, <3>1, <3>2
  <2> QED BY <1>1, <1>2, <1>3, <2>1 DEF OneTerminal, CompletedAnswerStands, IInv, Exists
<1> QED
  BY <1>1, <1>5, <1>6, <1>7, <1>8, <1>9, <1>10, <1>11, <1>12, <1>13, <1>14 DEF IInv

(* The checkpoint is complete. *)
LEMMA FillSealStep == ASSUME IInv, TypeOK', NEW p \in Owners, FillSeal(p) PROVE IInv'
<1>1. /\ Fenced' /\ Busy' /\ pc[p] = "sealing" /\ pc'[p] = "confirm" /\ UNCHANGED <<op, view, out>>
      /\ \A q \in Owners : q # p => pc'[q] = pc[q] /\ pc[q] \notin Inside
  BY WriterStep DEF FillSeal, IInv, Busy, Inside, EffectSteps, SealSteps, ResultSteps
<1>2. UNCHANGED <<prospective, unaccounted, captures, feedback, intent, result, failure>>
  BY DEF FillSeal
<1>3. Bound /\ op[p].kind = "seal" /\ prospective /\ captures = Len(seals) /\ Len(seals) \in Nat /\ Len(seals) > 0
  BY <1>1 DEF IInv, Sealing, Busy, Stored, SealSteps, TypeOK
<1>4. Len(seals') = Len(seals)
  BY DEF FillSeal, IInv, TypeOK
<1>5. \A k \in 1..Len(seals) : seals'[k].cand = seals[k].cand /\ seals'[k].ok = seals[k].ok
  BY DEF FillSeal, IInv, TypeOK, Seal
<1>6. \A k \in 1..Len(seals) : k # Len(seals) => seals'[k] = seals[k]
  BY DEF FillSeal, IInv, TypeOK
<1>7. Stored'
  BY <1>1, <1>2, <1>3, <1>4, <1>5, <1>6 DEF Stored, IInv, Exists
<1>8. Looked'
  <2>1. \A k \in 1..Len(seals) : k \in 1..Len(seals') /\ seals'[k].ok = seals[k].ok BY <1>4, <1>5
  <2> QED BY <1>1, <2>1, LookedKept DEF Waiting
<1>9. Chained'
  <2>1. captures' \in {Len(seals'), Len(seals') + 1} BY <1>2, <1>3, <1>4
  <2>2. ASSUME NEW k \in 1..Len(seals'), k < Len(seals') PROVE seals'[k].file = "whole"
    BY <1>3, <1>4, <1>6, <2>2 DEF Chained, IInv
  <2>3. ASSUME NEW j \in 1..Len(seals'), NEW k \in 1..Len(seals'), j # k PROVE seals'[j].cand # seals'[k].cand
    <3>1. seals'[j].cand = seals[j].cand /\ seals'[k].cand = seals[k].cand BY <1>4, <1>5
    <3> QED BY <1>4, <2>3, <3>1 DEF Chained, IInv
  <2> QED BY <2>1, <2>2, <2>3 DEF Chained
<1>10. Sealing'
  BY <1>1, <1>2, <1>3, <1>4, <1>5, <1>6 DEF Sealing, IInv, SealSteps, Inside, EffectSteps, Bound, Admitted, Exists
<1>11. Completing'
  BY <1>1, <1>2, <1>3, <1>4, <1>5, <1>6 DEF Completing, IInv, ResultSteps, Inside, EffectSteps, Bound, Admitted, Exists, FinalSeal, Readable
<1>12. Unsealed'
  BY <1>1, <1>2, <1>3, <1>4, <1>5, <1>6 DEF Unsealed, IInv, ResultSteps, Inside, EffectSteps, Exists, Bound, Admitted
<1>13. Resulting'
  BY <1>1, <1>2, <1>3, <1>4, <1>5, <1>6 DEF Resulting, IInv, Inside, EffectSteps, Exists, Bound, Admitted
<1>14. Failing'
  BY <1>1, <1>2, <1>3, <1>4, <1>5, <1>6 DEF Failing, IInv, Inside, EffectSteps, Exists, Bound, Admitted
<1>15. Spent'
  BY <1>1, <1>2, <1>3, <1>4, <1>5, <1>6 DEF Spent, IInv, Inside, EffectSteps, Exists, Bound, Admitted
<1>16. OneTerminal' /\ FeedbackOnRefutedSeal' /\ CompletedAnswerStands'
  <2>1. FeedbackOnRefutedSeal'
    <3> SUFFICES ASSUME NEW k \in Ordinals, Exists(feedback[k]) PROVE k <= Len(seals') /\ ~seals'[k].ok
      BY <1>2 DEF FeedbackOnRefutedSeal, Exists
    <3>1. k <= Len(seals) /\ ~seals[k].ok BY DEF FeedbackOnRefutedSeal, IInv
    <3>2. k \in 1..Len(seals) BY <1>3, <3>1 DEF Ordinals
    <3> QED BY <1>3, <1>4, <1>5, <3>1, <3>2
  <2> QED BY <1>1, <1>2, <1>3, <2>1 DEF OneTerminal, CompletedAnswerStands, IInv, Exists
<1> QED
  BY <1>1, <1>7, <1>8, <1>9, <1>10, <1>11, <1>12, <1>13, <1>14, <1>15, <1>16 DEF IInv

-----------------------------------------------------------------------------
(* The invariant *)

LEMMA InvariantInit == Init => IInv
<1> SUFFICES ASSUME Init PROVE IInv OBVIOUS
<1>1. TypeOK BY TypeInit
<1>2. /\ seals = <<>> /\ Len(seals) = 0 /\ captures = 0 /\ prospective = FALSE /\ unaccounted = FALSE
      /\ failure = "absent" /\ intent = NoTerminal /\ result = NoTerminal
      /\ feedback = [k \in Ordinals |-> "absent"]
      /\ intent.file = "absent" /\ intent.ordinal = 0 /\ result.file = "absent"
  BY DEF Init, NoTerminal
<1>3. \A p \in Owners : pc[p] = "idle" /\ op[p].kind = "none" /\ out[p].kind = "none"
  BY DEF Init, NoOp, Ask, Say
<1>4. Fenced /\ Busy
  BY <1>3 DEF Fenced, Busy, Inside, EffectSteps, SealSteps, ResultSteps
<1>5. Stored /\ Looked /\ Chained
  BY <1>2, <1>3 DEF Stored, Looked, Chained, Waiting, Exists
<1>6. Sealing /\ Completing
  BY <1>3 DEF Sealing, Completing, SealSteps
<1>7. Unsealed /\ Resulting /\ Failing /\ Spent
  BY <1>2, <1>3 DEF Unsealed, Resulting, Failing, Spent, Exists
<1>8. OneTerminal /\ CompletedAnswerStands /\ FeedbackOnRefutedSeal
  BY <1>2, <1>3 DEF OneTerminal, CompletedAnswerStands, FeedbackOnRefutedSeal, Exists
<1> QED BY <1>1, <1>4, <1>5, <1>6, <1>7, <1>8 DEF IInv

LEMMA InvariantStep == ASSUME IInv, NEW p \in Owners, Step(p) PROVE IInv'
<1>1. TypeOK' BY TypeStep
<1>2. CASE Operation(p) BY <1>1, <1>2, OperationStep
<1>3. CASE Effect(p)
  BY <1>1, <1>3, FenceStep, LaunchStep, OpenSealStep, FillSealStep, OpenFeedbackStep, FillFeedbackStep,
     OpenIntentStep, FillIntentStep, VerifyStep, OpenResultStep, FillResultStep, OpenFailureStep, FillFailureStep
  DEF Effect
<1>4. CASE Break(p) \/ BreakFailure(p) BY <1>1, <1>4, FenceStep
<1>5. CASE Die(p) BY <1>1, <1>5, DieStep
<1> QED BY <1>2, <1>3, <1>4, <1>5 DEF Step

LEMMA InvariantStutter == IInv /\ UNCHANGED vars => IInv'
<1> SUFFICES ASSUME IInv, UNCHANGED vars PROVE IInv' OBVIOUS
<1> USE DEF vars, store, local
<1>1. TypeOK' BY DEF IInv, TypeOK
<1>2. Fenced' /\ Busy' BY DEF IInv, Fenced, Busy
<1>3. Stored' /\ Looked' /\ Chained' BY DEF IInv, Stored, Looked, Chained
<1>4. Sealing' /\ Completing'
  BY DEF IInv, Sealing, Completing, Bound, Admitted, FinalSeal, Readable
<1>5. Unsealed' /\ Resulting' /\ Failing' /\ Spent' BY DEF IInv, Unsealed, Resulting, Failing, Spent
<1>6. OneTerminal' /\ CompletedAnswerStands' /\ FeedbackOnRefutedSeal'
  BY DEF IInv, OneTerminal, CompletedAnswerStands, FeedbackOnRefutedSeal
<1> QED BY <1>1, <1>2, <1>3, <1>4, <1>5, <1>6 DEF IInv

(* The fifteen parts hold together in every behaviour. *)
THEOREM Invariance == Spec => []IInv
<1>1. Init => IInv BY InvariantInit
<1>2. IInv /\ [Next]_vars => IInv'
  <2> SUFFICES ASSUME IInv, [Next]_vars PROVE IInv' OBVIOUS
  <2>1. CASE Next
    <3>1. PICK p \in Owners : Step(p) BY <2>1 DEF Next, Step
    <3> QED BY <3>1, InvariantStep
  <2>2. CASE UNCHANGED vars BY <2>2, InvariantStutter
  <2> QED BY <2>1, <2>2
<1> QED BY <1>1, <1>2, PTL DEF Spec

-----------------------------------------------------------------------------
(* The safety properties *)

(* Every variable has its type. *)
THEOREM TypeCorrect == Spec => []TypeOK
<1>1. IInv => TypeOK BY DEF IInv
<1> QED BY <1>1, Invariance, PTL

(* The RUN never has both a RESULT and a FAILURE, whatever the owners of its
   store do and wherever they die. *)
THEOREM TerminalOnce == Spec => []OneTerminal
<1>1. IInv => OneTerminal BY DEF IInv
<1> QED BY <1>1, Invariance, PTL

(* No candidate is executed twice, and no proof runs beside the verification
   without checkpoints. *)
THEOREM ExecutedOnce == Spec => []ProofRunsOnce
<1>1. IInv => ProofRunsOnce
  <2> SUFFICES ASSUME IInv PROVE ProofRunsOnce OBVIOUS
  <2>1. DOMAIN seals = 1..Len(seals) BY DEF IInv, TypeOK
  <2> QED BY <2>1 DEF IInv, Chained, Unsealed, ProofRunsOnce
<1> QED BY <1>1, Invariance, PTL

(* A terminal intent, and the RESULT after it, rest on the last checkpoint,
   complete and satisfied. *)
THEOREM RestsOnFinalSeal == Spec => []ResultOnFinalSeal
<1>1. IInv => ResultOnFinalSeal
  BY DEF IInv, Resulting, ResultOnFinalSeal, TypeOK
<1> QED BY <1>1, Invariance, PTL

(* An owner that was told of a completion was told of the RESULT that is there. *)
THEOREM AnswerStands == Spec => []CompletedAnswerStands
<1>1. IInv => CompletedAnswerStands BY DEF IInv
<1> QED BY <1>1, Invariance, PTL

(* Feedback is only about refuted candidates. *)
THEOREM FeedbackRefutes == Spec => []FeedbackOnRefutedSeal
<1>1. IInv => FeedbackOnRefutedSeal BY DEF IInv
<1> QED BY <1>1, Invariance, PTL

-----------------------------------------------------------------------------
(* The action properties *)

(* Only an owner in the fence touches the evidence. *)
LEMMA WritersAreInside ==
  ASSUME IInv, NEW p \in Owners, Step(p), pc[p] \notin Inside
  PROVE  UNCHANGED <<unaccounted, captures, seals, feedback, intent, result, failure>>
<1> USE DEF store
<1>1. CASE Operation(p)
  BY <1>1 DEF Operation, BeginSeal, BeginFeedback, BeginComplete, BeginLegacy, BeginFail, Reply, Attempt
<1>2. CASE Effect(p)
  BY <1>2 DEF Effect, MakeStore, Enter, Recheck, Launch, OpenSeal, FillSeal, Confirm, OpenFeedback, FillFeedback,
     OpenIntent, FillIntent, Verify, OpenResult, FillResult, Complete, OpenFailure, FillFailure,
     Inside, EffectSteps
<1>3. CASE Break(p) \/ BreakFailure(p) \/ Die(p)
  BY <1>3 DEF Break, BreakFailure, Die
<1> QED BY <1>1, <1>2, <1>3 DEF Step

(* An abandoned fence is never taken away. *)
LEMMA OrphanStays ==
  ASSUME IInv, NEW p \in Owners, Step(p), pc[p] \notin Inside, fence = Orphan
  PROVE  fence' = Orphan
<1> USE OwnerAssumption
<1>1. CASE Operation(p)
  BY <1>1 DEF Operation, BeginSeal, BeginFeedback, BeginComplete, BeginLegacy, BeginFail, Reply, Attempt
<1>2. CASE Effect(p)
  BY <1>2 DEF Effect, MakeStore, Enter, FenceFree, Recheck, Launch, OpenSeal, FillSeal, Confirm, OpenFeedback,
     FillFeedback, OpenIntent, FillIntent, Verify, OpenResult, FillResult, Complete, OpenFailure, FillFailure,
     Inside, EffectSteps
<1>3. CASE Break(p) \/ BreakFailure(p) \/ Die(p)
  BY <1>3 DEF Break, BreakFailure, Die, Inside
<1> QED BY <1>1, <1>2, <1>3 DEF Step

(* What an abandoned fence protects never changes again. *)
THEOREM FrozenBehindFence == Spec => AmbiguityIsFrozen
<1>1. IInv /\ [Next]_vars =>
        [fence = Orphan => UNCHANGED <<fence, unaccounted, captures, seals, feedback, intent, result, failure>>]_vars
  <2> SUFFICES ASSUME IInv, Next, fence = Orphan
               PROVE  UNCHANGED <<fence, unaccounted, captures, seals, feedback, intent, result, failure>>
    OBVIOUS
  <2>1. PICK p \in Owners : Step(p) BY DEF Next, Step
  <2>2. pc[p] \notin Inside BY OwnerAssumption DEF IInv, Fenced
  <2> QED BY <2>1, <2>2, WritersAreInside, OrphanStays
<1> QED BY <1>1, Invariance, PTL DEF Spec, AmbiguityIsFrozen

(* Nothing is added to a terminal RUN, and its terminal is not rewritten. *)
THEOREM TerminalIsFinal == Spec => NothingAfterTerminal
<1> DEFINE Final ==
      /\ Exists(failure) \/ Exists(intent.file) \/ result.file = "whole"
           => UNCHANGED <<unaccounted, captures, seals, feedback>>
      /\ result.file = "whole" => UNCHANGED <<result, failure>>
      /\ Exists(failure) => UNCHANGED <<result, intent>>
<1>1. ASSUME IInv, NEW p \in Owners, Step(p) PROVE Final
  <2>1. CASE pc[p] \notin Inside BY <1>1, <2>1, WritersAreInside
  <2>2. CASE Launch(p) \/ OpenSeal(p) \/ FillSeal(p) \/ OpenFeedback(p) \/ FillFeedback(p)
    <3>1. Bound
      BY <1>1, <2>2 DEF Launch, OpenSeal, FillSeal, OpenFeedback, FillFeedback, IInv, Sealing, SealSteps
    <3>2. UNCHANGED <<intent, result, failure>>
      BY <2>2 DEF Launch, OpenSeal, FillSeal, OpenFeedback, FillFeedback
    <3> QED BY <3>1, <3>2 DEF Bound, Admitted, Exists
  <2>3. CASE Verify(p)
    <3>1. ~Exists(failure) /\ ~Exists(intent.file) /\ ~Exists(result.file)
      BY <1>1, <2>3 DEF Verify, IInv, Busy, Unsealed
    <3> QED BY <2>3, <3>1 DEF Verify, Exists
  <2>4. CASE OpenIntent(p) \/ FillIntent(p)
    <3>1. ~Exists(failure) BY <1>1, <2>4 DEF OpenIntent, FillIntent, IInv, Busy, Completing, Bound, Admitted
    <3> QED BY <2>4, <3>1 DEF OpenIntent, FillIntent
  <2>5. CASE OpenResult(p)
    <3>1. ~Exists(failure) /\ ~Exists(result.file)
      BY <1>1, <2>5 DEF OpenResult, IInv, Busy, ResultSteps, Completing, Unsealed
    <3> QED BY <2>5, <3>1 DEF OpenResult, Exists
  <2>6. CASE FillResult(p)
    <3>1. ~Exists(failure) BY <1>1, <2>6 DEF FillResult, IInv, Resulting, OneTerminal
    <3>2. result.file = "whole" => result' = result BY <1>1, <2>6 DEF FillResult, IInv, TypeOK, Terminals
    <3> QED BY <2>6, <3>1, <3>2 DEF FillResult
  <2>7. CASE OpenFailure(p) \/ FillFailure(p)
    <3>1. result.file # "whole"
      BY <1>1, <2>7 DEF OpenFailure, FillFailure, IInv, Failing, OneTerminal, Exists
    <3> QED BY <2>7, <3>1 DEF OpenFailure, FillFailure
  <2>8. CASE UNCHANGED store BY <2>8 DEF store
  <2>9. MakeStore(p) => pc[p] \notin Inside BY DEF MakeStore, Inside, EffectSteps
  <2> QED
    BY <1>1, <2>1, <2>2, <2>3, <2>4, <2>5, <2>6, <2>7, <2>8, <2>9
    DEF Step, Operation, Effect, BeginSeal, BeginFeedback, BeginComplete, BeginLegacy, BeginFail,
        Enter, Recheck, Confirm, Complete, Break, BreakFailure, Die, Inside, EffectSteps
<1>2. IInv /\ [Next]_vars => [Final]_vars
  BY <1>1 DEF Next, Step
<1> QED BY <1>2, Invariance, PTL DEF Spec, NothingAfterTerminal

-----------------------------------------------------------------------------
(* The store implements ProofLedger. *)

Outcome == IF Exists(failure) THEN [kind |-> "failure"]
           ELSE IF result.file = "whole"
           THEN [kind |-> "result", proof |-> result.ordinal, package |-> result.package]
           ELSE [kind |-> "open"]

(* The complete checkpoints are the first ones: all, or all but the last. *)
links == IF Len(seals) > 0 /\ seals[Len(seals)].file # "whole" THEN Len(seals) - 1 ELSE Len(seals)

Shape ==
  /\ links \in Nat /\ links <= Len(seals)
  /\ wholeSeals = 1..links
  /\ chainOf \in Seq(Ledger!Proof) /\ Len(chainOf) = links /\ DOMAIN chainOf = 1..links

LEMMA ChainShape == IInv => Shape
<1> SUFFICES ASSUME IInv PROVE Shape OBVIOUS
<1>1. Len(seals) \in Nat /\ DOMAIN seals = 1..Len(seals) /\ seals \in [1..Len(seals) -> Seal] BY DEF IInv, TypeOK
<1>2. links \in Nat /\ links <= Len(seals) BY <1>1 DEF links
<1>3. \A k \in 1..Len(seals) : seals[k].file = "whole" <=> k <= links BY <1>1 DEF IInv, Chained, links
<1>4. wholeSeals = 1..links BY <1>1, <1>2, <1>3 DEF wholeSeals
<1>5. \A k \in 1..links : [cand |-> seals[k].cand, ok |-> seals[k].ok] \in Ledger!Proof
  BY <1>1, <1>2 DEF Seal, Ledger!Proof
<1>6. chainOf \in Seq(Ledger!Proof) /\ Len(chainOf) = links /\ DOMAIN chainOf = 1..links
  BY <1>2, <1>4, <1>5 DEF chainOf
<1> QED BY <1>2, <1>4, <1>6 DEF Shape

(* The chain and the outcome stay, or one of them takes a step. *)
LEMMA SameChain == ASSUME UNCHANGED seals PROVE UNCHANGED chainOf
BY DEF chainOf, wholeSeals

LEMMA SameOutcome == ASSUME UNCHANGED <<failure, result>> PROVE UNCHANGED Outcome
BY DEF Outcome

(* A checkpoint that appears is not yet in the chain. *)
LEMMA OpenSealMaps == ASSUME IInv, NEW p \in Owners, OpenSeal(p) PROVE UNCHANGED chainOf
<1>1. /\ DOMAIN seals = 1..Len(seals) /\ Len(seals) \in Nat /\ DOMAIN seals' = 1..(Len(seals) + 1)
      /\ seals'[Len(seals) + 1].file = "torn" /\ \A k \in 1..Len(seals) : seals'[k] = seals[k]
  BY DEF OpenSeal, IInv, TypeOK
<1>2. wholeSeals' = wholeSeals BY <1>1 DEF wholeSeals
<1>3. \A k \in wholeSeals : seals'[k] = seals[k] BY <1>1 DEF wholeSeals
<1> QED BY <1>2, <1>3 DEF chainOf

(* A checkpoint that is complete is the next link. *)
LEMMA FillSealMaps ==
  ASSUME IInv, IInv', NEW p \in Owners, FillSeal(p)
  PROVE  Ledger!Seal \/ (UNCHANGED chainOf /\ UNCHANGED Outcome)
<1> DEFINE last == Len(seals)
<1>1. /\ DOMAIN seals = 1..last /\ last \in Nat /\ last > 0 /\ last <= MaxCheckpoints
      /\ seals \in [1..last -> Seal] /\ seals[last] \in Seal
  BY DEF FillSeal, IInv, TypeOK, Sealing
<1>2. /\ seals' = [seals EXCEPT ![last] = [seals[last] EXCEPT !.file = "whole"]]
      /\ UNCHANGED <<failure, result, intent>>
  BY DEF FillSeal
<1>3. Bound BY DEF FillSeal, IInv, Sealing, SealSteps
<1>4. CASE seals[last].file = "whole"
  <2>1. seals' = seals BY <1>1, <1>2, <1>4 DEF Seal
  <2> QED BY <1>2, <2>1, SameChain, SameOutcome
<1>5. CASE seals[last].file # "whole"
  <2> DEFINE proof == [cand |-> seals[last].cand, ok |-> seals[last].ok]
  <2>1. chainOf \in Seq(Ledger!Proof) /\ Len(chainOf) = last - 1 /\ wholeSeals = 1..(last - 1)
        /\ DOMAIN chainOf = 1..(last - 1)
    BY <1>1, <1>5, ChainShape DEF Shape, links
  <2>2. Len(seals') = last /\ seals'[last].file = "whole"
        /\ seals'[last].cand = seals[last].cand /\ seals'[last].ok = seals[last].ok
        /\ \A k \in 1..(last - 1) : seals'[k] = seals[k]
    BY <1>1, <1>2 DEF Seal
  <2>3. chainOf' \in Seq(Ledger!Proof) /\ Len(chainOf') = last /\ wholeSeals' = 1..last
        /\ DOMAIN chainOf' = 1..last
    <3>1. IInv' => Shape' BY ChainShape, PTL
    <3>2. links' = last BY <1>1, <2>2 DEF links
    <3> QED BY <3>1, <3>2 DEF Shape
  <2>4. proof \in Ledger!Proof BY <1>1 DEF Ledger!Proof, Seal
  <2>5. chainOf' = Append(chainOf, proof)
    <3>1. \A k \in 1..(last - 1) : chainOf'[k] = chainOf[k]
      <4> SUFFICES ASSUME NEW k \in 1..(last - 1) PROVE chainOf'[k] = chainOf[k] OBVIOUS
      <4>1. k \in wholeSeals /\ k \in wholeSeals' /\ seals'[k] = seals[k] BY <1>1, <2>1, <2>2, <2>3
      <4> QED BY <4>1 DEF chainOf
    <3>2. chainOf'[last] = proof BY <1>1, <2>2, <2>3 DEF chainOf
    <3> HIDE DEF proof, last
    <3> QED BY <1>1, <2>1, <2>3, <2>4, <3>1, <3>2
  <2>6. \A i \in DOMAIN chainOf : chainOf[i].cand # proof.cand
    BY <1>1, <2>1 DEF chainOf, IInv, Chained
  <2>7. Outcome = [kind |-> "open"] /\ Outcome' = Outcome
    BY <1>2, <1>3 DEF Outcome, Bound, Admitted, Exists
  <2>8. Len(chainOf) < MaxCheckpoints BY <1>1, <2>1, CheckpointAssumption
  <2> HIDE DEF proof
  <2> QED BY <2>4, <2>5, <2>6, <2>7, <2>8 DEF Ledger!Seal, Ledger!Open, Outcome
<1> QED BY <1>4, <1>5

(* A RESULT that is complete is a success, on the last link or on no chain. *)
LEMMA FillResultMaps ==
  ASSUME IInv, NEW p \in Owners, FillResult(p)
  PROVE  Ledger!Succeed \/ Ledger!SucceedUnsealed \/ (UNCHANGED chainOf /\ UNCHANGED Outcome)
<1>1. /\ pc[p] = "writing" /\ UNCHANGED <<seals, failure>>
      /\ result'.file = "whole" /\ result'.ordinal = result.ordinal /\ result'.package = result.package
      /\ (result.file = "whole") => (result' = result)
  BY DEF FillResult, IInv, TypeOK, Terminals
<1>2. UNCHANGED chainOf BY <1>1, SameChain
<1>3. /\ Exists(result.file) /\ ~Exists(failure) /\ result.package \in Packages
      /\ result.ordinal = intent.ordinal
  BY <1>1 DEF IInv, Resulting, OneTerminal
<1>4. CASE result.file = "whole" BY <1>1, <1>2, <1>4, SameOutcome
<1>5. CASE result.file # "whole"
  <2>1. Outcome = [kind |-> "open"]
        /\ Outcome' = [kind |-> "result", proof |-> result.ordinal, package |-> result.package]
    BY <1>1, <1>3, <1>5 DEF Outcome, Exists
  <2>2. CASE Exists(intent.file)
    <3>1. /\ intent.ordinal = Len(seals) /\ Len(seals) > 0 /\ seals[Len(seals)].ok
          /\ seals[Len(seals)].file = "whole"
      BY <2>2 DEF IInv, Resulting
    <3>2. Len(chainOf) = Len(seals) /\ DOMAIN chainOf = 1..Len(seals) /\ chainOf \in Seq(Ledger!Proof)
          /\ wholeSeals = 1..Len(seals)
      BY <3>1, ChainShape DEF Shape, links
    <3>3. Len(seals) \in wholeSeals BY <3>1, <3>2 DEF IInv, TypeOK
    <3>4. chainOf[Len(chainOf)].ok BY <3>1, <3>2, <3>3 DEF chainOf
    <3>5. chainOf # <<>> BY <3>1, <3>2
    <3>6. Outcome' = Ledger!Done(Len(chainOf), result.package)
      BY <1>3, <2>1, <3>1, <3>2 DEF Ledger!Done
    <3> QED BY <1>2, <1>3, <2>1, <3>4, <3>5, <3>6 DEF Ledger!Succeed, Ledger!Open, Outcome
  <2>3. CASE ~Exists(intent.file)
    <3>1. unaccounted /\ captures = 0 /\ intent.ordinal = 0 BY <1>3, <2>3 DEF IInv, Resulting, Unsealed
    <3>2. Len(seals) = 0 BY <3>1 DEF IInv, Chained, TypeOK
    <3>3. chainOf = <<>> BY <3>2, ChainShape DEF Shape, links
    <3>4. Outcome' = Ledger!Done(0, result.package) BY <1>3, <2>1, <3>1 DEF Ledger!Done
    <3> QED BY <1>2, <1>3, <2>1, <3>3, <3>4 DEF Ledger!SucceedUnsealed, Ledger!Open, Outcome
  <2> QED BY <2>2, <2>3
<1> QED BY <1>4, <1>5

(* A FAILURE that appears is the outcome. *)
LEMMA OpenFailureMaps ==
  ASSUME IInv, NEW p \in Owners, OpenFailure(p)
  PROVE  Ledger!Fail \/ (UNCHANGED chainOf /\ UNCHANGED Outcome)
<1>1. UNCHANGED <<seals, result>> BY DEF OpenFailure
<1>2. UNCHANGED chainOf BY <1>1, SameChain
<1>3. CASE Exists(failure) BY <1>1, <1>2, <1>3, SameOutcome DEF OpenFailure
<1>4. CASE ~Exists(failure)
  <2>1. result.file # "whole" BY DEF OpenFailure, IInv, Failing, Exists
  <2>2. failure' = "torn" BY <1>4 DEF OpenFailure
  <2>3. Outcome = [kind |-> "open"] /\ Outcome' = [kind |-> "failure"]
    BY <1>4, <2>1, <2>2 DEF Outcome, Exists
  <2> QED BY <1>2, <2>3 DEF Ledger!Fail, Ledger!Open, Ledger!Failed, Outcome
<1> QED BY <1>3, <1>4

(* Every other step leaves the ledger alone. *)
LEMMA StepMaps ==
  ASSUME IInv, IInv', NEW p \in Owners, Step(p)
  PROVE  Ledger!Next \/ (UNCHANGED chainOf /\ UNCHANGED Outcome)
<1>1. CASE pc[p] \notin Inside BY <1>1, WritersAreInside, SameChain, SameOutcome
<1>2. CASE OpenSeal(p) BY <1>2, OpenSealMaps, SameOutcome DEF OpenSeal
<1>3. CASE FillSeal(p) BY <1>3, FillSealMaps DEF Ledger!Next
<1>4. CASE FillResult(p) BY <1>4, FillResultMaps DEF Ledger!Next
<1>5. CASE OpenFailure(p) BY <1>5, OpenFailureMaps DEF Ledger!Next
<1>6. CASE Launch(p) \/ OpenFeedback(p) \/ FillFeedback(p) \/ OpenIntent(p) \/ FillIntent(p) \/ Verify(p)
  BY <1>6, SameChain, SameOutcome
  DEF Launch, OpenFeedback, FillFeedback, OpenIntent, FillIntent, Verify
<1>7. CASE OpenResult(p)
  <2>1. ~Exists(result.file) BY <1>7 DEF OpenResult, IInv, Busy, ResultSteps, Completing, Unsealed
  <2>2. UNCHANGED <<seals, failure>> /\ result'.file = "torn" BY <1>7 DEF OpenResult
  <2>3. UNCHANGED Outcome BY <2>1, <2>2 DEF Outcome, Exists
  <2> QED BY <2>2, <2>3, SameChain
<1>8. CASE FillFailure(p)
  <2>1. Exists(failure) BY <1>8 DEF FillFailure, IInv, Failing
  <2>2. UNCHANGED <<seals, result>> /\ failure' = "whole" BY <1>8 DEF FillFailure
  <2>3. UNCHANGED Outcome BY <2>1, <2>2 DEF Outcome, Exists
  <2> QED BY <2>2, <2>3, SameChain
<1>9. CASE UNCHANGED store BY <1>9, SameChain, SameOutcome DEF store
<1>10. MakeStore(p) => pc[p] \notin Inside BY DEF MakeStore, Inside, EffectSteps
<1> QED
  BY <1>1, <1>2, <1>3, <1>4, <1>5, <1>6, <1>7, <1>8, <1>9, <1>10
  DEF Step, Operation, Effect, BeginSeal, BeginFeedback, BeginComplete, BeginLegacy, BeginFail,
      Enter, Recheck, Confirm, Complete, Break, BreakFailure, Die, Inside, EffectSteps

(* The store is one way to keep the ledger's promise. *)
THEOREM StoreIsLedger == Spec => ImplementsLedger
<1>1. Init => Ledger!Init
  <2> SUFFICES ASSUME Init PROVE Ledger!Init OBVIOUS
  <2>1. seals = <<>> /\ failure = "absent" /\ result.file = "absent" BY DEF Init, NoTerminal
  <2>2. IInv BY InvariantInit
  <2>3. chainOf = <<>> BY <2>1, <2>2, ChainShape DEF Shape, links
  <2>4. Outcome = [kind |-> "open"] BY <2>1 DEF Outcome, Exists
  <2> QED BY <2>3, <2>4 DEF Ledger!Init, Ledger!Open, Outcome
<1>2. IInv /\ IInv' /\ [Next]_vars => [Ledger!Next]_<<chainOf, Outcome>>
  <2> SUFFICES ASSUME IInv, IInv', [Next]_vars PROVE Ledger!Next \/ (UNCHANGED chainOf /\ UNCHANGED Outcome)
    OBVIOUS
  <2>1. CASE Next
    <3>1. PICK p \in Owners : Step(p) BY <2>1 DEF Next, Step
    <3> QED BY <3>1, StepMaps
  <2>2. CASE UNCHANGED vars BY <2>2, SameChain, SameOutcome DEF vars, store
  <2> QED BY <2>1, <2>2
<1>3. Spec => []IInv BY Invariance
<1> QED BY <1>1, <1>2, <1>3, PTL DEF Spec, ImplementsLedger, Ledger!Spec, Outcome

=============================================================================
