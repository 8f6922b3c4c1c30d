----------------------------- MODULE RunTerminal -----------------------------
(***************************************************************************)
(* The evidence store of one admitted RUN: proof checkpoints, factual      *)
(* feedback, the terminal intent, the RESULT and the FAILURE              *)
(* (src/src/aios_renew/runtime.py).                                        *)
(*                                                                         *)
(* Several Runtime owners, threads or processes, work on the store at the  *)
(* same time.  Each of them looks first without any protection, then takes *)
(* the RUN's one fence, a directory made with an exclusive mkdir, looks    *)
(* again under it, writes its files once and removes the fence.  An owner  *)
(* that dies, or whose prospective effect fails, leaves the fence behind:  *)
(* nobody ever removes it, and the RUN is closed to further effects.       *)
(***************************************************************************)
EXTENDS Naturals, Sequences

CONSTANTS
  Owners,          \* Runtime owners of the RUN
  Main,            \* the RUN's own process, which completes it without checkpoints
  Candidates,      \* committed candidates that differ from the base
  Packages,        \* structural result packages
  MaxCheckpoints,  \* the 17 checkpoints of the history bound
  MaxFaults,       \* bound: I/O errors, interrupts and deaths in a behaviour
  NoOwner, Orphan, NoCandidate, NoPackage

ASSUME CheckpointAssumption == MaxCheckpoints \in Nat /\ MaxFaults \in Nat
ASSUME OwnerAssumption == NoOwner \notin Owners /\ Orphan \notin Owners /\ NoOwner # Orphan
ASSUME PackageAssumption == NoPackage \notin Packages

VARIABLES
  fence,        \* .runtime-mutation: absent, of a live owner, or left behind
  prospective,  \* the l3-02 directory exists
  unaccounted,  \* evidence files of a verification without checkpoints
  captures,     \* native executions with a capture directory: k001 .. k<n>
  seals,        \* kNNN.json, oldest first
  feedback,     \* kNNN.feedback.json
  intent,       \* terminal-intent.json
  result,       \* results/<run>.json
  failure,      \* failures/<run>.json
  pc,           \* where an owner is
  op,           \* what it does
  view,         \* the seals it saw before it took the fence
  keep,         \* its fence outlives a failing effect
  out,          \* how its last operation ended
  faults        \* faults so far

store == <<prospective, unaccounted, captures, seals, feedback, intent, result, failure>>
local == <<pc, op, view, keep, out>>
vars == <<fence, store, local, faults>>

-----------------------------------------------------------------------------
(* State.  A definition named Mut... is a plausible slip in the definition
   that follows it; no behaviour uses it, and each one breaks a property. *)

FileState == {"absent", "torn", "whole"}
Exists(file) == file # "absent"         \* os.path.lexists

Ordinals == 1..MaxCheckpoints
Seal == [cand: Candidates, ok: BOOLEAN, file: {"torn", "whole"}]

(* What an operation is asked for: a checkpoint of a candidate, feedback on
   a checkpoint, a completion with a package, a FAILURE. *)
Op == [kind: {"none", "seal", "feedback", "complete", "legacy", "fail"},
       ordinal: 0..MaxCheckpoints, cand: Candidates \cup {NoCandidate},
       package: Packages \cup {NoPackage}]
Ask(what, k, c, g) == [kind |-> what, ordinal |-> k, cand |-> c, package |-> g]
NoOp == Ask("none", 0, NoCandidate, NoPackage)

(* How it ended.  A completion tells which package it is about. *)
Answer == [kind: {"none", "refused", "raised", "sealed", "prepared", "completed", "recorded"},
           package: Packages \cup {NoPackage}]
Say(what) == [kind |-> what, package |-> NoPackage]
Completed(g) == [kind |-> "completed", package |-> g]

NoTerminal == [file |-> "absent", ordinal |-> 0, package |-> NoPackage]

Init ==
  /\ fence = NoOwner
  /\ prospective = FALSE /\ unaccounted = FALSE
  /\ captures = 0
  /\ seals = <<>>
  /\ feedback = [k \in Ordinals |-> "absent"]
  /\ intent = NoTerminal
  /\ result = NoTerminal
  /\ failure = "absent"
  /\ pc = [p \in Owners |-> "idle"]
  /\ op = [p \in Owners |-> NoOp]
  /\ view = [p \in Owners |-> <<>>]
  /\ keep = [p \in Owners |-> TRUE]
  /\ out = [p \in Owners |-> Say("none")]
  /\ faults = 0

-----------------------------------------------------------------------------
(* What an owner reads. *)

MutBound == ~Exists(failure) /\ ~unaccounted
(* _checkpoint_binding: no FAILURE, no evidence of another verification, and
   no RESULT or terminal intent unless a completion may find its own. *)
Admitted == ~Exists(failure) /\ ~unaccounted
Bound == Admitted /\ ~Exists(result.file) /\ ~Exists(intent.file)

(* _checkpoint_history: every capture has its complete checkpoint, every
   feedback is complete; anything else raises. *)
Readable ==
  /\ captures = Len(seals)
  /\ \A k \in DOMAIN seals : seals[k].file = "whole"
  /\ \A k \in Ordinals : feedback[k] # "torn" /\ (Exists(feedback[k]) => k <= Len(seals))

(* _authenticate_checkpoint: a complete history that ends with checkpoint k. *)
FinalSeal(k) == Bound /\ Readable /\ k = Len(seals) /\ k > 0
Satisfied(k) == seals[k].ok

Fresh(c) == \A k \in DOMAIN seals : seals[k].cand # c

Goto(p, step) == pc' = [pc EXCEPT ![p] = step]
Proceed(p, step) == Goto(p, step) /\ UNCHANGED <<op, view, keep, out>>

(* An operation ends: the owner forgets all but its answer. *)
End(p, answer) ==
  /\ Goto(p, "idle")
  /\ op' = [op EXCEPT ![p] = NoOp]
  /\ view' = [view EXCEPT ![p] = <<>>]
  /\ keep' = [keep EXCEPT ![p] = TRUE]
  /\ out' = [out EXCEPT ![p] = answer]

(* The look finds the answer itself, or no authority for an effect ... *)
Reply(p, answer) == End(p, answer) /\ UNCHANGED <<fence, store, faults>>

(* ... or the effect is attempted. *)
Attempt(p, step, o, retain) ==
  /\ Goto(p, step)
  /\ op' = [op EXCEPT ![p] = o]
  /\ view' = [view EXCEPT ![p] = seals]
  /\ keep' = [keep EXCEPT ![p] = retain]
  /\ UNCHANGED <<fence, store, out, faults>>

-----------------------------------------------------------------------------
(* The look before the fence.  Everything read here is read again under the
   fence, so it is one step. *)

(* _seal_checkpoint: replay of the current seal, the next ordinal for a new
   candidate, or a refusal. *)
BeginSeal(p) ==
  /\ p # Main /\ pc[p] = "idle"
  /\ \E k \in Ordinals, c \in Candidates :
       LET open == Bound /\ Readable /\ fence = NoOwner
           replay == open /\ FinalSeal(k) /\ seals[k].cand = c
           next == open /\ k = Len(seals) + 1 /\ Fresh(c)
       IN \/ replay /\ Reply(p, Say("sealed"))
          \/ next /\ Attempt(p, "ready", Ask("seal", k, c, NoPackage), TRUE)
          \/ ~replay /\ ~next /\ Reply(p, Say("refused"))

(* prepare_feedback: only the current checkpoint, and only if it failed. *)
BeginFeedback(p) ==
  /\ p # Main /\ pc[p] = "idle"
  /\ \E k \in Ordinals :
       IF fence # NoOwner \/ ~FinalSeal(k) \/ Satisfied(k) THEN Reply(p, Say("refused"))
       ELSE IF Exists(feedback[k]) THEN Reply(p, Say("prepared"))
       ELSE Attempt(p, "ready", Ask("feedback", k, NoCandidate, NoPackage), TRUE)

MutOriginalTerminal(k, g) == intent.file = "whole" /\ intent.ordinal = k /\ k = Len(seals)

(* complete with a checkpoint.  Once a terminal intent exists the call only
   compares: the original RESULT of the same package, or nothing. *)
OriginalTerminal(k, g) ==
  /\ intent.file = "whole" /\ intent.ordinal = k /\ intent.package = g
  /\ result.file = "whole" /\ result.package = g
  /\ Readable /\ k = Len(seals)

BeginComplete(p) ==
  /\ p # Main /\ pc[p] = "idle"
  /\ \E k \in Ordinals, g \in Packages :
       IF Admitted /\ OriginalTerminal(k, g) THEN Reply(p, Completed(g))
       ELSE IF fence = NoOwner /\ FinalSeal(k) /\ Satisfied(k)
       THEN Attempt(p, "ready", Ask("complete", k, NoCandidate, g), TRUE)
       ELSE Reply(p, Say("refused"))

(* complete without a checkpoint: the RUN's own process, after its executor
   returned, and once. *)
BeginLegacy(p) ==
  /\ p = Main /\ pc[p] = "idle" /\ out[p].kind = "none"
  /\ \E g \in Packages : Attempt(p, "fencing", Ask("legacy", 0, NoCandidate, g), FALSE)

(* persist_failure returns at once when a prospective RUN is terminal. *)
SkipFailure ==
  prospective /\ (Exists(result.file) \/ Exists(failure) \/ Exists(intent.file))

(* persist_failure: the RUN's own process after its execution or completion
   raised and left no RESULT; of the others, the ones of a prospective RUN. *)
BeginFail(p) ==
  /\ pc[p] = "idle"
  /\ IF p = Main THEN out[p].kind \in {"none", "raised"} /\ ~Exists(result.file) ELSE prospective
  /\ IF SkipFailure
     THEN Reply(p, Say("refused"))
     ELSE Attempt(p, "fencing", Ask("fail", 0, NoCandidate, NoPackage), prospective)

-----------------------------------------------------------------------------
(* The fence *)

(* _checkpoint_mutation makes the l3-02 directory before it asks for the
   fence, so it appears even when the fence is then refused. *)
MakeStore(p) ==
  /\ pc[p] = "ready"
  /\ prospective' = TRUE
  /\ Proceed(p, "fencing")
  /\ UNCHANGED <<fence, unaccounted, captures, seals, feedback, intent, result, failure, faults>>

MutFenceFree == fence \in {NoOwner, Orphan}
FenceFree == fence = NoOwner

Enter(p) ==
  /\ pc[p] = "fencing"
  /\ IF FenceFree
     THEN fence' = p /\ Proceed(p, "fenced")
     ELSE UNCHANGED fence /\ End(p, IF op[p].kind = "legacy" THEN Say("raised") ELSE Say("refused"))
  /\ UNCHANGED <<store, faults>>

(* An effect that raises: a prospective one keeps the fence for ever. *)
LeftFence(p) == IF keep[p] THEN Orphan ELSE NoOwner

(* The effect is over: intent.json and the fence directory are removed. *)
Leave(p, answer) == fence' = NoOwner /\ End(p, answer)
Abort(p) == fence' = LeftFence(p) /\ End(p, Say("raised"))

MutPermitted(p) ==
  CASE op[p].kind = "seal" -> Bound /\ Readable
    [] op[p].kind = "legacy" -> ~prospective
    [] OTHER -> TRUE

(* The look under the fence decides whether the effect may happen. *)
Permitted(p) ==
  CASE op[p].kind = "seal" -> Bound /\ Readable /\ seals = view[p]
    [] op[p].kind = "feedback" -> FinalSeal(op[p].ordinal)
    [] op[p].kind = "complete" -> FinalSeal(op[p].ordinal)
    [] op[p].kind = "legacy" -> ~prospective
    [] op[p].kind = "fail" -> ~(prospective /\ (Exists(result.file) \/ Exists(intent.file)))

FirstWrite(kind) ==
  CASE kind = "seal" -> "launch" [] kind = "feedback" -> "prepare"
    [] kind = "complete" -> "intend" [] kind = "legacy" -> "verify" [] kind = "fail" -> "record"

(* A FAILURE that is no longer wanted, and feedback somebody else prepared
   meanwhile, end the effect without an error. *)
Recheck(p) ==
  /\ pc[p] = "fenced"
  /\ IF op[p].kind = "feedback" /\ Permitted(p) /\ Exists(feedback[op[p].ordinal])
     THEN Leave(p, Say("prepared"))
     ELSE IF Permitted(p) THEN Proceed(p, FirstWrite(op[p].kind)) /\ UNCHANGED fence
     ELSE IF op[p].kind = "fail" THEN Leave(p, Say("refused")) ELSE Abort(p)
  /\ UNCHANGED <<store, faults>>

-----------------------------------------------------------------------------
(* The effects.  Every file is created exclusively under its final name and
   filled afterwards; a death in between leaves it torn. *)

(* One native execution of the authored proof, in a directory of its own. *)
Launch(p) ==
  /\ pc[p] = "launch"
  /\ captures' = captures + 1
  /\ Proceed(p, "executing")
  /\ UNCHANGED <<fence, prospective, unaccounted, seals, feedback, intent, result, failure, faults>>

OpenSeal(p) ==
  /\ pc[p] = "executing"
  /\ \E ok \in BOOLEAN :
       seals' = Append(seals, [cand |-> op[p].cand, ok |-> ok, file |-> "torn"])
  /\ Proceed(p, "sealing")
  /\ UNCHANGED <<fence, prospective, unaccounted, captures, feedback, intent, result, failure, faults>>

FillSeal(p) ==
  /\ pc[p] = "sealing"
  /\ seals' = [seals EXCEPT ![Len(seals)].file = "whole"]
  /\ Proceed(p, "confirm")
  /\ UNCHANGED <<fence, prospective, unaccounted, captures, feedback, intent, result, failure, faults>>

(* The new checkpoint is authenticated before its digest is handed out. *)
Confirm(p) ==
  /\ pc[p] = "confirm"
  /\ IF FinalSeal(op[p].ordinal)
     THEN Leave(p, Say("sealed")) ELSE Abort(p)
  /\ UNCHANGED <<store, faults>>

OpenFeedback(p) ==
  /\ pc[p] = "prepare"
  /\ feedback' = [feedback EXCEPT ![op[p].ordinal] = "torn"]
  /\ Proceed(p, "preparing")
  /\ UNCHANGED <<fence, prospective, unaccounted, captures, seals, intent, result, failure, faults>>

FillFeedback(p) ==
  /\ pc[p] = "preparing"
  /\ feedback' = [feedback EXCEPT ![op[p].ordinal] = "whole"]
  /\ Leave(p, Say("prepared"))
  /\ UNCHANGED <<prospective, unaccounted, captures, seals, intent, result, failure, faults>>

(* The terminal intent binds the checkpoint and the package before the
   RESULT exists. *)
OpenIntent(p) ==
  /\ pc[p] = "intend"
  /\ intent' = [file |-> "torn", ordinal |-> op[p].ordinal, package |-> op[p].package]
  /\ Proceed(p, "intending")
  /\ UNCHANGED <<fence, prospective, unaccounted, captures, seals, feedback, result, failure, faults>>

FillIntent(p) ==
  /\ pc[p] = "intending"
  /\ intent' = [intent EXCEPT !.file = "whole"]
  /\ Proceed(p, "write")
  /\ UNCHANGED <<fence, prospective, unaccounted, captures, seals, feedback, result, failure, faults>>

(* The verification of a RUN without checkpoints leaves its evidence beside
   the checkpoint store. *)
Verify(p) ==
  /\ pc[p] = "verify"
  /\ unaccounted' = TRUE
  /\ Proceed(p, "write")
  /\ UNCHANGED <<fence, prospective, captures, seals, feedback, intent, result, failure, faults>>

OpenResult(p) ==
  /\ pc[p] = "write"
  /\ result' = [file |-> "torn", ordinal |-> intent.ordinal, package |-> op[p].package]
  /\ Proceed(p, "writing")
  /\ UNCHANGED <<fence, prospective, unaccounted, captures, seals, feedback, intent, failure, faults>>

FillResult(p) ==
  /\ pc[p] = "writing"
  /\ result' = [result EXCEPT !.file = "whole"]
  /\ Proceed(p, "written")
  /\ UNCHANGED <<fence, prospective, unaccounted, captures, seals, feedback, intent, failure, faults>>

(* The observation is filed and, without checkpoints, the RESULT pushed. *)
Complete(p) ==
  /\ pc[p] = "written"
  /\ Leave(p, Completed(op[p].package))
  /\ UNCHANGED <<store, faults>>

(* An existing FAILURE keeps its first diagnostics. *)
OpenFailure(p) ==
  /\ pc[p] = "record"
  /\ IF Exists(failure)
     THEN Leave(p, Say("recorded")) /\ UNCHANGED failure
     ELSE failure' = "torn" /\ Proceed(p, "recording") /\ UNCHANGED fence
  /\ UNCHANGED <<prospective, unaccounted, captures, seals, feedback, intent, result, faults>>

FillFailure(p) ==
  /\ pc[p] = "recording"
  /\ failure' = "whole"
  /\ Leave(p, Say("recorded"))
  /\ UNCHANGED <<prospective, unaccounted, captures, seals, feedback, intent, result, faults>>

-----------------------------------------------------------------------------
(* Faults *)

EffectSteps == {"fenced", "launch", "executing", "sealing", "confirm", "prepare", "preparing",
                "intend", "intending", "verify", "write", "writing", "written"}

(* An I/O error, an interrupt, a capture that cannot be read, a package the
   completion gates reject: the effect raises where it is. *)
Break(p) ==
  /\ faults < MaxFaults
  /\ pc[p] \in EffectSteps
  /\ faults' = faults + 1
  /\ Abort(p)
  /\ UNCHANGED store

(* Recording a FAILURE swallows its own errors.  A prospective one still
   needs the file: without it the fence stays. *)
BreakFailure(p) ==
  /\ faults < MaxFaults
  /\ pc[p] \in {"record", "recording"}
  /\ faults' = faults + 1
  /\ fence' = IF pc[p] = "record" /\ ~Exists(failure) THEN LeftFence(p) ELSE NoOwner
  /\ End(p, Say("refused"))
  /\ UNCHANGED store

Die(p) ==
  /\ faults < MaxFaults
  /\ pc[p] \notin {"idle", "dead"}
  /\ faults' = faults + 1
  /\ fence' = IF fence = p THEN Orphan ELSE fence
  /\ Goto(p, "dead")
  /\ op' = [op EXCEPT ![p] = NoOp] /\ view' = [view EXCEPT ![p] = <<>>]
  /\ keep' = [keep EXCEPT ![p] = TRUE]
  /\ UNCHANGED <<store, out>>

-----------------------------------------------------------------------------
(* Specification *)

Operation(p) ==
  \/ BeginSeal(p) \/ BeginFeedback(p) \/ BeginComplete(p) \/ BeginLegacy(p) \/ BeginFail(p)

Effect(p) ==
  \/ MakeStore(p) \/ Enter(p) \/ Recheck(p)
  \/ Launch(p) \/ OpenSeal(p) \/ FillSeal(p) \/ Confirm(p)
  \/ OpenFeedback(p) \/ FillFeedback(p)
  \/ OpenIntent(p) \/ FillIntent(p) \/ Verify(p)
  \/ OpenResult(p) \/ FillResult(p) \/ Complete(p)
  \/ OpenFailure(p) \/ FillFailure(p)

Next == \E p \in Owners :
  Operation(p) \/ Effect(p) \/ Break(p) \/ BreakFailure(p) \/ Die(p)

Spec == Init /\ [][Next]_vars

-----------------------------------------------------------------------------
(* Properties *)

PCs == EffectSteps \cup {"idle", "ready", "fencing", "record", "recording", "dead"}

Terminals == [file: FileState, ordinal: 0..MaxCheckpoints, package: Packages \cup {NoPackage}]

(* Every variable has its type. *)
TypeOK ==
  /\ fence \in Owners \cup {NoOwner, Orphan}
  /\ prospective \in BOOLEAN /\ unaccounted \in BOOLEAN
  /\ captures \in 0..MaxCheckpoints
  /\ seals \in Seq(Seal) /\ Len(seals) <= MaxCheckpoints
  /\ feedback \in [Ordinals -> FileState]
  /\ intent \in Terminals /\ result \in Terminals
  /\ failure \in FileState
  /\ pc \in [Owners -> PCs]
  /\ op \in [Owners -> Op]
  /\ view \in [Owners -> Seq(Seal)]
  /\ keep \in [Owners -> BOOLEAN]
  /\ out \in [Owners -> Answer]
  /\ faults \in 0..MaxFaults

(* One terminal outcome: however completion, failure recording and dying
   owners interleave, the RUN never has both a RESULT and a FAILURE. *)
OneTerminal == ~(Exists(result.file) /\ Exists(failure))

(* A proof is executed once: no candidate of the chain is executed a second
   time, and the verification without checkpoints is never run beside one,
   before it or after it. *)
ProofRunsOnce ==
  /\ \A j, k \in DOMAIN seals : j # k => seals[j].cand # seals[k].cand
  /\ captures \in {Len(seals), Len(seals) + 1}
  /\ unaccounted => captures = 0

(* A RESULT that consumed checkpoints was written after its intent and rests
   on the last checkpoint, complete and satisfied; no later checkpoint
   slipped in between the decision and the write. *)
ResultOnFinalSeal ==
  Exists(intent.file) =>
    /\ intent.ordinal = Len(seals) /\ intent.ordinal > 0
    /\ seals[intent.ordinal].ok /\ seals[intent.ordinal].file = "whole"
    /\ Exists(result.file) => /\ intent.file = "whole"
                              /\ result.package = intent.package

(* Whoever was told that the RUN is complete, first or by replay, was told
   so of the one complete RESULT, with the package that is in it. *)
CompletedAnswerStands ==
  \A p \in Owners : out[p].kind = "completed" =>
    result.file = "whole" /\ result.package = out[p].package

(* Feedback is about a checkpoint that failed. *)
FeedbackOnRefutedSeal ==
  \A k \in Ordinals : Exists(feedback[k]) => k <= Len(seals) /\ ~seals[k].ok

(* What an abandoned fence protects stays as it is: after a death or a
   failed prospective effect no file of the RUN ever changes. *)
AmbiguityIsFrozen ==
  [][fence = Orphan => UNCHANGED <<fence, unaccounted, captures, seals, feedback, intent, result, failure>>]_vars

(* Nothing is added once the RUN is terminal: no checkpoint, no feedback,
   no second terminal, and the RESULT is not rewritten. *)
NothingAfterTerminal ==
  [][/\ Exists(failure) \/ Exists(intent.file) \/ result.file = "whole"
          => UNCHANGED <<unaccounted, captures, seals, feedback>>
     /\ result.file = "whole" => UNCHANGED <<result, failure>>
     /\ Exists(failure) => UNCHANGED <<result, intent>>]_vars

-----------------------------------------------------------------------------
(* The abstract promise, and the store as one way to keep it. *)

wholeSeals == {k \in DOMAIN seals : seals[k].file = "whole"}
chainOf == [k \in wholeSeals |-> [cand |-> seals[k].cand, ok |-> seals[k].ok]]

Ledger == INSTANCE ProofLedger
            WITH chain <- chainOf,
                 outcome <- IF Exists(failure) THEN [kind |-> "failure"]
                            ELSE IF result.file = "whole"
                            THEN [kind |-> "result", proof |-> result.ordinal,
                                  package |-> result.package]
                            ELSE [kind |-> "open"]

(* The store, with its torn files, races and abandoned fences, is the
   growing chain of proofs with one outcome that ProofLedger describes. *)
ImplementsLedger == Ledger!Spec
=============================================================================
