--------------------------- MODULE DispatchProofs ---------------------------
(* Safety of DispatchJournal for every number of processes, dispatches,
   RUNs and crashes, and its refinement of OneShotExecution; then the safety of
   the control checkout that the processes share (CheckoutSync). *)
EXTENDS DispatchJournal, CheckoutSync, TLAPS

-----------------------------------------------------------------------------
(* The inductive invariant, in named parts. *)

JudgingSteps == {"probe", "probing", "write"}
InvokedSteps == {"invoked", "release"}
BeforeLaunch == {"preflight", "syncing", "admit", "admitting", "reserved", "bound"}
WithRun == {"reserved", "bound", "executing", "writing", "transport", "failing", "recording"}

(* p judges a record: it holds the journal lock from its look to its write. *)
Judging(p, kind) == pc[p] \in JudgingSteps /\ seen[p].kind = kind

(* Whoever acts on a record has one, and nobody acts before delivering. *)
Recorded ==
  \A p \in Procs :
    /\ wk[p] # "none" \/ pc[p] \in JudgingSteps \cup InvokedSteps => Rec(p) # NoRecord
    /\ pc[p] \in {"idle", "deliver"} => wk[p] = "none"
    /\ forked[p] => wk[p] # "none"
    /\ pc[p] \in JudgingSteps => seen[p].kind # "none"
    /\ pc[p] = "write" => seen[p].kind # "inspect"
    /\ Judging(p, "finalize") \/ pc[p] = "release" => wk[p] = "returned"

(* An id is invoked by one process: its first record was written once. *)
OneInvocation ==
  \A p, q \in Procs : wk[p] # "none" /\ wk[q] # "none" /\ d(p) = d(q) => p = q

(* An executor starts once, after everything that can still come before it. *)
LaunchCount ==
  /\ \A x \in Dispatches :
       launched[x] \in {0, 1} /\ (journal[x] = NoRecord => launched[x] = 0)
  /\ \A p \in Procs :
       /\ wk[p] \in BeforeLaunch => launched[d(p)] = 0
       /\ wk[p] = "executing" => launched[d(p)] = 1

(* A RUN is admitted before it is reserved, owned or has files. *)
Admitted ==
  /\ \A p \in Procs : wk[p] \in WithRun => wrun[p] \in RunIds /\ runs[wrun[p]] # NoBinding
  /\ \A x \in Dispatches :
       journal[x] # NoRecord /\ journal[x].run # NoRun => runs[journal[x].run] # NoBinding
  /\ \A r \in RunIds : runs[r] = NoBinding => results[r] = "absent" /\ failures[r] = "absent"

(* A RUN belongs to one invocation, and only its dispatch may own it. *)
OwnRun ==
  /\ \A p, q \in Procs :
       wk[p] \in WithRun /\ wk[q] \in WithRun /\ wrun[p] = wrun[q] => p = q
  /\ \A p \in Procs : \A x \in Dispatches :
       wk[p] \in WithRun /\ journal[x] # NoRecord /\ journal[x].run = wrun[p] => x = d(p)

(* The files of a RUN follow the step of its invocation. *)
Files ==
  \A p \in Procs :
    /\ wk[p] \in {"reserved", "bound", "executing"} =>
         results[wrun[p]] = "absent" /\ failures[wrun[p]] = "absent"
    /\ wk[p] \in {"writing", "transport"} => Exists(results[wrun[p]])
    /\ wk[p] = "recording" => Exists(failures[wrun[p]])

(* Only a started executor leaves a RESULT. *)
ResultOfLaunch ==
  \A x \in Dispatches :
    journal[x] # NoRecord /\ journal[x].run # NoRun /\ Exists(results[journal[x].run])
      => launched[x] = 1

(* Who holds which lock, and what the record says while it is held. *)
Locking ==
  \A p \in Procs :
    /\ Judging(p, "reconcile") =>
         /\ journalLock[Family(p)] = p /\ activeLock[d(p)] = NoProc
         /\ Rec(p).status \notin Terminal
    /\ Judging(p, "finalize") =>
         /\ journalLock[Family(p)] = p /\ activeLock[d(p)] = p
         /\ Rec(p).status = "STARTED"
    /\ pc[p] = "invoked" => activeLock[d(p)] = p /\ Rec(p).status = "STARTED"
    /\ pc[p] = "release" => activeLock[d(p)] = p

(* What a judging process has seen of its RUN is still there. *)
Observed ==
  \A p \in Procs : Judging(p, "reconcile") \/ Judging(p, "finalize") =>
    /\ seen[p].result => Rec(p).run # NoRun /\ Exists(results[Rec(p).run])
    /\ seen[p].failure => Rec(p).run # NoRun /\ Exists(failures[Rec(p).run])

IInv ==
  /\ TypeOK /\ Recorded /\ OneInvocation /\ LaunchCount /\ Admitted /\ OwnRun
  /\ Files /\ ResultOfLaunch /\ Locking /\ Observed
  /\ OwnedBeforeLaunch /\ RunHasOneOwner /\ OneTerminalArtifact
  /\ SuccessHasResult /\ NoVerdictWhileRunning /\ ReportedVerdictIsDurable

-----------------------------------------------------------------------------
(* Types *)

(* A step in which process p acts, or dies. *)
ProcStep(p) == DeliveryStep(p) \/ WorkStep(p) \/ Crash(p) \/ ChildCrash(p)

(* A verdict changes the status of a record and nothing else. *)
LEMMA VerdictType ==
  ASSUME NEW rec \in Record, NEW st \in Terminal \cup Nonterminal
  PROVE  /\ Verdict(rec, st) \in Record
         /\ Verdict(rec, st).status = st
         /\ Verdict(rec, st).run = rec.run
         /\ Verdict(rec, st).binding = rec.binding
BY DEF Verdict, Record

(* Every decision is a verdict on the record it read.  A success has seen a
   RESULT, a reconciled failure a FAILURE, and a record without a RUN is
   never reconciled to anything but RECONCILIATION_BLOCKED. *)
LEMMA DecisionType ==
  ASSUME TypeOK, NEW p \in Procs, Rec(p) # NoRecord
  PROVE  \E st \in Terminal \cup Nonterminal :
           /\ Decision(p) = Verdict(Rec(p), st)
           /\ st = "SUCCEEDED" => seen[p].result
           /\ st = "FAILED" /\ seen[p].kind = "reconcile" => seen[p].failure
           /\ Rec(p).run = NoRun /\ seen[p].kind = "reconcile" => st = "RECONCILIATION_BLOCKED"
<1>1. \A s \in Observation : \E st \in Terminal \cup Nonterminal :
        /\ TerminalObservation(Rec(p), s) = Verdict(Rec(p), st)
        /\ st = "SUCCEEDED" => s.result
        /\ st = "FAILED" => s.failure
  BY DEF TerminalObservation, Terminal, Nonterminal
<1>2. seen[p] \in Observation BY DEF TypeOK
<1>3. CASE seen[p].kind = "reconcile"
  <2>1. CASE Rec(p).run = NoRun \/ (Family(p) # "PRIMARY" /\ ~RunMatches(Rec(p)))
    BY <1>3, <2>1 DEF Decision, Reconcile, Nonterminal
  <2>2. CASE ~(Rec(p).run = NoRun \/ (Family(p) # "PRIMARY" /\ ~RunMatches(Rec(p))))
    BY <1>1, <1>2, <1>3, <2>2 DEF Decision, Reconcile
  <2> QED BY <2>1, <2>2
<1>4. CASE seen[p].kind # "reconcile" /\ Family(p) = "CORRECTION"
  <2>1. Decision(p) = FinalizeByArtifacts(Rec(p), ret[p], NamedRun(p), seen[p])
    BY <1>4 DEF Decision
  <2> QED BY <1>1, <1>2, <1>4, <2>1 DEF FinalizeByArtifacts, Terminal, Nonterminal
<1>5. CASE seen[p].kind # "reconcile" /\ Family(p) # "CORRECTION"
  <2>1. Decision(p) = FinalizeByExit(Family(p), Rec(p), ret[p], NamedRun(p), seen[p])
    BY <1>5 DEF Decision
  <2> QED BY <1>5, <2>1 DEF FinalizeByExit, Terminal, Nonterminal
<1> QED BY <1>3, <1>4, <1>5

(* A decision keeps the binding and the RUN of the record it judges. *)
LEMMA DecisionRecord ==
  ASSUME TypeOK, NEW p \in Procs, Rec(p) # NoRecord
  PROVE  /\ Rec(p) \in Record /\ Decision(p) \in Record
         /\ Decision(p).run = Rec(p).run
         /\ Decision(p).binding = Rec(p).binding
         /\ Decision(p).status = "SUCCEEDED" => seen[p].result
         /\ Decision(p).status = "FAILED" /\ seen[p].kind = "reconcile" => seen[p].failure
         /\ Rec(p).run = NoRun /\ seen[p].kind = "reconcile"
              => Decision(p).status = "RECONCILIATION_BLOCKED"
<1>1. Rec(p) \in Record
  BY DEF TypeOK, Rec, d
<1>2. PICK st \in Terminal \cup Nonterminal :
           /\ Decision(p) = Verdict(Rec(p), st)
           /\ st = "SUCCEEDED" => seen[p].result
           /\ st = "FAILED" /\ seen[p].kind = "reconcile" => seen[p].failure
           /\ Rec(p).run = NoRun /\ seen[p].kind = "reconcile" => st = "RECONCILIATION_BLOCKED"
  BY DecisionType
<1> QED
  BY <1>1, <1>2, VerdictType

(* The journals start empty, which is well typed. *)
LEMMA TypeInit == Init => TypeOK
BY FamilyAssumption DEF Init, Observation, TypeOK, FreeLock, NothingSeen, FileState, PCs, WKs, Outs

(* Every action keeps the types; only a verdict needs a record to be there. *)
LEMMA TypeStep ==
  ASSUME TypeOK, Recorded, NEW p \in Procs, ProcStep(p)
  PROVE  TypeOK'
<1> USE DEF TypeOK, Goto, Step, Report, Return, PCs, WKs, journalVars, fileVars, procVars, workVars
<1>1. CASE Deliver(p) BY <1>1 DEF Deliver
<1>2. CASE Refuse(p) BY <1>2 DEF Refuse, Outs
<1>3. CASE Replay(p) BY <1>3 DEF Replay, Outs, Settled, Terminal, Nonterminal, Rec, Record, d
<1>4. CASE BeginReconcile(p) BY <1>4 DEF Observation, BeginReconcile, Look, Family, d
<1>5. CASE Authorize(p) BY <1>5 DEF Authorize, Record, Nonterminal, d
<1>6. CASE Probe(p)
  <2>1. CASE opLock = FreeLock BY <1>6, <2>1 DEF Probe, ProbeHolds
  <2>2. CASE opLock # FreeLock
    <3>1. seen' = [seen EXCEPT ![p] = [seen[p] EXCEPT !.held = TRUE]]
      BY <1>6, <2>2 DEF Probe
    <3>2. seen[p] \in Observation OBVIOUS
    <3>3. [seen[p] EXCEPT !.held = TRUE] \in Observation
      BY <3>2 DEF Observation
    <3>4. seen' \in [Procs -> Observation] BY <3>1, <3>3
    <3> QED BY <1>6, <2>2, <3>4 DEF Probe
  <2> QED BY <2>1, <2>2
<1>7. CASE ProbeEnd(p) BY <1>7 DEF ProbeEnd, FreeLock
<1>8. CASE Write(p)
  <2>1. Rec(p) # NoRecord
    BY <1>8 DEF Write, Recorded, JudgingSteps
  <2>2. Decision(p) \in Record /\ Decision(p).status \in Terminal \cup Nonterminal
    BY <2>1, DecisionRecord DEF Record
  <2> QED
    BY <1>8, <2>2 DEF Write, d, Outs
<1>9. CASE BeginFinalize(p) BY <1>9 DEF Observation, BeginFinalize, Look, Family, d
<1>10. CASE Raise(p) BY <1>10 DEF Raise, Outs
<1>11. CASE ReleaseActive(p) BY <1>11 DEF ReleaseActive, d
<1>12. CASE Inspect(p) BY <1>12 DEF Observation, Inspect
<1>13. CASE InspectEnd(p) BY <1>13 DEF InspectEnd, Outs
<1>14. CASE LockRefused(p) BY <1>14 DEF LockRefused
<1>15. CASE TakeLock(p) BY <1>15 DEF TakeLock, RunHolds, FreeLock
<1>16. CASE Preflighted(p) BY <1>16 DEF Preflighted, FreeLock
<1>17. CASE AdmissionRejected(p) BY <1>17 DEF AdmissionRejected, FreeLock
<1>18. CASE ReserveRun(p) BY <1>18 DEF ReserveRun
<1>19. CASE BindRun(p)
  <2>1. Rec(p) \in Record BY <1>19 DEF BindRun, MayBind, Rec, d
  <2>2. journal' = [journal EXCEPT ![d(p)] = [Rec(p) EXCEPT !.run = wrun[p]]]
    BY <1>19 DEF BindRun, Rec
  <2>3. [Rec(p) EXCEPT !.run = wrun[p]] \in Record BY <2>1 DEF Record
  <2>4. journal' \in [Dispatches -> Record \cup {NoRecord}] BY <2>2, <2>3
  <2> QED BY <1>19, <2>4 DEF BindRun
<1>20. CASE BindRejected(p) BY <1>20 DEF BindRejected, FreeLock
<1>21. CASE Launch(p) BY <1>21 DEF Launch, d
<1>22. CASE RunFails(p) BY <1>22 DEF RunFails, FreeLock
<1>23. CASE OpenResult(p) BY <1>23 DEF OpenResult, FileState
<1>24. CASE WriteResult(p) BY <1>24 DEF WriteResult, FileState
<1>25. CASE Transported(p) BY <1>25 DEF Transported, FreeLock
<1>26. CASE OpenFailure(p) BY <1>26 DEF OpenFailure, FileState
<1>27. CASE FailureReturns(p)
  <2>1. failures' \in [RunIds -> FileState] BY <1>27 DEF FailureReturns, FileState
  <2> QED BY <1>27, <2>1 DEF FailureReturns
<1>28. CASE Crash(p) BY <1>28 DEF Crash, Unlocked, FreeLock
<1>29. CASE ChildCrash(p) BY <1>29 DEF ChildCrash, FreeLock
<1> QED BY <1>1, <1>2, <1>3, <1>4, <1>5, <1>6, <1>7, <1>8, <1>9, <1>10, <1>11, <1>12, <1>13, <1>14, <1>15, <1>16, <1>17, <1>18, <1>19, <1>20, <1>21, <1>22, <1>23, <1>24, <1>25, <1>26, <1>27, <1>28, <1>29 DEF ProcStep, DeliveryStep, WorkStep
-----------------------------------------------------------------------------
(* What the steps that write the journal leave behind *)

(* A delivery stays the delivery of one id. *)
LEMMA SameRequest ==
  ASSUME TypeOK, NEW p \in Procs, ProcStep(p)
  PROVE  /\ req' = req /\ \A q \in Procs : d(q) \in Dispatches /\ d(q)' = d(q)
         /\ \A q \in Procs : Family(q) \in Families /\ Family(q)' = Family(q)
<1>1. req' = req
  BY DEF ProcStep, DeliveryStep, WorkStep, procVars, Deliver, Refuse, Replay, BeginReconcile,
         Authorize, Probe, ProbeEnd, Write, BeginFinalize, Raise, ReleaseActive, Inspect,
         InspectEnd, LockRefused, TakeLock, Preflighted, AdmissionRejected, ReserveRun,
         BindRun, BindRejected, Launch, RunFails, OpenResult, WriteResult, Transported,
         OpenFailure, FailureReturns, Crash, ChildCrash
<1> QED BY <1>1, FamilyAssumption DEF TypeOK, d, Family

(* The first delivery leaves an open record without a RUN. *)
LEMMA AuthorizedRecord ==
  ASSUME TypeOK, NEW p \in Procs, Authorize(p)
  PROVE  /\ Rec(p) = NoRecord /\ journal'[d(p)] # NoRecord
         /\ journal'[d(p)].status = "STARTED" /\ journal'[d(p)].run = NoRun
         /\ \A x \in Dispatches : x # d(p) => journal'[x] = journal[x]
<1> DEFINE new == [binding |-> req[p].binding, status |-> "STARTED", run |-> NoRun,
                   pre |-> {r \in RunIds : runs[r] # NoBinding}]
<1>1. d(p) \in Dispatches /\ req[p].binding \in Bindings BY DEF TypeOK, d
<1>2. Rec(p) = NoRecord /\ journal' = [journal EXCEPT ![d(p)] = new]
  BY DEF Authorize, Unseen
<1>3. new \in Record BY <1>1 DEF Record, Nonterminal
<1>4. new # NoRecord BY <1>3, NullAssumption
<1>5. journal'[d(p)] = new BY <1>1, <1>2 DEF TypeOK
<1>6. \A x \in Dispatches : x # d(p) => journal'[x] = journal[x] BY <1>2 DEF TypeOK
<1> QED BY <1>2, <1>4, <1>5, <1>6

(* Binding a RUN changes the run of an open record and nothing else. *)
LEMMA BoundRecord ==
  ASSUME TypeOK, NEW p \in Procs, BindRun(p)
  PROVE  /\ Rec(p) # NoRecord /\ Rec(p).status = "STARTED" /\ Rec(p).run = NoRun
         /\ journal'[d(p)] # NoRecord
         /\ journal'[d(p)].run = wrun[p]
         /\ journal'[d(p)].status = "STARTED"
         /\ journal'[d(p)].binding = Rec(p).binding
         /\ \A x \in Dispatches : x # d(p) => journal'[x] = journal[x]
<1> DEFINE new == [Rec(p) EXCEPT !.run = wrun[p]]
<1>1. /\ Rec(p) \in Record /\ Rec(p) # NoRecord /\ d(p) \in Dispatches
      /\ Rec(p).status = "STARTED" /\ Rec(p).run = NoRun
  BY DEF TypeOK, BindRun, MayBind, Rec, d
<1>2. journal' = [journal EXCEPT ![d(p)] = new]
  BY DEF BindRun, Rec
<1>3. journal'[d(p)] = new BY <1>1, <1>2 DEF TypeOK
<1>4. wrun[p] \in RunIds \cup {NoRun} BY DEF TypeOK
<1>5. /\ new \in Record /\ new.run = wrun[p]
      /\ new.status = Rec(p).status /\ new.binding = Rec(p).binding
  BY <1>1, <1>4 DEF Record
<1>6. new # NoRecord BY <1>5, NullAssumption
<1>7. \A x \in Dispatches : x # d(p) => journal'[x] = journal[x] BY <1>2 DEF TypeOK
<1> HIDE DEF new
<1> QED BY <1>1, <1>3, <1>5, <1>6, <1>7

(* A decision is a record with the binding and the RUN of the one it judged. *)
LEMMA WrittenRecord ==
  ASSUME TypeOK, Recorded, NEW p \in Procs, Write(p)
  PROVE  /\ Rec(p) # NoRecord /\ journal'[d(p)] # NoRecord
         /\ journal'[d(p)] = Decision(p)
         /\ journal'[d(p)].run = Rec(p).run
         /\ journal'[d(p)].binding = Rec(p).binding
         /\ \A x \in Dispatches : x # d(p) => journal'[x] = journal[x]
<1>1. Rec(p) # NoRecord /\ d(p) \in Dispatches BY DEF Write, Recorded, JudgingSteps, TypeOK, d
<1>2. journal'[d(p)] = Decision(p) BY <1>1 DEF TypeOK, Write
<1>3. Decision(p) # NoRecord BY <1>1, DecisionRecord, NullAssumption
<1>4. \A x \in Dispatches : x # d(p) => journal'[x] = journal[x] BY DEF Write, TypeOK
<1> QED BY <1>1, <1>2, <1>3, <1>4, DecisionRecord

(* A record never goes, and only three steps write one. *)
LEMMA JournalSteps ==
  ASSUME TypeOK, Recorded, NEW p \in Procs, ProcStep(p)
  PROVE  /\ journal' = journal \/ Authorize(p) \/ BindRun(p) \/ Write(p)
         /\ \A x \in Dispatches : journal[x] # NoRecord =>
              /\ journal'[x] # NoRecord
              /\ journal'[x].binding = journal[x].binding
              /\ journal[x].run # NoRun => journal'[x].run = journal[x].run
<1>1. journal' = journal \/ Authorize(p) \/ BindRun(p) \/ Write(p)
  BY DEF ProcStep, DeliveryStep, WorkStep, journalVars, Deliver, Refuse, Replay, BeginReconcile,
         Probe, ProbeEnd, BeginFinalize, Raise, ReleaseActive, Inspect,
         InspectEnd, LockRefused, TakeLock, Preflighted, AdmissionRejected, ReserveRun,
         BindRejected, Launch, RunFails, OpenResult, WriteResult, Transported,
         OpenFailure, FailureReturns, Crash, ChildCrash
<1>2. CASE journal' = journal BY <1>2
<1>3. CASE Authorize(p) BY <1>3, AuthorizedRecord DEF Rec
<1>4. CASE BindRun(p) BY <1>4, BoundRecord DEF Rec
<1>5. CASE Write(p) BY <1>5, WrittenRecord DEF Rec
<1> QED BY <1>1, <1>2, <1>3, <1>4, <1>5

(* Reading operator.lock changes neither what a process is doing nor why. *)
LEMMA ProbeKind ==
  ASSUME TypeOK, NEW p \in Procs, Probe(p)
  PROVE  /\ seen'[p].kind = seen[p].kind /\ seen'[p].result = seen[p].result
         /\ seen'[p].failure = seen[p].failure
         /\ \A q \in Procs : q # p => seen'[q] = seen[q]
<1>1. seen \in [Procs -> Observation] BY DEF TypeOK
<1>2. CASE opLock = FreeLock BY <1>2 DEF Probe
<1>3. CASE opLock # FreeLock
  <2>1. seen' = [seen EXCEPT ![p] = [seen[p] EXCEPT !.held = TRUE]] BY <1>3 DEF Probe
  <2>2. seen'[p] = [seen[p] EXCEPT !.held = TRUE] BY <2>1, <1>1
  <2>3. seen[p] \in Observation BY <1>1
  <2>4. \A q \in Procs : q # p => seen'[q] = seen[q] BY <2>1, <1>1
  <2> QED BY <2>2, <2>3, <2>4 DEF Observation
<1> QED BY <1>2, <1>3

-----------------------------------------------------------------------------
(* Control flow: where a step of p can lead *)

(* A step of p moves no other process. *)
LEMMA OthersKeep ==
  ASSUME TypeOK, NEW p \in Procs, ProcStep(p)
  PROVE  \A q \in Procs : q # p =>
           /\ pc'[q] = pc[q] /\ seen'[q] = seen[q] /\ out'[q] = out[q]
           /\ wk'[q] = wk[q] /\ wrun'[q] = wrun[q] /\ forked'[q] = forked[q] /\ ret'[q] = ret[q]
<1>a. /\ pc \in [Procs -> PCs] /\ wk \in [Procs -> WKs] /\ seen \in [Procs -> Observation]
      /\ out \in [Procs -> Outs] /\ wrun \in [Procs -> RunIds \cup {NoRun}]
      /\ forked \in [Procs -> BOOLEAN] /\ ret \in [Procs -> {"none", "ok", "error", "raise"}]
  BY DEF TypeOK
<1> USE DEF Goto, Step, Report, Return, journalVars, fileVars, procVars, workVars
<1>1. CASE Deliver(p) \/ Refuse(p) \/ Replay(p)
  BY <1>1, <1>a DEF Deliver, Refuse, Replay
<1>2. CASE BeginReconcile(p) \/ BeginFinalize(p)
  BY <1>2, <1>a DEF BeginReconcile, BeginFinalize, Look
<1>3. CASE Authorize(p)
  BY <1>3, <1>a DEF Authorize
<1>4. CASE Probe(p)
  BY <1>4, <1>a DEF Probe
<1>5. CASE ProbeEnd(p) \/ Write(p) \/ Raise(p) \/ ReleaseActive(p)
  BY <1>5, <1>a DEF ProbeEnd, Write, Raise, ReleaseActive
<1>6. CASE Inspect(p) \/ InspectEnd(p)
  BY <1>6, <1>a DEF Inspect, InspectEnd
<1>7. CASE LockRefused(p) \/ TakeLock(p) \/
            Preflighted(p) \/ AdmissionRejected(p)
  BY <1>7, <1>a DEF LockRefused, TakeLock, Preflighted, AdmissionRejected
<1>8. CASE ReserveRun(p)
  BY <1>8, <1>a DEF ReserveRun
<1>9. CASE BindRun(p) \/ BindRejected(p) \/ Launch(p) \/ RunFails(p)
  BY <1>9, <1>a DEF BindRun, BindRejected, Launch, RunFails
<1>10. CASE OpenResult(p) \/ WriteResult(p) \/ Transported(p)
  BY <1>10, <1>a DEF OpenResult, WriteResult, Transported
<1>11. CASE OpenFailure(p) \/ FailureReturns(p)
  BY <1>11, <1>a DEF OpenFailure, FailureReturns
<1>12. CASE Crash(p)
  BY <1>12, <1>a DEF Crash
<1>13. CASE ChildCrash(p)
  BY <1>13, <1>a DEF ChildCrash
<1> QED BY <1>1, <1>2, <1>3, <1>4, <1>5, <1>6, <1>7, <1>8, <1>9, <1>10, <1>11, <1>12, <1>13
    DEF ProcStep, DeliveryStep, WorkStep

(* How an invocation gets where it is. *)
LEMMA WorkFlow ==
  ASSUME TypeOK, Recorded, NEW p \in Procs, ProcStep(p)
  PROVE  /\ wk'[p] # "none" => wk[p] # "none" \/ Authorize(p)
         /\ wk'[p] \in BeforeLaunch => wk[p] \in BeforeLaunch \/ Authorize(p)
         /\ wk'[p] \in WithRun => (wk[p] \in WithRun /\ wrun'[p] = wrun[p]) \/ ReserveRun(p)
         /\ wk'[p] = "reserved" => wk[p] = "reserved" \/ ReserveRun(p)
         /\ wk'[p] = "bound" => wk[p] = "bound" \/ BindRun(p)
         /\ wk'[p] = "executing" => wk[p] = "executing" \/ Launch(p)
         /\ wk'[p] = "writing" => wk[p] = "writing" \/ OpenResult(p)
         /\ wk'[p] = "transport" => wk[p] = "transport" \/ WriteResult(p)
         /\ wk'[p] = "recording" => wk[p] = "recording" \/ OpenFailure(p)
<1>a. /\ pc \in [Procs -> PCs] /\ wk \in [Procs -> WKs] /\ seen \in [Procs -> Observation]
      /\ out \in [Procs -> Outs] /\ wrun \in [Procs -> RunIds \cup {NoRun}]
      /\ forked \in [Procs -> BOOLEAN] /\ ret \in [Procs -> {"none", "ok", "error", "raise"}]
  BY DEF TypeOK
<1> USE DEF Goto, Step, Report, Return, journalVars, fileVars, procVars, workVars, BeforeLaunch, WithRun, WKs, Recorded
<1>1. CASE Deliver(p) \/ Refuse(p) \/ Replay(p)
  BY <1>1, <1>a DEF Deliver, Refuse, Replay
<1>2. CASE BeginReconcile(p) \/ BeginFinalize(p)
  BY <1>2, <1>a DEF BeginReconcile, BeginFinalize, Look
<1>3. CASE Authorize(p)
  BY <1>3, <1>a DEF Authorize
<1>4. CASE Probe(p)
  BY <1>4, <1>a DEF Probe
<1>5. CASE ProbeEnd(p) \/ Write(p) \/ Raise(p) \/ ReleaseActive(p)
  BY <1>5, <1>a DEF ProbeEnd, Write, Raise, ReleaseActive
<1>6. CASE Inspect(p) \/ InspectEnd(p)
  BY <1>6, <1>a DEF Inspect, InspectEnd
<1>7. CASE LockRefused(p) \/ TakeLock(p) \/
            Preflighted(p) \/ AdmissionRejected(p)
  BY <1>7, <1>a DEF LockRefused, TakeLock, Preflighted, AdmissionRejected
<1>8. CASE ReserveRun(p)
  BY <1>8, <1>a DEF ReserveRun
<1>9. CASE BindRun(p) \/ BindRejected(p) \/ Launch(p) \/ RunFails(p)
  BY <1>9, <1>a DEF BindRun, BindRejected, Launch, RunFails
<1>10. CASE OpenResult(p) \/ WriteResult(p) \/ Transported(p)
  BY <1>10, <1>a DEF OpenResult, WriteResult, Transported
<1>11. CASE OpenFailure(p) \/ FailureReturns(p)
  BY <1>11, <1>a DEF OpenFailure, FailureReturns
<1>12. CASE Crash(p)
  BY <1>12, <1>a DEF Crash
<1>13. CASE ChildCrash(p)
  BY <1>13, <1>a DEF ChildCrash
<1> QED BY <1>1, <1>2, <1>3, <1>4, <1>5, <1>6, <1>7, <1>8, <1>9, <1>10, <1>11, <1>12, <1>13
    DEF ProcStep, DeliveryStep, WorkStep

(* How a delivery gets where it is. *)
LEMMA DeliveryFlow ==
  ASSUME TypeOK, NEW p \in Procs, ProcStep(p)
  PROVE  /\ pc'[p] \in JudgingSteps =>
              \/ /\ pc[p] \in JudgingSteps
                 /\ seen'[p].kind = seen[p].kind /\ seen'[p].result = seen[p].result
                 /\ seen'[p].failure = seen[p].failure
              \/ BeginReconcile(p) /\ seen'[p].kind = "reconcile"
              \/ BeginFinalize(p) /\ seen'[p].kind = "finalize"
              \/ Inspect(p) /\ seen'[p].kind = "inspect"
         /\ pc'[p] = "invoked" => pc[p] = "invoked" \/ Authorize(p)
         /\ pc'[p] = "release" =>
              \/ pc[p] = "release"
              \/ Raise(p)
              \/ Write(p) /\ seen[p].kind = "finalize"
<1>a. /\ pc \in [Procs -> PCs] /\ wk \in [Procs -> WKs] /\ seen \in [Procs -> Observation]
      /\ out \in [Procs -> Outs] /\ wrun \in [Procs -> RunIds \cup {NoRun}]
      /\ forked \in [Procs -> BOOLEAN] /\ ret \in [Procs -> {"none", "ok", "error", "raise"}]
  BY DEF TypeOK
<1>b. WorkStep(p) \/ ChildCrash(p) => pc' = pc /\ seen' = seen
  BY DEF WorkStep, procVars, LockRefused, TakeLock, Preflighted, AdmissionRejected,
      ReserveRun, BindRun, BindRejected, Launch, RunFails, OpenResult, WriteResult,
      Transported, OpenFailure, FailureReturns, ChildCrash
<1> USE DEF Goto, Step, Report, Return, journalVars, fileVars, procVars, workVars, JudgingSteps, PCs
<1>1. CASE Deliver(p) \/ Refuse(p) \/ Replay(p)
  BY <1>1, <1>a DEF Deliver, Refuse, Replay
<1>2. CASE BeginReconcile(p) \/ BeginFinalize(p)
  BY <1>2, <1>a DEF BeginReconcile, BeginFinalize, Look
<1>3. CASE Authorize(p)
  BY <1>3, <1>a DEF Authorize
<1>4. CASE Probe(p)
  BY <1>4, <1>a, ProbeKind DEF Probe
<1>5. CASE ProbeEnd(p) \/ ReleaseActive(p)
  BY <1>5, <1>a DEF ProbeEnd, ReleaseActive
<1>6. CASE Write(p)
  BY <1>6, <1>a DEF Write
<1>7. CASE Raise(p)
  BY <1>7, <1>a DEF Raise
<1>8. CASE Inspect(p) \/ InspectEnd(p)
  BY <1>8, <1>a DEF Inspect, InspectEnd
<1>9. CASE Crash(p)
  BY <1>9, <1>a DEF Crash
<1>10. CASE WorkStep(p) \/ ChildCrash(p) BY <1>10, <1>b
<1> QED BY <1>1, <1>2, <1>3, <1>4, <1>5, <1>6, <1>7, <1>8, <1>9, <1>10 DEF ProcStep,
    DeliveryStep, WorkStep

(* Only Launch counts a launch. *)
LEMMA LaunchSteps ==
  ASSUME NEW p \in Procs, ProcStep(p)
  PROVE  launched' = launched \/ Launch(p)
BY DEF ProcStep, DeliveryStep, WorkStep, journalVars, fileVars, Look, Deliver, Refuse, Replay,
    BeginReconcile, Authorize, Probe, ProbeEnd, Write, BeginFinalize, Raise, ReleaseActive,
    Inspect, InspectEnd, LockRefused, TakeLock, Preflighted, AdmissionRejected,
    ReserveRun, BindRun, BindRejected, RunFails, OpenResult, WriteResult,
    Transported, OpenFailure, FailureReturns, Crash, ChildCrash

(* Only ReserveRun admits a RUN. *)
LEMMA RunSteps ==
  ASSUME NEW p \in Procs, ProcStep(p)
  PROVE  runs' = runs \/ ReserveRun(p)
BY DEF ProcStep, DeliveryStep, WorkStep, journalVars, fileVars, Look, Deliver, Refuse, Replay,
    BeginReconcile, Authorize, Probe, ProbeEnd, Write, BeginFinalize, Raise, ReleaseActive,
    Inspect, InspectEnd, LockRefused, TakeLock, Preflighted, AdmissionRejected,
    BindRun, BindRejected, Launch, RunFails, OpenResult, WriteResult, Transported,
    OpenFailure, FailureReturns, Crash, ChildCrash

(* Only the invocation writes its RESULT. *)
LEMMA ResultSteps ==
  ASSUME NEW p \in Procs, ProcStep(p)
  PROVE  results' = results \/ OpenResult(p) \/ WriteResult(p)
BY DEF ProcStep, DeliveryStep, WorkStep, journalVars, fileVars, Look, Deliver, Refuse, Replay,
    BeginReconcile, Authorize, Probe, ProbeEnd, Write, BeginFinalize, Raise, ReleaseActive,
    Inspect, InspectEnd, LockRefused, TakeLock, Preflighted, AdmissionRejected,
    ReserveRun, BindRun, BindRejected, Launch, RunFails, Transported, OpenFailure,
    FailureReturns, Crash, ChildCrash

(* Only the invocation writes its FAILURE. *)
LEMMA FailureSteps ==
  ASSUME NEW p \in Procs, ProcStep(p)
  PROVE  failures' = failures \/ OpenFailure(p) \/ FailureReturns(p)
BY DEF ProcStep, DeliveryStep, WorkStep, journalVars, fileVars, Look, Deliver, Refuse, Replay,
    BeginReconcile, Authorize, Probe, ProbeEnd, Write, BeginFinalize, Raise, ReleaseActive,
    Inspect, InspectEnd, LockRefused, TakeLock, Preflighted, AdmissionRejected,
    ReserveRun, BindRun, BindRejected, Launch, RunFails, OpenResult, WriteResult,
    Transported, Crash, ChildCrash

(* Only these steps take or free a journal lock. *)
LEMMA JournalLockSteps ==
  ASSUME NEW p \in Procs, ProcStep(p)
  PROVE  \/ journalLock' = journalLock
         \/ BeginReconcile(p) \/ BeginFinalize(p) \/ Write(p) \/ Crash(p)
BY DEF ProcStep, DeliveryStep, WorkStep, journalVars, fileVars, Look, Deliver, Refuse, Replay,
    Authorize, Probe, ProbeEnd, Raise, ReleaseActive, Inspect, InspectEnd, LockRefused,
    TakeLock, Preflighted, AdmissionRejected, ReserveRun, BindRun, BindRejected,
    Launch, RunFails, OpenResult, WriteResult, Transported, OpenFailure,
    FailureReturns, ChildCrash

(* Only these steps take or free an active lock. *)
LEMMA ActiveLockSteps ==
  ASSUME NEW p \in Procs, ProcStep(p)
  PROVE  activeLock' = activeLock \/ Authorize(p) \/ ReleaseActive(p) \/ Crash(p)
BY DEF ProcStep, DeliveryStep, WorkStep, journalVars, fileVars, Look, Deliver, Refuse, Replay,
    BeginReconcile, Probe, ProbeEnd, Write, BeginFinalize, Raise, Inspect, InspectEnd,
    LockRefused, TakeLock, Preflighted, AdmissionRejected, ReserveRun, BindRun,
    BindRejected, Launch, RunFails, OpenResult, WriteResult, Transported,
    OpenFailure, FailureReturns, ChildCrash

-----------------------------------------------------------------------------
(* Every step preserves every part of the invariant. *)

(* Records are never removed, so whoever has one keeps it. *)
LEMMA RecordedStep ==
  ASSUME TypeOK, Recorded, NEW p \in Procs, ProcStep(p)
  PROVE  Recorded'
<1>a. /\ pc \in [Procs -> PCs] /\ wk \in [Procs -> WKs] /\ seen \in [Procs -> Observation]
      /\ forked \in [Procs -> BOOLEAN]
  BY DEF TypeOK
<1>b. \A q \in Procs : d(q) \in Dispatches /\ d(q)' = d(q) BY SameRequest
<1>c. \A q \in Procs : Rec(q) # NoRecord => Rec(q)' # NoRecord
  BY <1>b, JournalSteps DEF Rec
<1>d. TypeOK OBVIOUS
<1> USE DEF Goto, Step, Report, Return, journalVars, fileVars, procVars, workVars, PCs, WKs, Recorded, Judging, JudgingSteps, InvokedSteps, Rec
<1>1. CASE Deliver(p) \/ Refuse(p) \/
            Replay(p) \/ BeginReconcile(p) \/ BeginFinalize(p)
  <2>1. CASE Deliver(p) \/ Refuse(p)
    BY <2>1, <1>a, <1>b, <1>c, <1>d DEF Deliver, Refuse
  <2>2. CASE Replay(p)
    BY <2>2, <1>a, <1>b, <1>c, <1>d DEF Replay
  <2>3. CASE BeginReconcile(p)
    BY <2>3, <1>a, <1>b, <1>c, <1>d DEF BeginReconcile, Look
  <2>4. CASE BeginFinalize(p)
    BY <2>4, <1>a, <1>b, <1>c, <1>d DEF BeginFinalize, Look
  <2> QED BY <1>1, <2>1, <2>2, <2>3, <2>4
<1>2. CASE Authorize(p)
  <2>1. Rec(p)' # NoRecord BY <1>2, <1>b, AuthorizedRecord
  <2>2. PICK w \in {"preflight", "admit"} : wk' = [wk EXCEPT ![p] = w]
    BY <1>2 DEF Authorize
  <2>3. pc' = [pc EXCEPT ![p] = "invoked"] /\ UNCHANGED <<seen, forked>> BY <1>2 DEF Authorize
  <2> HIDE DEF Rec
  <2> QED BY <1>a, <1>c, <2>1, <2>2, <2>3
<1>3. CASE Probe(p)
  BY <1>3, <1>a, <1>b, <1>c, <1>d, ProbeKind DEF Probe
<1>4. CASE ProbeEnd(p) \/ Raise(p) \/ ReleaseActive(p)
  BY <1>4, <1>a, <1>b, <1>c, <1>d DEF ProbeEnd, Raise, ReleaseActive
<1>5. CASE Inspect(p) \/ InspectEnd(p)
  BY <1>5, <1>a, <1>b, <1>c, <1>d DEF Inspect, InspectEnd
<1>6. CASE Write(p)
  BY <1>6, <1>a, <1>b, <1>c, <1>d DEF Write
<1>7. CASE LockRefused(p) \/ TakeLock(p) \/
            Preflighted(p) \/ AdmissionRejected(p)
  BY <1>7, <1>a, <1>b, <1>c, <1>d DEF LockRefused, TakeLock, Preflighted, AdmissionRejected
<1>8. CASE ReserveRun(p) \/ BindRun(p) \/
            BindRejected(p) \/ Launch(p) \/ RunFails(p)
  BY <1>8, <1>a, <1>b, <1>c, <1>d DEF ReserveRun, BindRun, BindRejected, Launch, RunFails
<1>9. CASE OpenResult(p) \/ WriteResult(p) \/ Transported(p)
  BY <1>9, <1>a, <1>b, <1>c, <1>d DEF OpenResult, WriteResult, Transported
<1>10. CASE OpenFailure(p) \/ FailureReturns(p)
  BY <1>10, <1>a, <1>b, <1>c, <1>d DEF OpenFailure, FailureReturns
<1>11. CASE Crash(p)
  BY <1>11, <1>a, <1>b, <1>c, <1>d DEF Crash
<1>12. CASE ChildCrash(p)
  BY <1>12, <1>a, <1>b, <1>c, <1>d DEF ChildCrash
<1> QED BY <1>1, <1>2, <1>3, <1>4, <1>5, <1>6, <1>7, <1>8, <1>9, <1>10, <1>11, <1>12 DEF
    ProcStep, DeliveryStep, WorkStep

(* The first record of an id is written by the one process that invokes it. *)
LEMMA OneInvocationStep ==
  ASSUME TypeOK, Recorded, OneInvocation, NEW p \in Procs, ProcStep(p)
  PROVE  OneInvocation'
<1>1. \A q \in Procs : d(q)' = d(q) BY SameRequest
<1>2. \A q \in Procs : wk'[q] # "none" => wk[q] # "none" \/ (q = p /\ Authorize(p))
  BY OthersKeep, WorkFlow
<1>3. Authorize(p) => \A q \in Procs : wk[q] # "none" => d(q) # d(p)
  BY AuthorizedRecord DEF Recorded, Rec
<1> QED BY <1>1, <1>2, <1>3 DEF OneInvocation

(* The step to the executor is taken once by one process. *)
LEMMA LaunchCountStep ==
  ASSUME TypeOK, Recorded, OneInvocation, LaunchCount, NEW p \in Procs, ProcStep(p)
  PROVE  LaunchCount'
<1>1. \A q \in Procs : d(q) \in Dispatches /\ d(q)' = d(q) BY SameRequest
<1>2. launched \in [Dispatches -> Nat] BY DEF TypeOK
<1>3. CASE Launch(p)
  <2>1. /\ launched' = [launched EXCEPT ![d(p)] = launched[d(p)] + 1]
        /\ wk[p] = "bound" /\ wk'[p] = "executing" /\ journal' = journal
    BY <1>3 DEF Launch, Step, journalVars, TypeOK
  <2>2. launched[d(p)] = 0 /\ journal[d(p)] # NoRecord
    BY <2>1 DEF LaunchCount, BeforeLaunch, Recorded, Rec
  <2>3. launched'[d(p)] = 1 /\ \A x \in Dispatches : x # d(p) => launched'[x] = launched[x]
    BY <1>1, <1>2, <2>1, <2>2
  <2>4. \A q \in Procs : q # p /\ wk'[q] # "none" => wk'[q] = wk[q] /\ d(q) # d(p)
    BY <2>1, OthersKeep DEF OneInvocation
  <2>5. \A q \in Procs : wk'[q] \in BeforeLaunch => launched'[d(q)] = 0
    BY <1>1, <2>1, <2>3, <2>4 DEF LaunchCount, BeforeLaunch
  <2>6. \A q \in Procs : wk'[q] = "executing" => launched'[d(q)] = 1
    BY <1>1, <2>1, <2>3, <2>4 DEF LaunchCount
  <2>7. \A x \in Dispatches : launched'[x] \in {0, 1} /\ (journal'[x] = NoRecord => launched'[x] = 0)
    BY <2>1, <2>2, <2>3 DEF LaunchCount
  <2> QED BY <1>1, <2>5, <2>6, <2>7 DEF LaunchCount
<1>4. CASE ~Launch(p)
  <2>1. launched' = launched BY <1>4, LaunchSteps
  <2>2. \A x \in Dispatches : journal'[x] = NoRecord => journal[x] = NoRecord
    BY JournalSteps
  <2>3. Authorize(p) => launched[d(p)] = 0
    BY <1>1, AuthorizedRecord DEF LaunchCount, Rec
  <2>4. \A q \in Procs : wk'[q] \in BeforeLaunch => launched[d(q)] = 0
    BY <2>3, OthersKeep, WorkFlow DEF LaunchCount
  <2>5. \A q \in Procs : wk'[q] = "executing" => launched[d(q)] = 1
    BY <1>4, OthersKeep, WorkFlow DEF LaunchCount
  <2> QED BY <1>1, <2>1, <2>2, <2>4, <2>5 DEF LaunchCount
<1> QED BY <1>3, <1>4

(* The number of a new RUN is above every number in use. *)
LEMMA NewRun ==
  ASSUME TypeOK, NEW p \in Procs, ReserveRun(p)
  PROVE  /\ wrun'[p] \in RunIds /\ runs[wrun'[p]] = NoBinding
         /\ runs'[wrun'[p]] # NoBinding
         /\ \A r \in RunIds : r # wrun'[p] => runs'[r] = runs[r]
         /\ journal' = journal /\ results' = results /\ failures' = failures
<1>1. PICK r \in RunIds : /\ IsNextRun(r)
                          /\ runs' = [runs EXCEPT ![r] = req[p].binding]
                          /\ wrun' = [wrun EXCEPT ![p] = r]
  BY DEF ReserveRun
<1>2. wrun'[p] = r BY <1>1 DEF TypeOK
<1>3. r \notin UsedRuns BY <1>1, RunAssumption DEF IsNextRun
<1>4. runs[r] = NoBinding BY <1>3 DEF UsedRuns
<1>5. req[p].binding \in Bindings BY DEF TypeOK
<1>6. runs'[r] = req[p].binding /\ \A s \in RunIds : s # r => runs'[s] = runs[s]
  BY <1>1 DEF TypeOK
<1> QED BY <1>2, <1>4, <1>5, <1>6, NullAssumption DEF ReserveRun, journalVars

(* Files belong to invocations that hold a RUN. *)
LEMMA FileOwner ==
  ASSUME TypeOK, Recorded, NEW p \in Procs, ProcStep(p), NEW r \in RunIds
  PROVE  /\ results'[r] # results[r] => wk[p] \in {"executing", "writing"} /\ r = wrun[p]
         /\ failures'[r] # failures[r] => wk[p] \in {"failing", "recording"} /\ r = wrun[p]
<1>1. results \in [RunIds -> FileState] /\ failures \in [RunIds -> FileState]
  BY DEF TypeOK
<1>2. CASE OpenResult(p) \/ WriteResult(p)
  BY <1>1, <1>2 DEF OpenResult, WriteResult
<1>3. CASE OpenFailure(p) \/ FailureReturns(p)
  BY <1>1, <1>3 DEF OpenFailure, FailureReturns
<1> QED BY <1>2, <1>3, ResultSteps, FailureSteps

(* A RUN is admitted before anything refers to it, and stays admitted. *)
LEMMA AdmittedStep ==
  ASSUME TypeOK, Recorded, Admitted, NEW p \in Procs, ProcStep(p)
  PROVE  Admitted'
<1>1. \A q \in Procs : d(q) \in Dispatches /\ d(q)' = d(q) BY SameRequest
<1>2. \A r \in RunIds : runs'[r] # NoBinding \/ runs[r] = NoBinding
  BY RunSteps, NewRun
<1>3. \A q \in Procs : wk'[q] \in WithRun => wrun'[q] \in RunIds /\ runs'[wrun'[q]] # NoBinding
  BY <1>2, OthersKeep, WorkFlow, NewRun DEF Admitted
<1>4. \A x \in Dispatches : journal'[x] # NoRecord /\ journal'[x].run # NoRun =>
        \/ journal[x] # NoRecord /\ journal[x].run # NoRun /\ journal'[x].run = journal[x].run
        \/ BindRun(p) /\ x = d(p) /\ journal'[x].run = wrun[p]
  BY <1>1, JournalSteps, AuthorizedRecord, BoundRecord, WrittenRecord DEF Rec
<1>5. BindRun(p) => wrun[p] \in RunIds /\ runs[wrun[p]] # NoBinding
  BY DEF BindRun, Admitted, WithRun
<1>6. \A x \in Dispatches : journal[x] # NoRecord => journal[x].run \in RunIds \cup {NoRun}
  BY DEF TypeOK, Record
<1>7. \A x \in Dispatches :
        journal'[x] # NoRecord /\ journal'[x].run # NoRun => runs'[journal'[x].run] # NoBinding
  BY <1>2, <1>4, <1>5, <1>6 DEF Admitted
<1>8. \A r \in RunIds : runs'[r] = NoBinding => results'[r] = "absent" /\ failures'[r] = "absent"
  <2> SUFFICES ASSUME NEW r \in RunIds, runs'[r] = NoBinding
               PROVE  results'[r] = "absent" /\ failures'[r] = "absent"
    OBVIOUS
  <2>1. runs[r] = NoBinding BY <1>2
  <2>2. ~(wk[p] \in WithRun /\ r = wrun[p]) BY <2>1 DEF Admitted
  <2> QED BY <2>1, <2>2, FileOwner DEF Admitted, WithRun
<1> QED BY <1>3, <1>7, <1>8 DEF Admitted

(* A RUN number is handed out once, so its owner is unique. *)
LEMMA OwnRunStep ==
  ASSUME TypeOK, Recorded, Admitted, OwnRun, NEW p \in Procs, ProcStep(p)
  PROVE  OwnRun'
<1>1. \A q \in Procs : d(q) \in Dispatches /\ d(q)' = d(q) BY SameRequest
<1>2. \A q \in Procs : wk'[q] \in WithRun =>
        \/ wk[q] \in WithRun /\ wrun'[q] = wrun[q]
        \/ q = p /\ ReserveRun(p)
  BY OthersKeep, WorkFlow
<1>3. ReserveRun(p) => \A q \in Procs : wk[q] \in WithRun => wrun[q] # wrun'[p]
  BY NewRun DEF Admitted
<1>4. \A q, r \in Procs :
        wk'[q] \in WithRun /\ wk'[r] \in WithRun /\ wrun'[q] = wrun'[r] => q = r
  BY <1>2, <1>3 DEF OwnRun
<1>5. \A q \in Procs : \A x \in Dispatches :
        wk'[q] \in WithRun /\ journal'[x] # NoRecord /\ journal'[x].run = wrun'[q] => x = d(q)
  <2> SUFFICES ASSUME NEW q \in Procs, NEW x \in Dispatches, wk'[q] \in WithRun,
                      journal'[x] # NoRecord, journal'[x].run = wrun'[q]
               PROVE  x = d(q)
    OBVIOUS
  <2>1. wrun'[q] # NoRun
    BY <1>2, NewRun, NullAssumption DEF Admitted
  <2>2. \/ journal[x] # NoRecord /\ journal[x].run # NoRun /\ journal'[x].run = journal[x].run
        \/ BindRun(p) /\ x = d(p) /\ journal'[x].run = wrun[p]
    BY <1>1, <2>1, JournalSteps, AuthorizedRecord, BoundRecord, WrittenRecord DEF Rec
  <2>3. CASE BindRun(p) /\ x = d(p) /\ journal'[x].run = wrun[p]
    <3>1. wk[p] \in WithRun /\ ~ReserveRun(p) BY <2>3 DEF BindRun, WithRun, ReserveRun
    <3> QED BY <1>2, <2>3, <3>1 DEF OwnRun
  <2>4. CASE journal[x] # NoRecord /\ journal[x].run # NoRun /\ journal'[x].run = journal[x].run
    <3>1. runs[wrun'[q]] # NoBinding BY <2>4 DEF Admitted
    <3>2. wk[q] \in WithRun /\ wrun'[q] = wrun[q] BY <1>2, <3>1, NewRun
    <3> QED BY <2>4, <3>2 DEF OwnRun
  <2> QED BY <2>2, <2>3, <2>4
<1> QED BY <1>1, <1>4, <1>5 DEF OwnRun

(* An artifact never disappears. *)
LEMMA FilesStay ==
  ASSUME TypeOK, NEW p \in Procs, ProcStep(p), NEW r \in RunIds
  PROVE  /\ Exists(results[r]) => Exists(results'[r])
         /\ Exists(failures[r]) => Exists(failures'[r])
<1>1. results \in [RunIds -> FileState] /\ failures \in [RunIds -> FileState]
  BY DEF TypeOK
<1>2. CASE OpenResult(p) \/ WriteResult(p)
  BY <1>1, <1>2 DEF OpenResult, WriteResult, Exists
<1>3. CASE OpenFailure(p) \/ FailureReturns(p)
  BY <1>1, <1>3 DEF OpenFailure, FailureReturns, Exists
<1> QED BY <1>2, <1>3, ResultSteps, FailureSteps

(* An invocation creates its artifacts itself, one step at a time. *)
LEMMA FilesStep ==
  ASSUME TypeOK, Recorded, Admitted, OwnRun, Files, NEW p \in Procs, ProcStep(p)
  PROVE  Files'
<1>1. results \in [RunIds -> FileState] /\ failures \in [RunIds -> FileState]
      /\ wk \in [Procs -> WKs]
  BY DEF TypeOK
<1>2. ASSUME NEW q \in Procs, wk'[q] \in {"reserved", "bound", "executing"}
      PROVE  results'[wrun'[q]] = "absent" /\ failures'[wrun'[q]] = "absent"
  <2>1. CASE q = p /\ ReserveRun(p)
    BY <2>1, NewRun DEF Admitted
  <2>2. CASE ~(q = p /\ ReserveRun(p))
    <3>1. wk[q] \in {"reserved", "bound", "executing"} /\ wrun'[q] = wrun[q]
      <4>1. wk[q] \in {"reserved", "bound", "executing"}
        BY <1>2, <2>2, OthersKeep, WorkFlow DEF BindRun, Launch
      <4>2. wk'[q] \in WithRun BY <1>2 DEF WithRun
      <4> QED BY <2>2, <4>1, <4>2, OthersKeep, WorkFlow
    <3>2. wrun[q] \in RunIds /\ wk[q] \in WithRun BY <3>1 DEF Admitted, WithRun
    <3>3. results[wrun[q]] = "absent" /\ failures[wrun[q]] = "absent" BY <3>1 DEF Files
    <3>4. wk[p] \in WithRun /\ wrun[p] = wrun[q] => p = q BY <3>2 DEF OwnRun
    <3>5. CASE p # q
      BY <3>1, <3>2, <3>3, <3>4, <3>5, FileOwner DEF WithRun
    <3>6. CASE p = q
      <4>1. ~OpenResult(p) /\ ~WriteResult(p) /\ ~OpenFailure(p) /\ ~FailureReturns(p)
        BY <1>1, <1>2, <3>6 DEF OpenResult, WriteResult, OpenFailure, FailureReturns, Step, Return
      <4> QED BY <3>1, <3>3, <4>1, ResultSteps, FailureSteps
    <3> QED BY <3>5, <3>6
  <2> QED BY <2>1, <2>2
<1>3. ASSUME NEW q \in Procs, wk'[q] \in {"writing", "transport"}
      PROVE  Exists(results'[wrun'[q]])
  <2>1. wk'[q] \in WithRun BY <1>3 DEF WithRun
  <2>2. \/ wk[q] \in {"writing", "transport"}
        \/ q = p /\ (OpenResult(p) \/ WriteResult(p))
    <3>1. CASE q # p BY <1>3, <3>1, OthersKeep
    <3>2. CASE q = p /\ wk'[p] = "writing" BY <3>2, WorkFlow
    <3>3. CASE q = p /\ wk'[p] = "transport" BY <3>3, WorkFlow
    <3> QED BY <1>3, <3>1, <3>2, <3>3
  <2>3. wk[q] \in WithRun /\ wrun'[q] = wrun[q]
    BY <2>1, <2>2, OthersKeep, WorkFlow DEF WithRun, OpenResult, WriteResult, ReserveRun
  <2>4. wrun[q] \in RunIds BY <2>3 DEF Admitted
  <2>5. CASE wk[q] \in {"writing", "transport"}
    BY <2>3, <2>4, <2>5, FilesStay DEF Files
  <2>6. CASE q = p /\ (OpenResult(p) \/ WriteResult(p))
    BY <1>1, <2>3, <2>4, <2>6 DEF OpenResult, WriteResult, Exists
  <2> QED BY <2>2, <2>5, <2>6
<1>4. ASSUME NEW q \in Procs, wk'[q] = "recording"
      PROVE  Exists(failures'[wrun'[q]])
  <2>1. wk'[q] \in WithRun BY <1>4 DEF WithRun
  <2>2. wk[q] = "recording" \/ (q = p /\ OpenFailure(p))
    <3>1. CASE q # p BY <1>4, <3>1, OthersKeep
    <3>2. CASE q = p BY <1>4, <3>2, WorkFlow
    <3> QED BY <3>1, <3>2
  <2>3. wk[q] \in WithRun /\ wrun'[q] = wrun[q]
    BY <2>1, <2>2, OthersKeep, WorkFlow DEF WithRun, OpenFailure, ReserveRun
  <2>4. wrun[q] \in RunIds BY <2>3 DEF Admitted
  <2>5. CASE wk[q] = "recording"
    BY <2>3, <2>4, <2>5, FilesStay DEF Files
  <2>6. CASE q = p /\ OpenFailure(p)
    BY <1>1, <2>3, <2>4, <2>6 DEF OpenFailure, Exists
  <2> QED BY <2>2, <2>5, <2>6
<1> QED BY <1>2, <1>3, <1>4 DEF Files

(* Both artifacts are created under a guard that neither exists. *)
LEMMA OneTerminalArtifactStep ==
  ASSUME TypeOK, Recorded, Files, OneTerminalArtifact, NEW p \in Procs, ProcStep(p)
  PROVE  OneTerminalArtifact'
<1> USE DEF OneTerminalArtifact, Exists
<1>1. results \in [RunIds -> FileState] /\ failures \in [RunIds -> FileState]
  BY DEF TypeOK
<1>2. CASE OpenResult(p) BY <1>1, <1>2 DEF OpenResult, journalVars
<1>3. CASE WriteResult(p) BY <1>1, <1>3 DEF WriteResult, Files
<1>4. CASE OpenFailure(p) BY <1>1, <1>4 DEF OpenFailure
<1>5. CASE FailureReturns(p) BY <1>1, <1>5 DEF FailureReturns, Files
<1> QED BY <1>2, <1>3, <1>4, <1>5, ResultSteps, FailureSteps

(* The owner of a RUN changes only when the RUN is bound. *)
LEMMA OwnerSteps ==
  ASSUME TypeOK, Recorded, NEW p \in Procs, ProcStep(p),
         NEW x \in Dispatches, journal'[x] # NoRecord, journal'[x].run # NoRun
  PROVE  \/ journal[x] # NoRecord /\ journal'[x].run = journal[x].run
         \/ BindRun(p) /\ x = d(p) /\ journal'[x].run = wrun[p]
BY SameRequest, JournalSteps, AuthorizedRecord, BoundRecord, WrittenRecord DEF Rec

(* A RESULT is created by an executing invocation, which was launched. *)
LEMMA ResultOfLaunchStep ==
  ASSUME TypeOK, Recorded, LaunchCount, LaunchCount', Admitted, OwnRun, Files,
         ResultOfLaunch, NEW p \in Procs, ProcStep(p)
  PROVE  ResultOfLaunch'
<1> SUFFICES ASSUME NEW x \in Dispatches, journal'[x] # NoRecord, journal'[x].run # NoRun,
                    Exists(results'[journal'[x].run])
             PROVE  launched'[x] = 1
  BY DEF ResultOfLaunch
<1>1. d(p) \in Dispatches BY SameRequest
<1>2. launched[x] = 1 => launched'[x] = 1
  <2>1. launched \in [Dispatches -> Nat] BY DEF TypeOK
  <2>2. Launch(p) => launched' = [launched EXCEPT ![d(p)] = launched[d(p)] + 1]
    BY DEF Launch
  <2>3. launched'[x] \in {0, 1} BY DEF LaunchCount
  <2> QED BY <1>1, <2>1, <2>2, <2>3, LaunchSteps
<1>3. CASE BindRun(p) /\ x = d(p) /\ journal'[x].run = wrun[p]
  <2>1. results'[wrun[p]] = "absent" BY <1>3 DEF BindRun, Files, fileVars
  <2> QED BY <1>3, <2>1 DEF Exists
<1>4. CASE journal[x] # NoRecord /\ journal'[x].run = journal[x].run
  <2> DEFINE r == journal[x].run
  <2>1. r \in RunIds BY <1>4 DEF TypeOK, Record
  <2>2. CASE results'[r] = results[r]
    BY <1>2, <1>4, <2>1, <2>2 DEF ResultOfLaunch
  <2>3. CASE results'[r] # results[r]
    <3>1. wk[p] \in {"executing", "writing"} /\ r = wrun[p] BY <2>1, <2>3, FileOwner
    <3>2. x = d(p) BY <1>4, <3>1 DEF OwnRun, WithRun
    <3>3. CASE wk[p] = "executing" BY <1>2, <3>2, <3>3 DEF LaunchCount
    <3>4. CASE wk[p] = "writing" BY <1>2, <1>4, <3>1, <3>4 DEF Files, ResultOfLaunch
    <3> QED BY <3>1, <3>3, <3>4
  <2> QED BY <2>2, <2>3
<1> QED BY <1>3, <1>4, OwnerSteps

(* BindRun writes the ownership, and no later step takes it back. *)
LEMMA OwnedBeforeLaunchStep ==
  ASSUME TypeOK, Recorded, OneInvocation, Admitted, OwnedBeforeLaunch,
         NEW p \in Procs, ProcStep(p)
  PROVE  OwnedBeforeLaunch'
<1> SUFFICES ASSUME NEW q \in Procs, AtWork(q)'
             PROVE  Rec(q)' # NoRecord /\ Rec(q)'.run = wrun'[q]
  BY DEF OwnedBeforeLaunch
<1>1. d(q) \in Dispatches /\ d(q)' = d(q) BY SameRequest
<1>2. AtWork(q) \/ (q = p /\ BindRun(p))
  <2>1. CASE q # p BY <2>1, OthersKeep DEF AtWork
  <2>2. Launch(p) \/ OpenResult(p) \/ WriteResult(p) => AtWork(p)
    BY DEF AtWork, Launch, OpenResult, WriteResult
  <2>3. CASE q = p BY <2>2, <2>3, WorkFlow DEF AtWork
  <2> QED BY <2>1, <2>3
<1>3. CASE q = p /\ BindRun(p)
  BY <1>1, <1>3, BoundRecord DEF BindRun, Rec
<1>4. CASE AtWork(q)
  <2>1. wk[q] \in WithRun /\ wk'[q] \in WithRun BY <1>4 DEF AtWork, WithRun
  <2>2. wrun'[q] = wrun[q]
    BY <1>4, <2>1, OthersKeep, WorkFlow DEF AtWork, ReserveRun
  <2>3. Rec(q) # NoRecord /\ Rec(q).run = wrun[q] /\ wrun[q] # NoRun
    BY <1>4, <2>1, NullAssumption DEF OwnedBeforeLaunch, Admitted
  <2> QED BY <1>1, <2>2, <2>3, JournalSteps DEF Rec
<1> QED BY <1>2, <1>3, <1>4

(* BindRun names a RUN that no other record names. *)
LEMMA RunHasOneOwnerStep ==
  ASSUME TypeOK, Recorded, OwnRun, RunHasOneOwner, NEW p \in Procs, ProcStep(p)
  PROVE  RunHasOneOwner'
<1> SUFFICES ASSUME NEW x \in Dispatches, NEW y \in Dispatches, x # y,
                    journal'[x] # NoRecord, journal'[y] # NoRecord, journal'[x].run # NoRun,
                    journal'[x].run = journal'[y].run
             PROVE  FALSE
  BY DEF RunHasOneOwner
<1>1. \/ journal[x] # NoRecord /\ journal'[x].run = journal[x].run
      \/ BindRun(p) /\ x = d(p) /\ journal'[x].run = wrun[p]
  BY OwnerSteps
<1>2. \/ journal[y] # NoRecord /\ journal'[y].run = journal[y].run
      \/ BindRun(p) /\ y = d(p) /\ journal'[y].run = wrun[p]
  BY OwnerSteps
<1>3. BindRun(p) => wk[p] \in WithRun BY DEF BindRun, WithRun
<1> QED BY <1>1, <1>2, <1>3 DEF RunHasOneOwner, OwnRun

(* Who has taken a journal lock keeps it until it writes or dies. *)
LEMMA JournalLockKept ==
  ASSUME TypeOK, Recorded, Locking, NEW p \in Procs, ProcStep(p), NEW q \in Procs,
         journalLock[Family(q)] = q, pc'[q] \in JudgingSteps
  PROVE  journalLock'[Family(q)] = q
<1>1. /\ journalLock \in [Families -> Procs \cup {NoProc}] /\ pc \in [Procs -> PCs]
      /\ seen[p].kind \in {"none", "reconcile", "finalize", "inspect"}
  BY DEF TypeOK, Observation
<1>2. Family(p) \in Families /\ Family(q) \in Families BY SameRequest
<1>3. CASE BeginReconcile(p) \/ BeginFinalize(p)
  <2>1. journalLock[Family(p)] = NoProc /\ journalLock' = [journalLock EXCEPT ![Family(p)] = p]
    BY <1>3 DEF BeginReconcile, BeginFinalize, JournalFree, Look
  <2> QED BY <1>1, <1>2, <2>1, ProcAssumption
<1>4. CASE Write(p)
  <2>1. /\ pc[p] = "write"
        /\ journalLock' = [journalLock EXCEPT ![Family(p)] = NoProc]
    BY <1>4 DEF Write
  <2>2. pc'[p] \notin JudgingSteps BY <1>1, <1>4 DEF Write, Goto, JudgingSteps
  <2>3. journalLock[Family(p)] = p
    BY <1>1, <2>1 DEF Recorded, Locking, Judging, JudgingSteps
  <2> QED BY <1>1, <1>2, <2>1, <2>2, <2>3
<1>5. CASE Crash(p)
  <2>1. pc'[p] = "dead" /\ journalLock' = Unlocked(journalLock, p)
    BY <1>1, <1>5 DEF Crash, Goto
  <2> QED BY <1>1, <1>2, <2>1 DEF Unlocked, JudgingSteps
<1> QED BY <1>3, <1>4, <1>5, JournalLockSteps

(* Who has taken an active lock keeps it until it releases it or dies. *)
LEMMA ActiveLockKept ==
  ASSUME TypeOK, Recorded, Locking, NEW p \in Procs, ProcStep(p), NEW q \in Procs,
         activeLock[d(q)] = q, Rec(q) # NoRecord, pc'[q] \in JudgingSteps \cup InvokedSteps
  PROVE  activeLock'[d(q)] = q
<1>1. activeLock \in [Dispatches -> Procs \cup {NoProc}] /\ pc \in [Procs -> PCs]
  BY DEF TypeOK
<1>2. d(p) \in Dispatches /\ d(q) \in Dispatches BY SameRequest
<1>3. CASE Authorize(p)
  <2>1. d(p) # d(q) BY <1>3, AuthorizedRecord DEF Rec
  <2> QED BY <1>1, <1>2, <1>3, <2>1 DEF Authorize
<1>4. CASE ReleaseActive(p)
  <2>1. activeLock[d(p)] = p BY <1>4 DEF ReleaseActive, Locking
  <2>2. pc'[p] = "done" BY <1>1, <1>4 DEF ReleaseActive, Goto
  <2>3. d(p) # d(q) BY <2>1, <2>2 DEF JudgingSteps, InvokedSteps
  <2> QED BY <1>1, <1>2, <1>4, <2>3 DEF ReleaseActive
<1>5. CASE Crash(p)
  <2>1. pc'[p] = "dead" /\ activeLock' = Unlocked(activeLock, p)
    BY <1>1, <1>5 DEF Crash, Goto
  <2> QED BY <1>1, <1>2, <2>1 DEF Unlocked, JudgingSteps, InvokedSteps
<1> QED BY <1>3, <1>4, <1>5, ActiveLockSteps

(* Only the process that judges a record writes a verdict into it. *)
LEMMA StatusKept ==
  ASSUME TypeOK, Recorded, Locking, NEW p \in Procs, ProcStep(p), NEW q \in Procs,
         Rec(q) # NoRecord,
         \/ journalLock[Family(q)] = q
         \/ activeLock[d(q)] = q,
         ~(q = p /\ Write(p))
  PROVE  Rec(q)'.status = Rec(q).status
<1>1. /\ \A r \in Procs : d(r) \in Dispatches /\ d(r)' = d(r)
      /\ seen[p].kind \in {"none", "reconcile", "finalize", "inspect"}
  BY SameRequest DEF TypeOK, Observation
<1>2. CASE Authorize(p) BY <1>1, <1>2, AuthorizedRecord DEF Rec
<1>3. CASE BindRun(p) BY <1>1, <1>3, BoundRecord DEF Rec
<1>4. CASE Write(p)
  <2>1. Judging(p, "reconcile") \/ Judging(p, "finalize")
    BY <1>1, <1>4 DEF Write, Recorded, Judging, JudgingSteps
  <2>2. /\ journalLock[Family(p)] = p
        /\ activeLock[d(p)] \in {p, NoProc}
    BY <2>1 DEF Locking
  <2>3. d(q) # d(p) BY <1>4, <2>2, ProcAssumption DEF Family
  <2> QED BY <1>1, <1>4, <2>3, WrittenRecord DEF Rec
<1>5. CASE journal' = journal BY <1>1, <1>5 DEF Rec
<1> QED BY <1>2, <1>3, <1>4, <1>5, JournalSteps

(* The locks a process needs are its own while it judges or invokes. *)
LEMMA LockingStep ==
  ASSUME TypeOK, Recorded, Locking, NEW p \in Procs, ProcStep(p)
  PROVE  Locking'
<1> SUFFICES ASSUME NEW q \in Procs
             PROVE  /\ Judging(q, "reconcile")' =>
                         /\ journalLock'[Family(q)] = q /\ activeLock'[d(q)] = NoProc
                         /\ Rec(q)'.status \notin Terminal
                    /\ Judging(q, "finalize")' =>
                         /\ journalLock'[Family(q)] = q /\ activeLock'[d(q)] = q
                         /\ Rec(q)'.status = "STARTED"
                    /\ pc'[q] = "invoked" => activeLock'[d(q)] = q /\ Rec(q)'.status = "STARTED"
                    /\ pc'[q] = "release" => activeLock'[d(q)] = q
  BY SameRequest DEF Locking
<1>1. /\ journalLock \in [Families -> Procs \cup {NoProc}]
      /\ activeLock \in [Dispatches -> Procs \cup {NoProc}] /\ pc \in [Procs -> PCs]
  BY DEF TypeOK
<1>2. /\ d(p) \in Dispatches /\ d(q) \in Dispatches /\ Family(q) \in Families
      /\ d(q)' = d(q)
  BY SameRequest
<1>3. pc'[q] \in JudgingSteps \/ pc'[q] = "invoked" => ~(q = p /\ Write(p))
  BY <1>1 DEF Write, Goto, JudgingSteps
<1>4. Judging(q, "reconcile")' =>
        /\ journalLock'[Family(q)] = q /\ activeLock'[d(q)] = NoProc
        /\ Rec(q)'.status \notin Terminal
  <2> SUFFICES ASSUME Judging(q, "reconcile")'
               PROVE  /\ journalLock'[Family(q)] = q /\ activeLock'[d(q)] = NoProc
                      /\ Rec(q)'.status \notin Terminal
    OBVIOUS
  <2>1. Judging(q, "reconcile") \/ (q = p /\ BeginReconcile(p))
    <3>1. CASE q # p BY <3>1, OthersKeep DEF Judging
    <3>2. CASE q = p BY <3>2, DeliveryFlow DEF Judging
    <3> QED BY <3>1, <3>2
  <2>2. CASE Judging(q, "reconcile")
    <3>1. /\ journalLock[Family(q)] = q /\ activeLock[d(q)] = NoProc
          /\ Rec(q).status \notin Terminal /\ Rec(q) # NoRecord
      BY <2>2 DEF Locking, Judging, Recorded
    <3>2. journalLock'[Family(q)] = q BY <3>1, JournalLockKept DEF Judging
    <3>3. Rec(q)'.status \notin Terminal BY <1>3, <3>1, StatusKept DEF Judging
    <3>4. activeLock'[d(q)] = NoProc
      <4>1. Authorize(p) => d(p) # d(q) BY <3>1, AuthorizedRecord DEF Rec
      <4>2. CASE Authorize(p) BY <1>1, <1>2, <3>1, <4>1, <4>2 DEF Authorize
      <4>3. CASE ReleaseActive(p) BY <1>1, <1>2, <3>1, <4>3 DEF ReleaseActive
      <4>4. CASE Crash(p) BY <1>1, <1>2, <3>1, <4>4 DEF Crash, Unlocked
      <4> QED BY <3>1, <4>2, <4>3, <4>4, ActiveLockSteps
    <3> QED BY <3>2, <3>3, <3>4
  <2>3. CASE q = p /\ BeginReconcile(p)
    BY <1>1, <1>2, <2>3
       DEF BeginReconcile, Look, Idle, Settled, Rec, journalVars
  <2> QED BY <2>1, <2>2, <2>3
<1>5. Judging(q, "finalize")' =>
        /\ journalLock'[Family(q)] = q /\ activeLock'[d(q)] = q
        /\ Rec(q)'.status = "STARTED"
  <2> SUFFICES ASSUME Judging(q, "finalize")'
               PROVE  /\ journalLock'[Family(q)] = q /\ activeLock'[d(q)] = q
                      /\ Rec(q)'.status = "STARTED"
    OBVIOUS
  <2>1. Judging(q, "finalize") \/ (q = p /\ BeginFinalize(p))
    <3>1. CASE q # p BY <3>1, OthersKeep DEF Judging
    <3>2. CASE q = p BY <3>2, DeliveryFlow DEF Judging
    <3> QED BY <3>1, <3>2
  <2>2. CASE Judging(q, "finalize")
    <3>1. /\ journalLock[Family(q)] = q /\ activeLock[d(q)] = q
          /\ Rec(q).status = "STARTED" /\ Rec(q) # NoRecord
      BY <2>2 DEF Locking, Judging, Recorded
    <3> QED BY <1>3, <3>1, JournalLockKept, ActiveLockKept, StatusKept DEF Judging
  <2>3. CASE q = p /\ BeginFinalize(p)
    <3>1. pc[q] = "invoked" BY <2>3 DEF BeginFinalize
    <3> QED BY <1>1, <1>2, <2>3, <3>1 DEF BeginFinalize, Look, Rec, Locking
  <2> QED BY <2>1, <2>2, <2>3
<1>6. pc'[q] = "invoked" => activeLock'[d(q)] = q /\ Rec(q)'.status = "STARTED"
  <2> SUFFICES ASSUME pc'[q] = "invoked"
               PROVE  activeLock'[d(q)] = q /\ Rec(q)'.status = "STARTED"
    OBVIOUS
  <2>1. pc[q] = "invoked" \/ (q = p /\ Authorize(p))
    <3>1. CASE q # p BY <3>1, OthersKeep
    <3>2. CASE q = p BY <3>2, DeliveryFlow
    <3> QED BY <3>1, <3>2
  <2>2. CASE pc[q] = "invoked"
    <3>1. activeLock[d(q)] = q /\ Rec(q).status = "STARTED" /\ Rec(q) # NoRecord
      BY <2>2 DEF Locking, Recorded, InvokedSteps
    <3> QED BY <1>3, <3>1, ActiveLockKept, StatusKept DEF InvokedSteps
  <2>3. CASE q = p /\ Authorize(p)
    <3>1. activeLock' = [activeLock EXCEPT ![d(q)] = q] BY <2>3 DEF Authorize
    <3> QED BY <1>1, <1>2, <2>3, <3>1, AuthorizedRecord DEF Rec
  <2> QED BY <2>1, <2>2, <2>3
<1>7. pc'[q] = "release" => activeLock'[d(q)] = q
  <2> SUFFICES ASSUME pc'[q] = "release"
               PROVE  activeLock'[d(q)] = q
    OBVIOUS
  <2>1. /\ pc[q] = "release" \/ pc[q] = "invoked" \/ Judging(q, "finalize")
    <3>1. CASE q # p BY <3>1, OthersKeep
    <3>2. CASE q = p BY <3>2, DeliveryFlow DEF Raise, Write, Judging, JudgingSteps
    <3> QED BY <3>1, <3>2
  <2>2. activeLock[d(q)] = q /\ Rec(q) # NoRecord
    BY <2>1 DEF Locking, Recorded, InvokedSteps, Judging
  <2> QED BY <2>2, ActiveLockKept DEF InvokedSteps
<1> QED BY <1>4, <1>5, <1>6, <1>7

(* A look records the artifacts of the RUN the record names. *)
LEMMA LookSees ==
  ASSUME TypeOK, NEW p \in Procs, NEW kind, Look(p, kind)
  PROVE  /\ seen'[p].result => Rec(p).run # NoRun /\ Exists(results[Rec(p).run])
         /\ seen'[p].failure => Rec(p).run # NoRun /\ Exists(failures[Rec(p).run])
<1> DEFINE result == Rec(p).run # NoRun /\ Exists(results[Rec(p).run])
           failure == Rec(p).run # NoRun /\ Exists(failures[Rec(p).run])
           sight == [kind |-> kind, result |-> result, failure |-> failure, held |-> FALSE]
<1>1. seen' = [seen EXCEPT ![p] = sight] BY DEF Look
<1>2. sight.result = result /\ sight.failure = failure OBVIOUS
<1>3. seen'[p] = sight
  <2> HIDE DEF sight
  <2> QED BY <1>1 DEF TypeOK
<1> QED BY <1>2, <1>3

(* What a process has read of a RUN stays true while it judges. *)
LEMMA ObservedStep ==
  ASSUME TypeOK, Recorded, Locking, Observed, NEW p \in Procs, ProcStep(p)
  PROVE  Observed'
<1> SUFFICES ASSUME NEW q \in Procs, (Judging(q, "reconcile") \/ Judging(q, "finalize"))'
             PROVE  /\ seen'[q].result => Rec(q)'.run # NoRun /\ Exists(results'[Rec(q)'.run])
                    /\ seen'[q].failure => Rec(q)'.run # NoRun /\ Exists(failures'[Rec(q)'.run])
  BY DEF Observed
<1>1. d(q) \in Dispatches /\ d(q)' = d(q) /\ d(p) \in Dispatches BY SameRequest
<1>2. \/ q = p /\ (BeginReconcile(p) \/ BeginFinalize(p))
      \/ /\ Judging(q, "reconcile") \/ Judging(q, "finalize")
         /\ seen'[q].result = seen[q].result /\ seen'[q].failure = seen[q].failure
  <2>1. CASE q # p BY <2>1, OthersKeep DEF Judging
  <2>2. CASE q = p BY <2>2, DeliveryFlow DEF Judging
  <2> QED BY <2>1, <2>2
<1>3. CASE q = p /\ (BeginReconcile(p) \/ BeginFinalize(p))
  <2>1. seen \in [Procs -> Observation] BY DEF TypeOK
  <2>2. journal' = journal /\ results' = results /\ failures' = failures
    BY <1>3 DEF BeginReconcile, BeginFinalize, fileVars
  <2>3. Look(q, "reconcile") \/ Look(q, "finalize")
    BY <1>3 DEF BeginReconcile, BeginFinalize
  <2>4. /\ seen'[q].result => Rec(q).run # NoRun /\ Exists(results[Rec(q).run])
        /\ seen'[q].failure => Rec(q).run # NoRun /\ Exists(failures[Rec(q).run])
    BY <2>3, LookSees
  <2> QED BY <1>1, <2>2, <2>4 DEF Rec
<1>4. CASE /\ Judging(q, "reconcile") \/ Judging(q, "finalize")
           /\ seen'[q].result = seen[q].result /\ seen'[q].failure = seen[q].failure
  <2>1. Rec(q) # NoRecord /\ journalLock[Family(q)] = q
    BY <1>4 DEF Recorded, Locking, Judging
  <2>2. Rec(q).run \in RunIds \cup {NoRun} BY <1>1, <2>1 DEF TypeOK, Record, Rec
  <2>3. Rec(q).run # NoRun => Rec(q)'.run = Rec(q).run
    BY <1>1, <2>1, JournalSteps DEF Rec
  <2>4. /\ seen'[q].result => Rec(q).run # NoRun /\ Exists(results[Rec(q).run])
        /\ seen'[q].failure => Rec(q).run # NoRun /\ Exists(failures[Rec(q).run])
    BY <1>4 DEF Observed
  <2> QED BY <2>2, <2>3, <2>4, FilesStay
<1> QED BY <1>2, <1>3, <1>4

(* A verdict is written by a process that judges, on what it has seen. *)
LEMMA StatusSteps ==
  ASSUME TypeOK, Recorded, Locking, Observed, NEW p \in Procs, ProcStep(p),
         NEW x \in Dispatches, journal'[x] # NoRecord, journal'[x].status \in Terminal
  PROVE  \/ /\ journal[x] # NoRecord /\ journal'[x].status = journal[x].status
            /\ journal'[x].run = journal[x].run
         \/ /\ Write(p) /\ x = d(p) /\ journal[x] # NoRecord
            /\ journal'[x] = Decision(p) /\ journal'[x].run = Rec(p).run
            /\ Judging(p, "reconcile") \/ Judging(p, "finalize")
<1>1. /\ d(p) \in Dispatches
      /\ seen[p].kind \in {"none", "reconcile", "finalize", "inspect"}
  BY SameRequest DEF TypeOK, Observation
<1>2. CASE Authorize(p) BY <1>1, <1>2, AuthorizedRecord DEF Rec, Terminal
<1>3. CASE BindRun(p) BY <1>1, <1>3, BoundRecord DEF Rec, Terminal
<1>4. CASE Write(p)
  <2>1. Judging(p, "reconcile") \/ Judging(p, "finalize")
    BY <1>1, <1>4 DEF Write, Recorded, Judging, JudgingSteps
  <2> QED BY <1>1, <1>4, <2>1, WrittenRecord DEF Rec
<1>5. CASE journal' = journal BY <1>5
<1> QED BY <1>2, <1>3, <1>4, <1>5, JournalSteps

(* A success was written by a process that had seen the RESULT. *)
LEMMA SuccessHasResultStep ==
  ASSUME TypeOK, Recorded, Locking, Observed, OneTerminalArtifact', SuccessHasResult,
         NEW p \in Procs, ProcStep(p)
  PROVE  SuccessHasResult'
<1> SUFFICES ASSUME NEW x \in Dispatches, journal'[x] # NoRecord,
                    journal'[x].status = "SUCCEEDED"
             PROVE  /\ journal'[x].run # NoRun
                    /\ Exists(results'[journal'[x].run]) /\ ~Exists(failures'[journal'[x].run])
  BY DEF SuccessHasResult
<1>1. /\ journal[x] # NoRecord /\ journal'[x].run = journal[x].run
      /\ journal[x].run # NoRun /\ Exists(results[journal[x].run])
  <2>1. CASE journal[x] # NoRecord /\ journal'[x].status = journal[x].status
             /\ journal'[x].run = journal[x].run
    BY <2>1 DEF SuccessHasResult
  <2>2. CASE /\ Write(p) /\ x = d(p) /\ journal[x] # NoRecord
             /\ journal'[x] = Decision(p) /\ journal'[x].run = Rec(p).run
             /\ Judging(p, "reconcile") \/ Judging(p, "finalize")
    BY <2>2, DecisionRecord DEF Observed, Rec
  <2> QED BY <2>1, <2>2, StatusSteps DEF Terminal
<1>2. journal[x].run \in RunIds BY <1>1 DEF TypeOK, Record
<1> QED BY <1>1, <1>2, FilesStay DEF OneTerminalArtifact

(* While an executor may run there is nothing a verdict could be seen from. *)
LEMMA NoVerdictWhileRunningStep ==
  ASSUME TypeOK, Recorded, OneInvocation, Admitted, Files, Locking, Observed,
         OwnedBeforeLaunch, NoVerdictWhileRunning, NEW p \in Procs, ProcStep(p)
  PROVE  NoVerdictWhileRunning'
<1> SUFFICES ASSUME NEW q \in Procs, wk'[q] \in {"bound", "executing"},
                    Rec(q)'.status \in Terminal
             PROVE  FALSE
  BY DEF NoVerdictWhileRunning
<1>1. d(q) \in Dispatches /\ d(q)' = d(q) /\ d(p) \in Dispatches BY SameRequest
<1>2. wk[q] \in {"bound", "executing"} \/ (q = p /\ BindRun(p))
  <2>1. CASE q # p BY <2>1, OthersKeep
  <2>2. Launch(p) => wk[p] = "bound" BY DEF Launch
  <2>3. CASE q = p BY <2>2, <2>3, WorkFlow
  <2> QED BY <2>1, <2>3
<1>3. CASE q = p /\ BindRun(p)
  BY <1>1, <1>3, BoundRecord DEF Rec, Terminal
<1>4. CASE wk[q] \in {"bound", "executing"}
  <2>1. /\ Rec(q) # NoRecord /\ Rec(q).run = wrun[q] /\ wrun[q] \in RunIds
        /\ results[wrun[q]] = "absent" /\ failures[wrun[q]] = "absent"
        /\ Rec(q).status \notin Terminal
    BY <1>4 DEF OwnedBeforeLaunch, AtWork, Admitted, WithRun, Files, NoVerdictWhileRunning
  <2>2. Rec(q)' # NoRecord BY <1>1, <2>1, JournalSteps DEF Rec
  <2>3. /\ Write(p) /\ d(q) = d(p)
        /\ Rec(q)' = Decision(p)
        /\ Judging(p, "reconcile") \/ Judging(p, "finalize")
    BY <1>1, <2>1, <2>2, StatusSteps DEF Rec
  <2>4. Rec(p) = Rec(q) BY <2>3 DEF Rec
  <2>5. ~seen[p].result /\ ~seen[p].failure
    BY <2>1, <2>3, <2>4 DEF Observed, Exists
  <2>6. Judging(p, "finalize")
    BY <2>1, <2>3, <2>4, <2>5, DecisionRecord DEF Judging, Terminal
  <2>7. wk[p] = "returned" BY <2>6 DEF Recorded
  <2> QED BY <1>4, <2>3, <2>7 DEF OneInvocation
<1> QED BY <1>2, <1>3, <1>4

(* A reported verdict was read from, or written to, a record that then stays. *)
LEMMA ReportedVerdictIsDurableStep ==
  ASSUME TypeOK, Recorded, Locking, ReportedVerdictIsDurable, NEW p \in Procs, ProcStep(p)
  PROVE  ReportedVerdictIsDurable'
<1> SUFFICES ASSUME NEW q \in Procs, out'[q] \in Terminal
             PROVE  Rec(q)' # NoRecord /\ Rec(q)'.status = out'[q]
  BY DEF ReportedVerdictIsDurable
<1>1. d(q) \in Dispatches /\ d(q)' = d(q) /\ d(p) \in Dispatches BY SameRequest
<1>2. out \in [Procs -> Outs] /\ seen[p].kind \in {"none", "reconcile", "finalize", "inspect"}
  BY DEF TypeOK, Observation
<1>3. CASE q = p /\ Write(p)
  <2>1. out'[p] = Decision(p).status BY <1>2, <1>3 DEF Write
  <2> QED BY <1>1, <1>3, <2>1, WrittenRecord DEF Rec
<1>4. CASE q = p /\ Replay(p)
  BY <1>1, <1>2, <1>4 DEF Replay, Report, Rec, journalVars, Terminal, Settled
<1>5. CASE ~(q = p /\ (Write(p) \/ Replay(p)))
  <2>1. out'[q] = out[q]
    <3>1. CASE q # p BY <3>1, OthersKeep
    <3>2. CASE q = p /\ ~Write(p) /\ ~Replay(p)
      <4> USE <1>2, <3>2 DEF Report, Terminal
      <4>1. CASE Refuse(p) BY <4>1 DEF Refuse
      <4>2. CASE Raise(p) BY <4>2 DEF Raise
      <4>3. CASE InspectEnd(p) BY <4>3 DEF InspectEnd
      <4>4. CASE ~Refuse(p) /\ ~Raise(p) /\ ~InspectEnd(p)
        BY <4>4
           DEF ProcStep, DeliveryStep, WorkStep, procVars, Deliver, BeginReconcile, Authorize,
               Probe, ProbeEnd, BeginFinalize, ReleaseActive, Inspect, LockRefused, TakeLock,
               Preflighted, AdmissionRejected, ReserveRun, BindRun, BindRejected, Launch,
               RunFails, OpenResult, WriteResult, Transported, OpenFailure, FailureReturns,
               Crash, ChildCrash
      <4> QED BY <4>1, <4>2, <4>3, <4>4
    <3> QED BY <1>5, <3>1, <3>2
  <2>2. Rec(q) # NoRecord /\ Rec(q).status = out'[q]
    BY <2>1 DEF ReportedVerdictIsDurable
  <2>3. ~(Write(p) /\ d(p) = d(q))
    <3> SUFFICES ASSUME Write(p), d(p) = d(q) PROVE FALSE OBVIOUS
    <3>1. Judging(p, "reconcile") \/ Judging(p, "finalize")
      BY <1>2 DEF Write, Recorded, Judging, JudgingSteps
    <3>2. Rec(p).status \notin Terminal BY <3>1 DEF Locking, Terminal
    <3> QED BY <2>2, <3>2 DEF Rec
  <2>4. CASE journal' = journal BY <1>1, <2>2, <2>4 DEF Rec
  <2>5. CASE Authorize(p) BY <1>1, <2>2, <2>5, AuthorizedRecord DEF Rec
  <2>6. CASE BindRun(p) BY <1>1, <2>2, <2>6, BoundRecord DEF Rec, Terminal
  <2>7. CASE Write(p) BY <1>1, <2>2, <2>3, <2>7, WrittenRecord DEF Rec
  <2> QED BY <2>4, <2>5, <2>6, <2>7, JournalSteps
<1> QED BY <1>3, <1>4, <1>5

-----------------------------------------------------------------------------
(* The inductive invariant *)

(* The invariant holds of an empty journal and of idle processes. *)
LEMMA InvInit == Init => IInv
<1> SUFFICES ASSUME Init PROVE IInv OBVIOUS
<1>1. TypeOK BY TypeInit
<1>2. /\ \A x \in Dispatches : journal[x] = NoRecord /\ launched[x] = 0
      /\ \A r \in RunIds : runs[r] = NoBinding /\ results[r] = "absent" /\ failures[r] = "absent"
      /\ \A p \in Procs : /\ pc[p] = "idle" /\ wk[p] = "none" /\ out[p] = "none"
                          /\ ~forked[p]
  BY DEF Init
<1> QED
  BY <1>1, <1>2
     DEF IInv, Recorded, OneInvocation, LaunchCount, Admitted, OwnRun, Files, ResultOfLaunch,
         Locking, Observed, OwnedBeforeLaunch, RunHasOneOwner, OneTerminalArtifact,
         SuccessHasResult, NoVerdictWhileRunning, ReportedVerdictIsDurable, Judging,
         JudgingSteps, InvokedSteps, BeforeLaunch, WithRun, AtWork, Exists, Terminal

(* Every step of a process preserves the invariant. *)
LEMMA InvStep ==
  ASSUME IInv, NEW p \in Procs, ProcStep(p)
  PROVE  IInv'
<1> USE DEF IInv
<1>1. TypeOK' /\ Recorded' BY TypeStep, RecordedStep
<1>2. OneInvocation' /\ LaunchCount' BY OneInvocationStep, LaunchCountStep
<1>3. Admitted' /\ OwnRun' /\ Files' BY AdmittedStep, OwnRunStep, FilesStep
<1>4. ResultOfLaunch' BY <1>2, ResultOfLaunchStep
<1>5. Locking' /\ Observed' BY LockingStep, ObservedStep
<1>6. OwnedBeforeLaunch' /\ RunHasOneOwner' BY OwnedBeforeLaunchStep, RunHasOneOwnerStep
<1>7. OneTerminalArtifact' BY OneTerminalArtifactStep
<1>8. SuccessHasResult' /\ NoVerdictWhileRunning' /\ ReportedVerdictIsDurable'
  BY <1>7, SuccessHasResultStep, NoVerdictWhileRunningStep, ReportedVerdictIsDurableStep
<1> QED BY <1>1, <1>2, <1>3, <1>4, <1>5, <1>6, <1>7, <1>8

(* Every step, stuttering included, preserves the invariant. *)
LEMMA InvNext == IInv /\ [Next]_vars => IInv'
<1> SUFFICES ASSUME IInv, [Next]_vars PROVE IInv' OBVIOUS
<1>1. CASE Next BY <1>1, InvStep DEF Next, ProcStep
<1>2. CASE UNCHANGED vars
  <2> USE <1>2 DEF vars, journalVars, fileVars, procVars, workVars
  <2>1. TypeOK' BY DEF IInv, TypeOK
  <2>2. Recorded' /\ OneInvocation'
    BY DEF IInv, Recorded, OneInvocation, Judging, Rec, d
  <2>3. LaunchCount' /\ Admitted' /\ OwnRun'
    BY DEF IInv, LaunchCount, Admitted, OwnRun, d
  <2>4. Files' /\ ResultOfLaunch' BY DEF IInv, Files, ResultOfLaunch
  <2>5. Locking' BY DEF IInv, Locking, Judging, Rec, Family, d
  <2>6. Observed' BY DEF IInv, Observed, Judging, Rec, d
  <2>7. OwnedBeforeLaunch' /\ RunHasOneOwner' /\ OneTerminalArtifact'
    BY DEF IInv, OwnedBeforeLaunch, RunHasOneOwner, OneTerminalArtifact, AtWork, Rec, d
  <2>8. SuccessHasResult' BY DEF IInv, SuccessHasResult
  <2>9. NoVerdictWhileRunning' /\ ReportedVerdictIsDurable'
    BY DEF IInv, NoVerdictWhileRunning, ReportedVerdictIsDurable, Rec, d
  <2> QED BY <2>1, <2>2, <2>3, <2>4, <2>5, <2>6, <2>7, <2>8, <2>9 DEF IInv
<1> QED BY <1>1, <1>2

(* The inductive invariant holds of every behaviour. *)
THEOREM Invariance == Spec => []IInv
BY InvInit, InvNext, PTL DEF Spec

-----------------------------------------------------------------------------
(* Safety *)

(* Every variable keeps its type. *)
THEOREM TypeCorrect == Spec => []TypeOK
<1>1. IInv => TypeOK BY DEF IInv
<1> QED BY <1>1, Invariance, PTL

(* At-most-once: no retry, replay or crash starts an executor twice. *)
THEOREM LaunchedOnce == Spec => []AtMostOneLaunch
<1>1. IInv => AtMostOneLaunch BY DEF IInv, LaunchCount, AtMostOneLaunch
<1> QED BY <1>1, Invariance, PTL

(* Ownership before execution: the durable record names the RUN of every
   invocation that may reach the executor. *)
THEOREM OwnershipFirst == Spec => []OwnedBeforeLaunch
<1>1. IInv => OwnedBeforeLaunch BY DEF IInv
<1> QED BY <1>1, Invariance, PTL

(* Two dispatches never own one RUN, in one journal or in two. *)
THEOREM OneOwner == Spec => []RunHasOneOwner
<1>1. IInv => RunHasOneOwner BY DEF IInv
<1> QED BY <1>1, Invariance, PTL

(* A recorded success has a RESULT and no FAILURE, whoever wrote it. *)
THEOREM SuccessStands == Spec => []SuccessHasResult
<1>1. IInv => SuccessHasResult BY DEF IInv
<1> QED BY <1>1, Invariance, PTL

(* No record is judged while its executor can still run. *)
THEOREM RunningUnjudged == Spec => []NoVerdictWhileRunning
<1>1. IInv => NoVerdictWhileRunning BY DEF IInv
<1> QED BY <1>1, Invariance, PTL

(* What a delivery reported as final is in the journal for ever after. *)
THEOREM ReportStands == Spec => []ReportedVerdictIsDurable
<1>1. IInv => ReportedVerdictIsDurable BY DEF IInv
<1> QED BY <1>1, Invariance, PTL

(* A RUN never has a RESULT and a FAILURE. *)
THEOREM OneArtifact == Spec => []OneTerminalArtifact
<1>1. IInv => OneTerminalArtifact BY DEF IInv
<1> QED BY <1>1, Invariance, PTL

-----------------------------------------------------------------------------
(* What no step does *)

(* The process that writes a record found it open. *)
LEMMA OpenWhenWritten ==
  ASSUME IInv, NEW p \in Procs, Write(p)
  PROVE  /\ Rec(p) # NoRecord /\ Rec(p).status \notin Terminal
         /\ Judging(p, "reconcile") \/ (Judging(p, "finalize") /\ Rec(p).status = "STARTED")
<1>1. seen[p].kind \in {"none", "reconcile", "finalize", "inspect"}
  BY DEF IInv, TypeOK, Observation
<1>2. Rec(p) # NoRecord /\ (Judging(p, "reconcile") \/ Judging(p, "finalize"))
  BY <1>1 DEF IInv, Write, Recorded, Judging, JudgingSteps
<1> QED BY <1>2 DEF IInv, Locking, Terminal

(* A record keeps its binding, its RUN and its verdict in every step. *)
THEOREM RecordsOnlyGrow == Spec => RecordOnlyGrows
<1> DEFINE Grows == \A x \in Dispatches :
       journal[x] # NoRecord =>
         /\ journal'[x] # NoRecord
         /\ journal'[x].binding = journal[x].binding
         /\ journal[x].run # NoRun => journal'[x].run = journal[x].run
         /\ journal[x].status \in Terminal => journal'[x] = journal[x]
<1>1. ASSUME IInv, NEW p \in Procs, ProcStep(p) PROVE Grows
  <2> SUFFICES ASSUME NEW x \in Dispatches, journal[x] # NoRecord, journal[x].status \in Terminal
               PROVE  journal'[x] = journal[x]
    BY <1>1, JournalSteps DEF IInv
  <2>1. d(p) \in Dispatches BY <1>1, SameRequest DEF IInv
  <2>2. CASE Authorize(p) BY <1>1, <2>2, AuthorizedRecord DEF Rec, IInv
  <2>3. CASE BindRun(p) BY <1>1, <2>3, BoundRecord DEF Rec, IInv, Terminal
  <2>4. CASE Write(p) BY <1>1, <2>4, OpenWhenWritten, WrittenRecord DEF Rec, IInv
  <2> QED BY <1>1, <2>2, <2>3, <2>4, JournalSteps DEF IInv
<1>2. IInv /\ [Next]_vars => [Grows]_vars BY <1>1 DEF Next, ProcStep
<1> QED BY <1>2, Invariance, PTL DEF Spec, RecordOnlyGrows

(* A dispatch reconciled before it owned a RUN is never bound or started. *)
THEOREM UnattributedStays == Spec => UnattributedNeverRuns
<1> DEFINE Stays == \A x \in Dispatches :
       Unattributed(x) => Unattributed(x)' /\ launched'[x] = launched[x]
<1>1. ASSUME IInv, NEW p \in Procs, ProcStep(p) PROVE Stays
  <2> SUFFICES ASSUME NEW x \in Dispatches, Unattributed(x)
               PROVE  Unattributed(x)' /\ launched'[x] = launched[x]
    OBVIOUS
  <2> USE <1>1 DEF IInv, Unattributed
  <2>1. d(p) \in Dispatches BY SameRequest
  <2>2. Unattributed(x)'
    <3>1. CASE Authorize(p) BY <2>1, <3>1, AuthorizedRecord DEF Rec
    <3>2. CASE BindRun(p) BY <2>1, <3>2, BoundRecord DEF Rec
    <3>3. CASE Write(p)
      <4>1. CASE x = d(p)
        <5>1. Rec(p).run = NoRun /\ Judging(p, "reconcile")
          BY <3>3, <4>1, OpenWhenWritten DEF Rec
        <5>2. Decision(p).status = "RECONCILIATION_BLOCKED"
          BY <3>3, <5>1, OpenWhenWritten, DecisionRecord DEF Judging
        <5> QED BY <3>3, <4>1, <5>1, <5>2, WrittenRecord DEF Rec
      <4>2. CASE x # d(p) BY <3>3, <4>2, WrittenRecord
      <4> QED BY <4>1, <4>2
    <3> QED BY <3>1, <3>2, <3>3, JournalSteps
  <2>3. launched'[x] = launched[x]
    <3>1. Launch(p) => d(p) # x
      BY NullAssumption DEF Launch, OwnedBeforeLaunch, AtWork, Admitted, WithRun, Rec
    <3>2. Launch(p) => launched' = [launched EXCEPT ![d(p)] = launched[d(p)] + 1]
      BY DEF Launch
    <3> QED BY <3>1, <3>2, LaunchSteps DEF TypeOK
  <2> QED BY <2>2, <2>3
<1>2. IInv /\ [Next]_vars => [Stays]_vars BY <1>1 DEF Next, ProcStep
<1> QED BY <1>2, Invariance, PTL DEF Spec, UnattributedNeverRuns

-----------------------------------------------------------------------------
(* Refinement *)

(* What the abstract state of a dispatch is made of. *)
LEMMA AbstractState ==
  /\ phaseOf = [x \in Dispatches |-> phaseOf[x]]
  /\ ownerOf = [x \in Dispatches |-> ownerOf[x]]
  /\ verdictOf = [x \in Dispatches |-> verdictOf[x]]
  /\ \A x \in Dispatches :
       /\ phaseOf[x] = IF journal[x] = NoRecord THEN "new"
                       ELSE IF Abandoned(x) THEN "abandoned" ELSE "authorized"
       /\ ownerOf[x] = IF journal[x] = NoRecord THEN NoRun ELSE journal[x].run
       /\ verdictOf[x] = IF journal[x] # NoRecord /\ journal[x].status \in Terminal
                         THEN journal[x].status ELSE "open"
BY DEF phaseOf, ownerOf, verdictOf

(* A dispatch whose record does not change looks the same. *)
LEMMA SameRecord ==
  ASSUME NEW x \in Dispatches, journal'[x] = journal[x]
  PROVE  phaseOf'[x] = phaseOf[x] /\ ownerOf'[x] = ownerOf[x] /\ verdictOf'[x] = verdictOf[x]
BY DEF phaseOf, ownerOf, verdictOf, Abandoned, Unattributed

(* One changed dispatch makes an EXCEPT. *)
LEMMA OneChange ==
  ASSUME NEW x \in Dispatches,
         \A y \in Dispatches : y # x => journal'[y] = journal[y]
  PROVE  /\ phaseOf' = [phaseOf EXCEPT ![x] = phaseOf'[x]]
         /\ ownerOf' = [ownerOf EXCEPT ![x] = ownerOf'[x]]
         /\ verdictOf' = [verdictOf EXCEPT ![x] = verdictOf'[x]]
<1>1. \A y \in Dispatches : y # x =>
        phaseOf'[y] = phaseOf[y] /\ ownerOf'[y] = ownerOf[y] /\ verdictOf'[y] = verdictOf[y]
  BY SameRecord
<1>2. phaseOf' = [phaseOf EXCEPT ![x] = phaseOf'[x]] BY <1>1 DEF phaseOf
<1>3. ownerOf' = [ownerOf EXCEPT ![x] = ownerOf'[x]] BY <1>1 DEF ownerOf
<1>4. verdictOf' = [verdictOf EXCEPT ![x] = verdictOf'[x]] BY <1>1 DEF verdictOf
<1> QED BY <1>2, <1>3, <1>4

(* An empty journal is the abstract initial state. *)
LEMMA OneShotInit == Init => OneShot!Init
BY DEF Init, OneShot!Init, phaseOf, ownerOf, verdictOf

(* The first record authorizes. *)
LEMMA AuthorizeRefines ==
  ASSUME IInv, NEW p \in Procs, Authorize(p)
  PROVE  OneShot!Authorize(d(p))
<1> DEFINE x == d(p)
<1>1. x \in Dispatches BY SameRequest DEF ProcStep, DeliveryStep, IInv
<1>2. /\ journal[x] = NoRecord /\ journal'[x] # NoRecord /\ journal'[x].status = "STARTED"
      /\ journal'[x].run = NoRun /\ \A y \in Dispatches : y # x => journal'[y] = journal[y]
  BY AuthorizedRecord DEF Rec, IInv
<1>3. /\ phaseOf[x] = "new" /\ phaseOf'[x] = "authorized" /\ ownerOf'[x] = ownerOf[x]
      /\ verdictOf'[x] = verdictOf[x]
  BY <1>1, <1>2 DEF phaseOf, ownerOf, verdictOf, Abandoned, Unattributed, Terminal
<1>4. launched' = launched BY DEF Authorize
<1> HIDE DEF x
<1>5. ownerOf' = ownerOf /\ verdictOf' = verdictOf
  BY <1>1, <1>2, <1>3, OneChange, AbstractState
<1>6. phaseOf' = [phaseOf EXCEPT ![x] = "authorized"]
  BY <1>1, <1>2, <1>3, OneChange
<1> QED BY <1>3, <1>4, <1>5, <1>6 DEF OneShot!Authorize, x

(* The bound RUN becomes the owner. *)
LEMMA BindRefines ==
  ASSUME IInv, NEW p \in Procs, BindRun(p)
  PROVE  wrun[p] \in RunIds /\ OneShot!Own(d(p), wrun[p])
<1> DEFINE x == d(p)
<1>1. x \in Dispatches BY SameRequest DEF ProcStep, WorkStep, IInv
<1>2. /\ journal[x] # NoRecord /\ journal[x].status = "STARTED" /\ journal[x].run = NoRun
      /\ journal'[x] # NoRecord /\ journal'[x].status = "STARTED" /\ journal'[x].run = wrun[p]
      /\ \A y \in Dispatches : y # x => journal'[y] = journal[y]
  BY BoundRecord DEF Rec, IInv
<1>3. wk[p] \in WithRun /\ wrun[p] \in RunIds BY DEF BindRun, WithRun, IInv, Admitted
<1>4. \A y \in Dispatches : ownerOf[y] # wrun[p]
  BY <1>2, <1>3, NullAssumption DEF IInv, OwnRun, ownerOf
<1>5. /\ phaseOf[x] = "authorized" /\ phaseOf'[x] = "authorized" /\ verdictOf[x] = "open"
      /\ verdictOf'[x] = "open" /\ ownerOf[x] = NoRun /\ ownerOf'[x] = wrun[p]
  BY <1>1, <1>2, <1>3, NullAssumption
     DEF phaseOf, ownerOf, verdictOf, Abandoned, Unattributed, Terminal
<1>6. launched' = launched BY DEF BindRun
<1> HIDE DEF x
<1>7. phaseOf' = phaseOf /\ verdictOf' = verdictOf
  BY <1>1, <1>2, <1>5, OneChange, AbstractState
<1>8. ownerOf' = [ownerOf EXCEPT ![x] = wrun[p]]
  BY <1>1, <1>2, <1>5, OneChange
<1> QED BY <1>3, <1>4, <1>5, <1>6, <1>7, <1>8 DEF OneShot!Own, x

(* The launch starts an owned, undecided dispatch for the first time. *)
LEMMA LaunchRefines ==
  ASSUME IInv, NEW p \in Procs, Launch(p)
  PROVE  OneShot!Start(d(p))
<1> DEFINE x == d(p)
<1>1. x \in Dispatches BY SameRequest DEF ProcStep, WorkStep, IInv
<1>2. /\ journal[x] # NoRecord /\ journal[x].run = wrun[p] /\ wrun[p] # NoRun
      /\ journal[x].status \notin Terminal /\ launched[x] = 0
  BY NullAssumption
     DEF Launch, IInv, OwnedBeforeLaunch, AtWork, Admitted, WithRun, NoVerdictWhileRunning,
         LaunchCount, BeforeLaunch, Rec
<1>3. ownerOf[x] # NoRun /\ verdictOf[x] = "open" BY <1>1, <1>2 DEF ownerOf, verdictOf
<1>4. journal' = journal BY DEF Launch, journalVars
<1>5. phaseOf' = phaseOf /\ ownerOf' = ownerOf /\ verdictOf' = verdictOf
  BY <1>4 DEF phaseOf, ownerOf, verdictOf, Abandoned, Unattributed
<1>6. launched' = [launched EXCEPT ![x] = 1] BY <1>2 DEF Launch
<1> QED BY <1>2, <1>3, <1>5, <1>6 DEF OneShot!Start

(* A written verdict abandons, decides or changes nothing that is promised. *)
LEMMA WriteRefines ==
  ASSUME IInv, NEW p \in Procs, Write(p)
  PROVE  \/ OneShot!Abandon(d(p))
         \/ \E v \in {"SUCCEEDED", "FAILED"} : OneShot!Decide(d(p), v)
         \/ UNCHANGED OneShot!vars
<1> DEFINE x == d(p)
<1>1. x \in Dispatches BY SameRequest DEF ProcStep, DeliveryStep, IInv
<1>2. /\ journal[x] # NoRecord /\ journal'[x] # NoRecord /\ journal'[x].run = journal[x].run
      /\ journal'[x] = Decision(p) /\ journal[x].status \notin Terminal
      /\ \A y \in Dispatches : y # x => journal'[y] = journal[y]
  BY WrittenRecord, OpenWhenWritten DEF Rec, IInv
<1>3. launched' = launched BY DEF Write
<1>4. /\ ownerOf'[x] = ownerOf[x] /\ ownerOf[x] = journal[x].run /\ verdictOf[x] = "open"
      /\ verdictOf'[x] = IF journal'[x].status \in Terminal THEN journal'[x].status ELSE "open"
  BY <1>1, <1>2 DEF ownerOf, verdictOf
<1>5. /\ Judging(p, "reconcile") \/ (Judging(p, "finalize") /\ journal[x].status = "STARTED")
      /\ Judging(p, "reconcile") /\ journal[x].run = NoRun
           => journal'[x].status = "RECONCILIATION_BLOCKED"
      /\ journal'[x].status = "SUCCEEDED" => seen[p].result
  BY <1>2, OpenWhenWritten, DecisionRecord DEF Rec, Judging, IInv
<1>6. ownerOf' = ownerOf
  <2> HIDE DEF x
  <2> QED BY <1>1, <1>2, <1>4, OneChange, AbstractState
<1>7. CASE journal'[x].status \in Terminal
  <2>1. phaseOf[x] = "authorized" /\ phaseOf'[x] = "authorized"
    BY <1>1, <1>2, <1>5, <1>7 DEF phaseOf, Abandoned, Unattributed, Terminal
  <2>2. journal'[x].status = "SUCCEEDED" => launched[x] = 1
    <3> SUFFICES ASSUME journal'[x].status = "SUCCEEDED" PROVE launched[x] = 1 OBVIOUS
    <3>1. journal[x].run # NoRun /\ Exists(results[journal[x].run])
      BY <1>5 DEF IInv, Observed, Rec
    <3> QED BY <1>1, <1>2, <3>1 DEF IInv, ResultOfLaunch
  <2> HIDE DEF x
  <2>3. phaseOf' = phaseOf BY <1>1, <1>2, <2>1, OneChange, AbstractState
  <2>4. verdictOf' = [verdictOf EXCEPT ![x] = journal'[x].status]
    BY <1>1, <1>2, <1>4, <1>7, OneChange
  <2>5. OneShot!Decide(x, journal'[x].status)
    BY <1>3, <1>4, <1>6, <2>1, <2>2, <2>3, <2>4 DEF OneShot!Decide
  <2> QED BY <1>7, <2>5 DEF Terminal, x
<1>8. CASE journal'[x].status \notin Terminal
  <2>1. verdictOf' = verdictOf
    <3> HIDE DEF x
    <3> QED BY <1>1, <1>2, <1>4, <1>8, OneChange, AbstractState
  <2>2. CASE phaseOf'[x] = phaseOf[x]
    <3> HIDE DEF x
    <3>1. phaseOf' = phaseOf BY <1>1, <1>2, <2>2, OneChange, AbstractState
    <3> QED BY <1>3, <1>6, <2>1, <3>1 DEF OneShot!vars
  <2>3. CASE phaseOf'[x] # phaseOf[x]
    <3>1. phaseOf[x] = "authorized" /\ phaseOf'[x] = "abandoned" /\ journal[x].run = NoRun
      BY <1>1, <1>2, <1>5, <1>8, <2>3 DEF phaseOf, Abandoned, Unattributed
    <3> HIDE DEF x
    <3>2. phaseOf' = [phaseOf EXCEPT ![x] = "abandoned"] BY <1>1, <1>2, <3>1, OneChange
    <3>3. OneShot!Abandon(x)
      BY <1>3, <1>4, <1>6, <2>1, <3>1, <3>2 DEF OneShot!Abandon
    <3> QED BY <3>3 DEF x
  <2> QED BY <2>2, <2>3
<1> QED BY <1>7, <1>8

(* Every step of the journals is a step of OneShotExecution or none. *)
LEMMA OneShotStep == IInv /\ [Next]_vars => [OneShot!Next]_(OneShot!vars)
<1> SUFFICES ASSUME IInv, [Next]_vars PROVE [OneShot!Next]_(OneShot!vars) OBVIOUS
<1>1. ASSUME journal' = journal, launched' = launched PROVE UNCHANGED OneShot!vars
  BY <1>1 DEF OneShot!vars, phaseOf, ownerOf, verdictOf, Abandoned, Unattributed
<1>2. CASE UNCHANGED vars BY <1>1, <1>2 DEF vars, journalVars
<1>3. ASSUME NEW p \in Procs, ProcStep(p) PROVE [OneShot!Next]_(OneShot!vars)
  <2>1. d(p) \in Dispatches BY <1>3, SameRequest DEF IInv
  <2>2. CASE Authorize(p) BY <2>1, <2>2, AuthorizeRefines DEF OneShot!Next
  <2>3. CASE BindRun(p) BY <2>1, <2>3, BindRefines DEF OneShot!Next
  <2>4. CASE Launch(p) BY <2>1, <2>4, LaunchRefines DEF OneShot!Next
  <2>5. CASE Write(p) BY <2>1, <2>5, WriteRefines DEF OneShot!Next
  <2>6. CASE ~(Authorize(p) \/ BindRun(p) \/ Write(p)) /\ ~Launch(p)
    BY <1>1, <1>3, <2>6, JournalSteps, LaunchSteps DEF IInv
  <2> QED BY <2>2, <2>3, <2>4, <2>5, <2>6
<1> QED BY <1>2, <1>3 DEF Next, ProcStep

(* The journals implement OneShotExecution: with all their locks, replays,
   restarts and crashes, every dispatch is authorized, owned, started and
   decided at most once, in that order. *)
THEOREM JournalsAreOneShot == Spec => ImplementsOneShot
BY OneShotInit, OneShotStep, Invariance, PTL DEF Spec, ImplementsOneShot, OneShot!Spec

-----------------------------------------------------------------------------
(***************************************************************************)
(* The control checkout (CheckoutSync), for any processes, RUNs, TASKs,    *)
(* commits of humans and deaths.                                           *)
(***************************************************************************)

(* The places of a process that holds operator.lock, and those behind a proof
   that the remote keeps the local history. *)
Holding == Places \ {"idle", "child", "admit", "failing"}
Proving == {"first", "second", "last", "reset"}
Running == {"work", "failing"}
Published(c) == c \cap Runs \subseteq main

(* What a process at a place with its work relies on. *)
Fits(place, j) ==
  /\ place \in Proving => \E r \in Sent : terminal[r].head = j.local
  /\ place = "last" /\ j.op # "reconcile" => ~dirty
  /\ place = "reset" => head = j.local /\ ~dirty
  /\ place \in Proving \cup {"forward", "prove"} => Published(j.target)
  /\ place = "synced" /\ j.op # "continue" => Published(head)
  /\ place = "admit" => Published(j.local)

Sound(p) ==
  /\ at[p] \in Holding => lock = p
  /\ at[p] \in Running => job[p].run \in Runs /\ terminal[job[p].run].kind = "open"
  /\ Fits(at[p], job[p])

(* No two processes execute one RUN. *)
Apart ==
  \A p, q \in Operators :
    p # q /\ at[p] \in Running /\ at[q] \in Running => job[p].run # job[q].run

Ended == \A r \in Sent : terminal[r].kind \in {"RESULT", "FAILURE"}

CheckoutInv ==
  /\ Setting /\ CheckoutTypes /\ Apart /\ Ended /\ PrimaryBuildsOnPublished
  /\ \A p \in Operators : Sound(p)

-----------------------------------------------------------------------------
(* What is delivered stays, and main grows. *)
Grows ==
  /\ main \subseteq main'
  /\ \A r \in Sent : r \in Sent' /\ terminal'[r].head = terminal[r].head

(* A step that leaves process q where it is and changes nothing q relies on. *)
Spares(q) ==
  /\ at'[q] = at[q] /\ job'[q] = job[q]
  /\ at[q] \in Holding => lock' = lock
  /\ at[q] \in Running => terminal'[job[q].run].kind = terminal[job[q].run].kind
  /\ at[q] = "last" /\ job[q].op # "reconcile" => ~dirty'
  /\ at[q] = "reset" => head' = head /\ ~dirty'
  /\ at[q] = "synced" => head' \cap Runs \subseteq head

(* What a spared process relies on still holds. *)
LEMMA SparedStaysSound ==
  ASSUME CheckoutInv, Grows, NEW q \in Operators, Spares(q)
  PROVE  Sound(q)'
<1>1. Sound(q) /\ CheckoutTypes
  BY DEF CheckoutInv
<1>2. Fits(at[q], job[q])'
  <2>1. at[q] \in Proving => \E r \in Sent' : terminal'[r].head = job[q].local
    BY <1>1 DEF Sound, Fits, Grows
  <2>2. \A c : Published(c) => c \cap Runs \subseteq main'
    BY DEF Published, Grows
  <2>3. at[q] = "synced" /\ job[q].op # "continue" => head' \cap Runs \subseteq main'
    BY <1>1, <2>2 DEF Sound, Fits, Spares, Published
  <2> QED
    BY <1>1, <2>1, <2>2, <2>3 DEF Sound, Fits, Spares, Published
<1> QED
  BY <1>1, <1>2 DEF Sound, Spares

(* A process moves. *)
LEMMA Moves ==
  ASSUME CheckoutTypes, NEW p \in Operators, NEW place \in Places, NEW j \in Job, Go(p, place, j)
  PROVE  /\ at' \in [Operators -> Places] /\ job' \in [Operators -> Job]
         /\ at'[p] = place /\ job'[p] = j
         /\ \A q \in Operators : q # p => at'[q] = at[q] /\ job'[q] = job[q]
  BY DEF CheckoutTypes, Go

(* New work. *)
LEMMA WorkIsJob ==
  ASSUME NEW o \in Ops
  PROVE  Work(o) \in Job /\ Work(o).op = o /\ Work(o).run = Unset
  BY DEF Work, Job, Commits, Missing

(* A process that goes idle. *)
LEMMA IdleWork ==
  Work("none") \in Job /\ "idle" \in Places /\ "idle" \notin Holding \cup Running
  BY WorkIsJob DEF Ops, Places, Holding, Running

LEMMA IdleIsGo == ASSUME NEW p, Rest(p) PROVE Go(p, "idle", Work("none"))
  BY DEF Rest, Go

(* A step of process p that only decides where it goes on. *)
LEMMA PlacingStep ==
  ASSUME CheckoutInv, NEW p \in Operators, NEW place \in Places, NEW j \in Job, Go(p, place, j),
         UNCHANGED <<remote, terminal, repaired, checkout>>, faults' \in 0 .. MaxFaults,
         lock' \in {lock, p, Nobody}, lock' # lock => lock \in {p, Nobody},
         place \in Holding => lock' = p,
         place \in Running => at[p] \in Running /\ j.run = job[p].run,
         Fits(place, j)
  PROVE  CheckoutInv'
<1>1. /\ at' \in [Operators -> Places] /\ job' \in [Operators -> Job]
      /\ at'[p] = place /\ job'[p] = j
      /\ \A q \in Operators : q # p => at'[q] = at[q] /\ job'[q] = job[q]
  BY Moves DEF CheckoutInv
<1>2. UNCHANGED <<main, decided, passed, terminal, repaired, head, dirty>>
  BY DEF remote, checkout
<1>3. CheckoutTypes' /\ Setting
  BY <1>1, <1>2 DEF CheckoutInv, CheckoutTypes
<1>4. Ended' /\ PrimaryBuildsOnPublished' /\ Grows
  BY <1>2 DEF CheckoutInv, Ended, PrimaryBuildsOnPublished, Grows, Sent
<1>5. ASSUME NEW q \in Operators PROVE Sound(q)'
  <2>1. CASE q = p
    <3>1. Fits(place, j)'
      BY <1>2 DEF Fits, Sent, Published
    <3>2. place \in Running => j.run \in Runs /\ terminal[j.run].kind = "open"
      BY DEF CheckoutInv, Sound
    <3> QED
      BY <1>1, <1>2, <2>1, <3>1, <3>2 DEF Sound
  <2>2. CASE q # p
    <3>1. at[q] \in Holding => lock = q /\ lock # Nobody
      BY DEF CheckoutInv, Sound, Setting
    <3>2. Sound(q)
      BY DEF CheckoutInv
    <3>3. Spares(q)
      BY <1>1, <1>2, <2>2, <3>1, <3>2 DEF Spares, Sound, Fits
    <3> QED
      BY <1>4, <3>3, SparedStaysSound
  <2> QED
    BY <2>1, <2>2
<1>6. Apart'
  BY <1>1 DEF CheckoutInv, Apart
<1> QED
  BY <1>3, <1>4, <1>5, <1>6 DEF CheckoutInv, Setting

(* The same without a death. *)
LEMMA ControlStep ==
  ASSUME CheckoutInv, NEW p \in Operators, NEW place \in Places, NEW j \in Job, Go(p, place, j),
         UNCHANGED <<remote, terminal, repaired, checkout, faults>>,
         lock' \in {lock, p, Nobody}, lock' # lock => lock \in {p, Nobody},
         place \in Holding => lock' = p,
         place \in Running => at[p] \in Running /\ j.run = job[p].run,
         Fits(place, j)
  PROVE  CheckoutInv'
<1>1. faults' \in 0 .. MaxFaults /\ UNCHANGED <<remote, terminal, repaired, checkout>>
  BY DEF CheckoutInv, CheckoutTypes
<1> QED
  BY <1>1, PlacingStep

(* A step of process p to which the lock is given back. *)
LEMMA GiveStep ==
  ASSUME CheckoutInv, NEW p \in Operators, Give(p), lock = p,
         UNCHANGED <<remote, terminal, repaired, checkout, faults>>
  PROVE  CheckoutInv'
<1>1. Go(p, "idle", Work("none")) /\ lock' = Nobody
  BY IdleIsGo DEF Give
<1>2. Work("none") \in Job /\ "idle" \in Places /\ "idle" \notin Holding \cup Running
  BY IdleWork
<1>3. Fits("idle", Work("none"))
  BY DEF Fits, Proving
<1> QED
  BY <1>1, <1>2, <1>3, ControlStep

(* A step of process p that keeps the lock it holds. *)
LEMMA KeepStep ==
  ASSUME CheckoutInv, NEW p \in Operators, NEW place \in Holding \ {"work"}, NEW j \in Job,
         Keep(p, place, j), lock = p, Fits(place, j),
         UNCHANGED <<remote, terminal, repaired, checkout, faults>>
  PROVE  CheckoutInv'
<1>1. Go(p, place, j) /\ lock' = lock /\ place \in Places /\ place \notin Running
  BY DEF Keep, Holding, Running
<1> QED
  BY <1>1, ControlStep

(* Where a process holds the lock. *)
LEMMA HolderIs == ASSUME CheckoutInv, NEW p \in Operators, at[p] \in Holding PROVE lock = p
  BY DEF CheckoutInv, Sound

-----------------------------------------------------------------------------
(* The steps of a synchronisation *)

(* run and continue take the lock. *)
LEMMA EnterStep == ASSUME CheckoutInv, NEW p \in Operators, Enter(p) PROVE CheckoutInv'
<1>1. PICK o \in {"run", "continue"} : Go(p, "sync", Work(o))
  BY DEF Enter
<1>2. Work(o) \in Job /\ "sync" \in Places /\ "sync" \notin Running
  BY <1>1, WorkIsJob DEF Ops, Places, Running
<1>3. Fits("sync", Work(o))
  BY DEF Fits, Proving
<1> QED
  BY <1>1, <1>2, <1>3, ControlStep DEF Enter

(* A child takes it, or is refused. *)
LEMMA ReenterStep == ASSUME CheckoutInv, NEW p \in Operators, Reenter(p) PROVE CheckoutInv'
<1>1. UNCHANGED <<remote, terminal, repaired, checkout, faults>> /\ job[p] \in Job
  BY DEF Reenter, CheckoutInv, CheckoutTypes
<1>2. CASE lock = Nobody
  <2>1. Go(p, "sync", job[p]) /\ lock' = p /\ "sync" \in Places /\ "sync" \notin Running
    BY <1>2 DEF Reenter, Places, Running
  <2>2. Fits("sync", job[p])
    BY DEF Fits, Proving
  <2> QED
    BY <1>1, <1>2, <2>1, <2>2, ControlStep
<1>3. CASE lock # Nobody
  <2>1. Go(p, "idle", Work("none")) /\ lock' = lock
    BY <1>3, IdleIsGo DEF Reenter
  <2>2. Work("none") \in Job /\ "idle" \in Places /\ "idle" \notin Holding \cup Running
    BY IdleWork
  <2>3. Fits("idle", Work("none"))
    BY DEF Fits, Proving
  <2> QED
    BY <1>1, <2>1, <2>2, <2>3, ControlStep
<1> QED
  BY <1>2, <1>3

(* A process that goes on to a place where it relies on nothing. *)
LEMMA ModestFits ==
  ASSUME NEW place \in {"fetch", "sync"}, NEW j
  PROVE  Fits(place, j)
  BY DEF Fits, Proving

(* The look at the checkout and the remote. *)
LEMMA ObserveStep == ASSUME CheckoutInv, NEW p \in Operators, Observe(p) PROVE CheckoutInv'
<1> DEFINE j == [job[p] EXCEPT !.local = head, !.target = main]
<1>1. UNCHANGED <<remote, terminal, repaired, checkout, faults>> /\ job[p] \in Job
      /\ head \in Commits /\ main \in Commits
  BY DEF Observe, CheckoutInv, CheckoutTypes
<1>2. j \in Job
  BY <1>1 DEF Job
<1>3. j.target = main
  BY <1>1 DEF Job
<1>4. lock = p
  BY HolderIs DEF Observe, Holding, Places
<1>5. Give(p) \/ (job[p].op = "continue" /\ Keep(p, "synced", job[p])) \/ Keep(p, "prove", j)
      \/ Keep(p, "fetch", job[p])
  BY DEF Observe
<1>6. CASE Give(p)
  BY <1>1, <1>4, <1>6, GiveStep
<1>7. CASE job[p].op = "continue" /\ Keep(p, "synced", job[p])
  <2>1. "synced" \in Holding \ {"work"} /\ Fits("synced", job[p])
    BY <1>7 DEF Holding, Places, Fits, Proving
  <2> QED
    BY <1>1, <1>4, <1>7, <2>1, KeepStep
<1>8. CASE Keep(p, "prove", j)
  <2> HIDE DEF j
  <2>1. "prove" \in Holding \ {"work"} /\ Fits("prove", j)
    BY <1>3 DEF Holding, Places, Fits, Proving, Published
  <2> QED
    BY <1>1, <1>2, <1>4, <1>8, <2>1, KeepStep
<1>9. CASE Keep(p, "fetch", job[p])
  <2>1. "fetch" \in Holding \ {"work"} /\ Fits("fetch", job[p])
    BY ModestFits DEF Holding, Places
  <2> QED
    BY <1>1, <1>4, <1>9, <2>1, KeepStep
<1> QED
  BY <1>5, <1>6, <1>7, <1>8, <1>9

(* A fetch leads to the published main, or to nothing. *)
LEMMA FetchStep == ASSUME CheckoutInv, NEW p \in Operators, Fetch(p) PROVE CheckoutInv'
<1> DEFINE j == [job[p] EXCEPT !.target = main, !.restart = Touches(head, main)]
<1>1. UNCHANGED <<remote, terminal, repaired, checkout, faults>> /\ job[p] \in Job
      /\ head \in Commits /\ main \in Commits
  BY DEF Fetch, CheckoutInv, CheckoutTypes
<1>2. j \in Job
  BY <1>1 DEF Job, Touches
<1>3. j.target = main
  BY <1>1 DEF Job
<1>4. lock = p
  BY HolderIs DEF Fetch, Holding, Places
<1>5. \/ Give(p)
      \/ (job[p].op = "continue" \/ head = main) /\ Keep(p, "synced", job[p])
      \/ Keep(p, "forward", j)
  BY DEF Fetch
<1>6. CASE Give(p)
  BY <1>1, <1>4, <1>6, GiveStep
<1>7. CASE (job[p].op = "continue" \/ head = main) /\ Keep(p, "synced", job[p])
  <2>1. "synced" \in Holding \ {"work"} /\ Fits("synced", job[p])
    BY <1>7 DEF Holding, Places, Fits, Proving, Published
  <2> QED
    BY <1>1, <1>4, <1>7, <2>1, KeepStep
<1>8. CASE Keep(p, "forward", j)
  <2> HIDE DEF j
  <2>1. "forward" \in Holding \ {"work"} /\ Fits("forward", j)
    BY <1>3 DEF Holding, Places, Fits, Proving, Published
  <2> QED
    BY <1>1, <1>2, <1>4, <1>8, <2>1, KeepStep
<1> QED
  BY <1>5, <1>6, <1>7, <1>8

(* A proof names a delivered RUN whose history is the local one. *)
LEMMA ProveStep == ASSUME CheckoutInv, NEW p \in Operators, Prove(p) PROVE CheckoutInv'
<1> DEFINE found == Found(job[p].local)
           j == [job[p] EXCEPT !.found = found, !.seen = decided,
                               !.known = IF found \subseteq Failures THEN Failures ELSE Sent,
                               !.restart = Touches(job[p].local, job[p].target)]
<1>1. UNCHANGED <<remote, terminal, repaired, checkout, faults>> /\ job[p] \in Job
      /\ decided \subseteq Runs
  BY DEF Prove, CheckoutInv, CheckoutTypes
<1>2. lock = p /\ Fits("prove", job[p])
  BY HolderIs DEF Prove, Holding, Places, CheckoutInv, Sound
<1>3. found \subseteq Sent /\ Sent \subseteq Runs /\ Failures \subseteq Runs
  BY DEF Found, Sent, Failures
<1>4. Touches(job[p].local, job[p].target) \in BOOLEAN
  BY DEF Touches
<1> HIDE DEF found
<1>5. j \in Job
  BY <1>1, <1>3, <1>4 DEF Job
<1>6. j.target = job[p].target /\ j.local = job[p].local
  BY <1>1 DEF Job
<1>7. CASE Give(p)
  BY <1>1, <1>2, <1>7, GiveStep
<1>8. CASE found # {} /\ Keep(p, "first", j)
  <2>1. \E r \in Sent : terminal[r].head = job[p].local
    BY <1>8 DEF found, Found
  <2> HIDE DEF j
  <2>2. "first" \in Holding \ {"work"} /\ Fits("first", j)
    BY <1>2, <1>6, <2>1 DEF Holding, Places, Fits, Proving
  <2> QED
    BY <1>1, <1>2, <1>5, <1>8, <2>2, KeepStep
<1> QED
  BY <1>7, <1>8 DEF Prove, Preserved, found

(* The proof stands at each recheck, of a clean checkout. *)
LEMMA RecheckStep == ASSUME CheckoutInv, NEW p \in Operators, Recheck(p) PROVE CheckoutInv'
<1>1. UNCHANGED <<remote, terminal, repaired, checkout, faults>> /\ job[p] \in Job
  BY DEF Recheck, CheckoutInv, CheckoutTypes
<1>2. lock = p /\ Fits(at[p], job[p]) /\ at[p] \in {"first", "second"}
  BY HolderIs DEF Recheck, Holding, Places, CheckoutInv, Sound
<1>3. CASE Give(p)
  BY <1>1, <1>2, <1>3, GiveStep
<1>4. ASSUME NEW place \in {"second", "last"}, ~dirty, Keep(p, place, job[p]) PROVE CheckoutInv'
  <2>1. place \in Holding \ {"work"}
    BY <1>4 DEF Holding, Places
  <2>2. Fits(place, job[p])
    BY <1>2, <1>4 DEF Fits, Proving
  <2> QED
    BY <1>1, <1>2, <1>4, <2>1, <2>2, KeepStep
<1>5. Give(p) \/ (~dirty /\ \E place \in {"second", "last"} : Keep(p, place, job[p]))
  BY DEF Recheck
<1> QED
  BY <1>3, <1>4, <1>5

(* A reset is about to drop the HEAD that was proven. *)
LEMMA LastStep == ASSUME CheckoutInv, NEW p \in Operators, Last(p) PROVE CheckoutInv'
<1>1. UNCHANGED <<remote, terminal, repaired, checkout, faults>> /\ job[p] \in Job
  BY DEF Last, CheckoutInv, CheckoutTypes
<1>2. lock = p /\ Fits("last", job[p])
  BY HolderIs DEF Last, Holding, Places, CheckoutInv, Sound
<1>3. CASE Give(p)
  BY <1>1, <1>2, <1>3, GiveStep
<1>4. CASE Bound(p) /\ (job[p].op = "reconcile" => ~dirty) /\ Keep(p, "reset", job[p])
  <2>1. "reset" \in Holding \ {"work"}
    BY DEF Holding, Places
  <2>2. Fits("reset", job[p])
    BY <1>2, <1>4 DEF Fits, Proving, Bound
  <2> QED
    BY <1>1, <1>2, <1>4, <2>1, <2>2, KeepStep
<1> QED
  BY <1>3, <1>4 DEF Last

(* The HEAD that goes with a PRIMARY is published. *)
LEMMA SyncedStep == ASSUME CheckoutInv, NEW p \in Operators, Synced(p) PROVE CheckoutInv'
<1> DEFINE next == [Work("run") EXCEPT !.restarted = job[p].restarted \/ job[p].restart]
           here == [next EXCEPT !.local = head]
<1>1. UNCHANGED <<remote, terminal, repaired, checkout, faults>> /\ job[p] \in Job
      /\ head \in Commits /\ lock' = Nobody
  BY DEF Synced, CheckoutInv, CheckoutTypes
<1>2. lock = p /\ Fits("synced", job[p])
  BY HolderIs DEF Synced, Holding, Places, CheckoutInv, Sound
<1>3. Work("run") \in Job
  BY WorkIsJob DEF Ops
<1>4. next \in Job
  BY <1>1, <1>3 DEF Job
<1>5. here \in Job /\ here.local = head
  <2> HIDE DEF next
  <2> QED
    BY <1>1, <1>4 DEF Job
<1> HIDE DEF next
<1>6. CASE Go(p, "child", next)
  <2>1. "child" \in Places /\ "child" \notin Holding \cup Running /\ Fits("child", next)
    BY DEF Places, Holding, Running, Fits, Proving
  <2> QED
    BY <1>1, <1>2, <1>4, <1>6, <2>1, ControlStep
<1>7. CASE Rest(p)
  BY <1>1, <1>2, <1>7, GiveStep DEF Give
<1> HIDE DEF here
<1>8. CASE job[p].op # "continue" /\ Go(p, "admit", here)
  <2>1. "admit" \in Places /\ "admit" \notin Holding \cup Running
    BY DEF Places, Holding, Running
  <2>2. Fits("admit", here)
    BY <1>2, <1>5, <1>8 DEF Fits, Proving
  <2> QED
    BY <1>1, <1>2, <1>5, <1>8, <2>1, <2>2, ControlStep
<1> QED
  BY <1>6, <1>7, <1>8 DEF Synced, next, here

(* The Human's command names such a RUN itself. *)
LEMMA ReconcileStep == ASSUME CheckoutInv, NEW p \in Operators, NEW r \in Runs, ReconcileMain(p, r) PROVE CheckoutInv'
<1> DEFINE j == [Work("reconcile") EXCEPT !.local = head, !.target = main, !.found = {r}]
<1>1. /\ UNCHANGED <<remote, terminal, repaired, checkout, faults>>
      /\ head \in Commits /\ main \in Commits /\ lock = Nobody /\ lock' = p
      /\ Go(p, "last", j) /\ Named(r, head, main)
  BY DEF ReconcileMain, CheckoutInv, CheckoutTypes
<1>2. Work("reconcile") \in Job /\ Work("reconcile").op = "reconcile"
  BY WorkIsJob DEF Ops
<1>3. j \in Job
  BY <1>1, <1>2 DEF Job
<1>4. j.op = "reconcile" /\ j.local = head /\ j.target = main
  BY <1>1, <1>2 DEF Job
<1> HIDE DEF j
<1>5. r \in Sent /\ terminal[r].head = head
  BY <1>1 DEF Named, Failures
<1>6. Fits("last", j)
  BY <1>4, <1>5 DEF Fits, Proving, Published
<1>7. "last" \in Places /\ "last" \notin Running
  BY DEF Places, Running
<1> QED
  BY <1>1, <1>3, <1>6, <1>7, ControlStep

(* A step of process p that moves HEAD under the lock. *)
LEMMA MovingStep ==
  ASSUME CheckoutInv, NEW p \in Operators, lock = p, NEW place \in Places, NEW j \in Job, Go(p, place, j),
         UNCHANGED <<remote, terminal, repaired, faults>>,
         head' \in Commits, dirty' \in BOOLEAN,
         lock' \in {p, Nobody}, place \in Holding => lock' = p,
         place \in Running => at[p] \in Running /\ j.run = job[p].run,
         place \notin Proving \cup {"forward", "prove", "admit"},
         place = "synced" => head' \cap Runs \subseteq main
  PROVE  CheckoutInv'
<1>1. /\ at' \in [Operators -> Places] /\ job' \in [Operators -> Job]
      /\ at'[p] = place /\ job'[p] = j
      /\ \A q \in Operators : q # p => at'[q] = at[q] /\ job'[q] = job[q]
  BY Moves DEF CheckoutInv
<1>2. UNCHANGED <<main, decided, passed, terminal, repaired, faults>>
  BY DEF remote
<1>3. CheckoutTypes' /\ Setting
  BY <1>1, <1>2 DEF CheckoutInv, CheckoutTypes
<1>4. Ended' /\ PrimaryBuildsOnPublished' /\ Grows
  BY <1>2 DEF CheckoutInv, Ended, PrimaryBuildsOnPublished, Grows, Sent
<1>5. ASSUME NEW q \in Operators PROVE Sound(q)'
  <2>1. CASE q = p
    <3>1. Fits(place, j)'
      BY <1>2 DEF Fits, Published, Proving
    <3>2. place \in Running => j.run \in Runs /\ terminal[j.run].kind = "open"
      BY DEF CheckoutInv, Sound
    <3> QED
      BY <1>1, <1>2, <2>1, <3>1, <3>2 DEF Sound
  <2>2. CASE q # p
    <3>1. at[q] \notin Holding /\ Sound(q)
      BY <2>2 DEF CheckoutInv, Sound
    <3>2. at[q] \notin {"last", "reset", "synced"}
      BY <3>1 DEF Holding, Places
    <3>3. Spares(q)
      BY <1>1, <1>2, <2>2, <3>1, <3>2 DEF Spares
    <3> QED
      BY <1>4, <3>3, SparedStaysSound
  <2> QED
    BY <2>1, <2>2
<1>6. Apart'
  BY <1>1 DEF CheckoutInv, Apart
<1> QED
  BY <1>3, <1>4, <1>5, <1>6 DEF CheckoutInv, Setting

(* A fast-forward leads to what was published. *)
LEMMA ForwardStep == ASSUME CheckoutInv, NEW p \in Operators, Forward(p) PROVE CheckoutInv'
<1>1. /\ UNCHANGED <<remote, terminal, repaired, faults>> /\ dirty' = dirty
      /\ job[p] \in Job /\ job[p].target \in Commits /\ head \in Commits /\ dirty \in BOOLEAN
  BY DEF Forward, CheckoutInv, CheckoutTypes, Job
<1>2. lock = p /\ Fits("forward", job[p])
  BY HolderIs DEF Forward, Holding, Places, CheckoutInv, Sound
<1>3. head' \in {head, job[p].target}
  BY DEF Forward
<1>4. CASE Give(p)
  <2>1. Go(p, "idle", Work("none")) /\ lock' = Nobody
    BY <1>4, IdleIsGo DEF Give
  <2>2. Work("none") \in Job /\ "idle" \in Places /\ "idle" \notin Holding \cup Running
    BY IdleWork
  <2>3. "idle" \notin Proving \cup {"forward", "prove", "admit"}
    BY DEF Proving
  <2> QED
    BY <1>1, <1>2, <1>3, <2>1, <2>2, <2>3, MovingStep
<1>5. CASE head' = job[p].target /\ Keep(p, "synced", job[p])
  <2>1. Go(p, "synced", job[p]) /\ lock' = lock
    BY <1>5 DEF Keep
  <2>2. "synced" \in Places /\ "synced" \notin Running
        /\ "synced" \notin Proving \cup {"forward", "prove", "admit"}
    BY DEF Places, Running, Proving
  <2>3. head' \cap Runs \subseteq main
    BY <1>2, <1>5 DEF Fits, Published
  <2> QED
    BY <1>1, <1>2, <1>3, <2>1, <2>2, <2>3, MovingStep
<1> QED
  BY <1>4, <1>5 DEF Forward

(* So does a reset. *)
LEMMA ResetStep == ASSUME CheckoutInv, NEW p \in Operators, Reset(p) PROVE CheckoutInv'
<1>1. /\ UNCHANGED <<remote, terminal, repaired, faults>> /\ dirty' = FALSE
      /\ job[p] \in Job /\ job[p].target \in Commits /\ head' = job[p].target
  BY DEF Reset, CheckoutInv, CheckoutTypes, Job
<1>2. lock = p /\ Fits("reset", job[p])
  BY HolderIs DEF Reset, Holding, Places, CheckoutInv, Sound
<1>3. CASE Give(p)
  <2>1. Go(p, "idle", Work("none")) /\ lock' = Nobody
    BY <1>3, IdleIsGo DEF Give
  <2>2. Work("none") \in Job /\ "idle" \in Places /\ "idle" \notin Holding \cup Running
    BY IdleWork
  <2>3. "idle" \notin Proving \cup {"forward", "prove", "admit"}
    BY DEF Proving
  <2> QED
    BY <1>1, <1>2, <2>1, <2>2, <2>3, MovingStep
<1>4. CASE Keep(p, "synced", job[p])
  <2>1. Go(p, "synced", job[p]) /\ lock' = lock
    BY <1>4 DEF Keep
  <2>2. "synced" \in Places /\ "synced" \notin Running
        /\ "synced" \notin Proving \cup {"forward", "prove", "admit"}
    BY DEF Places, Running, Proving
  <2>3. head' \cap Runs \subseteq main
    BY <1>1, <1>2 DEF Fits, Published, Proving
  <2> QED
    BY <1>1, <1>2, <2>1, <2>2, <2>3, MovingStep
<1> QED
  BY <1>3, <1>4 DEF Reset

(* A RUN commits under the lock. *)
LEMMA CommitStep == ASSUME CheckoutInv, NEW p \in Operators, Commit(p) PROVE CheckoutInv'
<1>1. /\ UNCHANGED <<remote, terminal, repaired, faults>> /\ dirty' = dirty /\ lock' = lock
      /\ at[p] = "work" /\ job[p] \in Job /\ head' = head \cup {job[p].run}
      /\ at' = at /\ job' = job /\ dirty \in BOOLEAN
  BY DEF Commit, CheckoutInv, CheckoutTypes
<1>2. lock = p /\ job[p].run \in Runs
  BY <1>1, HolderIs DEF Holding, Places, Running, CheckoutInv, Sound
<1>3. head' \in Commits
  BY <1>1, <1>2 DEF CheckoutInv, CheckoutTypes, Commits, Changes
<1>4. Go(p, "work", job[p])
  BY <1>1 DEF Go, CheckoutInv, CheckoutTypes
<1>5. "work" \in Places /\ "work" \in Running /\ "work" \notin Proving \cup {"forward", "prove", "admit"}
  BY DEF Places, Running, Proving
<1> QED
  BY <1>1, <1>2, <1>3, <1>4, <1>5, MovingStep

-----------------------------------------------------------------------------
(* RUNs *)

(* RUN r is opened by process p at the HEAD of the checkout. *)
LEMMA OpeningStep ==
  ASSUME CheckoutInv, NEW p \in Operators, NEW r \in Runs, lock = Nobody, lock' = p,
         NEW t \in Run, t.kind = "open", t.base = head, t.sent = FALSE,
         t.from = Unset => Published(head),
         terminal[r].kind = "none", terminal' = [terminal EXCEPT ![r] = t],
         NEW j \in Job, j.run = r, Go(p, "work", j),
         repaired' \subseteq Runs, UNCHANGED <<remote, checkout, faults>>
  PROVE  CheckoutInv'
<1>0. CheckoutTypes
  BY DEF CheckoutInv
<1>1. UNCHANGED <<main, decided, passed, head, dirty, faults>>
  BY DEF remote, checkout
<1>2. /\ terminal' \in [Runs -> Run] /\ terminal'[r] = t
      /\ \A x \in Runs : x # r => terminal'[x] = terminal[x]
  BY <1>0 DEF CheckoutTypes
<1>3. "work" \in Places /\ "work" \in Running
  BY DEF Places, Running
<1>4. /\ at' \in [Operators -> Places] /\ job' \in [Operators -> Job]
      /\ at'[p] = "work" /\ job'[p] = j
      /\ \A q \in Operators : q # p => at'[q] = at[q] /\ job'[q] = job[q]
  BY <1>0, <1>3, Moves
<1>5. CheckoutTypes'
  BY <1>0, <1>1, <1>2, <1>4 DEF CheckoutTypes
<1>6. r \notin Sent
  BY DEF CheckoutInv, Ended
<1>7. Grows /\ Ended'
  BY <1>1, <1>2, <1>6 DEF CheckoutInv, Ended, Grows, Sent
<1>8. PrimaryBuildsOnPublished'
  BY <1>1, <1>2 DEF CheckoutInv, PrimaryBuildsOnPublished, Published
<1>9. ASSUME NEW q \in Operators PROVE at[q] \in Running => job[q].run # r
  BY DEF CheckoutInv, Sound
<1>10. Apart'
  BY <1>4, <1>9 DEF CheckoutInv, Apart
<1>11. ASSUME NEW q \in Operators PROVE Sound(q)'
  <2>1. CASE q = p
    <3>1. Fits("work", j)'
      BY DEF Fits, Proving
    <3> QED
      BY <1>2, <1>4, <2>1, <3>1 DEF Sound
  <2>2. CASE q # p
    <3>1. at[q] \notin Holding /\ Sound(q)
      BY DEF CheckoutInv, Sound, Setting
    <3>2. at[q] \notin {"last", "reset", "synced"}
      BY <3>1 DEF Holding, Places
    <3>3. Spares(q)
      BY <1>2, <1>4, <1>9, <2>2, <3>1, <3>2 DEF Spares, Sound
    <3> QED
      BY <1>7, <3>3, SparedStaysSound
  <2> QED
    BY <2>1, <2>2
<1> QED
  BY <1>5, <1>7, <1>8, <1>10, <1>11 DEF CheckoutInv, Setting

(* What a new RUN and its process look like. *)
LEMMA OpenedRun ==
  ASSUME CheckoutInv, NEW r \in Runs, NEW o \in {"run", "correct"}, NEW s \in Runs \cup {Unset},
         NEW f \in BOOLEAN
  PROVE  /\ Opened(head, s, f) \in Run /\ Opened(head, s, f).kind = "open"
         /\ Opened(head, s, f).base = head /\ Opened(head, s, f).sent = FALSE
         /\ Opened(head, s, f).from = s
         /\ [Work(o) EXCEPT !.run = r] \in Job /\ [Work(o) EXCEPT !.run = r].run = r
<1>1. head \in Commits
  BY DEF CheckoutInv, CheckoutTypes
<1>2. Work(o) \in Job
  BY WorkIsJob DEF Ops
<1>3. [Work(o) EXCEPT !.run = r] \in Job
  BY <1>2 DEF Job
<1>4. [Work(o) EXCEPT !.run = r].run = r
  BY <1>2 DEF Job
<1>5. NoTerminal \in Run /\ NoTerminal.sent = FALSE
  BY DEF NoTerminal, Run, Missing, Commits
<1>6. /\ Opened(head, s, f) \in Run /\ Opened(head, s, f).kind = "open"
      /\ Opened(head, s, f).base = head /\ Opened(head, s, f).from = s
      /\ Opened(head, s, f).sent = FALSE
  BY <1>1, <1>5 DEF Opened, Run
<1> QED
  BY <1>3, <1>4, <1>6

(* A PRIMARY is opened at the HEAD its preflight saw. *)
LEMMA AdmitStep == ASSUME CheckoutInv, NEW p \in Operators, Admit(p) PROVE CheckoutInv'
<1>1. UNCHANGED <<remote, repaired, checkout, faults>> /\ repaired \subseteq Runs
  BY DEF Admit, CheckoutInv, CheckoutTypes
<1>2. CASE UNCHANGED <<terminal, lock>> /\ Rest(p)
  <2>1. Go(p, "idle", Work("none"))
    BY <1>2, IdleIsGo
  <2>2. Work("none") \in Job /\ "idle" \in Places /\ "idle" \notin Holding \cup Running
    BY IdleWork
  <2>3. Fits("idle", Work("none"))
    BY DEF Fits, Proving
  <2> QED
    BY <1>1, <1>2, <2>1, <2>2, <2>3, ControlStep
<1>3. ASSUME lock = Nobody, PreflightStands(p), NEW r \in Runs, terminal[r].kind = "none",
             terminal' = [terminal EXCEPT ![r] = Opened(head, Unset, FALSE)],
             lock' = p, Go(p, "work", [Work("run") EXCEPT !.run = r])
      PROVE  CheckoutInv'
  <2> DEFINE t == Opened(head, Unset, FALSE)
             j == [Work("run") EXCEPT !.run = r]
  <2>1. Published(head)
    BY <1>3 DEF Admit, CheckoutInv, Sound, Fits, PreflightStands
  <2>2. t \in Run /\ t.kind = "open" /\ t.base = head /\ t.sent = FALSE /\ j \in Job /\ j.run = r
    BY OpenedRun
  <2>3. terminal' = [terminal EXCEPT ![r] = t] /\ Go(p, "work", j)
    BY <1>3
  <2> HIDE DEF t, j
  <2> QED
    BY <1>1, <1>3, <2>1, <2>2, <2>3, OpeningStep
<1> QED
  BY <1>2, <1>3 DEF Admit

(* A correction is opened at the HEAD of its source. *)
LEMMA CorrectStep ==
  ASSUME CheckoutInv, NEW p \in Operators, NEW r \in Runs, NEW s \in Runs, Correct(p, r, s)
  PROVE  CheckoutInv'
<1> DEFINE f == terminal[s].kind = "RESULT"
           t == Opened(head, s, f)
           j == [Work("correct") EXCEPT !.run = r]
<1>1. /\ UNCHANGED <<remote, checkout, faults>> /\ repaired' \subseteq Runs
      /\ lock = Nobody /\ lock' = p /\ terminal[r].kind = "none"
      /\ terminal' = [terminal EXCEPT ![r] = t] /\ Go(p, "work", j)
  BY DEF Correct, CheckoutInv, CheckoutTypes
<1>2. f \in BOOLEAN /\ s # Unset
  BY DEF CheckoutInv, Setting
<1> HIDE DEF f
<1>3. /\ t \in Run /\ t.kind = "open" /\ t.base = head /\ t.sent = FALSE /\ t.from = s
      /\ j \in Job /\ j.run = r
  <2>1. CASE f = TRUE BY <2>1, OpenedRun DEF t, j
  <2>2. CASE f = FALSE BY <2>2, OpenedRun DEF t, j
  <2> QED BY <1>2, <2>1, <2>2
<1> HIDE DEF t, j
<1> QED
  BY <1>1, <1>2, <1>3, OpeningStep

(* RUN r of process p ends: its terminal is written once and p goes idle. *)
LEMMA EndingStep ==
  ASSUME CheckoutInv, NEW p \in Operators, at[p] \in Running, Rest(p),
         lock' = lock \/ (lock = p /\ lock' = Nobody), at[p] \in Holding => lock' = Nobody,
         NEW kind \in {"RESULT", "FAILURE", "unclean"}, NEW h \in Commits,
         terminal' = [terminal EXCEPT ![job[p].run] =
                        [terminal[job[p].run] EXCEPT !.kind = kind, !.head = h]],
         UNCHANGED <<remote, repaired, checkout, faults>>
  PROVE  CheckoutInv'
<1> DEFINE r == job[p].run
           t == [terminal[r] EXCEPT !.kind = kind, !.head = h]
<1>0. CheckoutTypes /\ r \in Runs /\ terminal[r].kind = "open" /\ terminal[r] \in Run
  BY DEF CheckoutInv, CheckoutTypes, Sound
<1>1. UNCHANGED <<main, decided, passed, repaired, head, dirty, faults>>
  BY DEF remote, checkout
<1>2. t \in Run
  BY <1>0 DEF Run
<1>3. t.base = terminal[r].base /\ t.from = terminal[r].from /\ t.sent = terminal[r].sent
  BY <1>0 DEF Run
<1> HIDE DEF t
<1>4. /\ terminal' \in [Runs -> Run] /\ terminal'[r] = t
      /\ \A x \in Runs : x # r => terminal'[x] = terminal[x]
  BY <1>0, <1>2 DEF CheckoutTypes, t
<1> HIDE DEF r
<1>5. Work("none") \in Job /\ "idle" \in Places /\ "idle" \notin Holding \cup Running
  BY IdleWork
<1>6. /\ at' \in [Operators -> Places] /\ job' \in [Operators -> Job]
      /\ at'[p] = "idle" /\ job'[p] = Work("none")
      /\ \A q \in Operators : q # p => at'[q] = at[q] /\ job'[q] = job[q]
  BY <1>0, <1>5, IdleIsGo, Moves
<1>7. CheckoutTypes'
  BY <1>0, <1>1, <1>4, <1>6 DEF CheckoutTypes
<1>8. r \notin Sent /\ ~t.sent
  BY <1>0, <1>3 DEF CheckoutInv, Ended, Sent, Run
<1>9. Grows /\ Ended'
  BY <1>1, <1>4, <1>8 DEF CheckoutInv, Ended, Grows, Sent
<1>10. PrimaryBuildsOnPublished'
  BY <1>0, <1>1, <1>3, <1>4 DEF CheckoutInv, PrimaryBuildsOnPublished
<1>11. Apart'
  BY <1>5, <1>6 DEF CheckoutInv, Apart
<1>12. ASSUME NEW q \in Operators PROVE Sound(q)'
  <2>1. CASE q = p
    <3>1. Fits("idle", Work("none"))'
      BY DEF Fits, Proving
    <3> QED
      BY <1>5, <1>6, <2>1, <3>1 DEF Sound
  <2>2. CASE q # p
    <3>1. Sound(q)
      BY DEF CheckoutInv
    <3>2. at[q] \in Holding => lock' = lock
      BY <2>2, <3>1 DEF Sound
    <3>3. at[q] \in Running => job[q].run # r /\ job[q].run \in Runs
      BY <2>2, <3>1 DEF CheckoutInv, Apart, Sound, r
    <3>4. Spares(q)
      BY <1>1, <1>4, <1>6, <2>2, <3>1, <3>2, <3>3 DEF Spares, Sound, Fits
    <3> QED
      BY <1>9, <3>4, SparedStaysSound
  <2> QED
    BY <2>1, <2>2
<1> QED
  BY <1>7, <1>9, <1>10, <1>11, <1>12 DEF CheckoutInv, Setting

(* A RUN ends with a RESULT, *)
LEMMA CompleteStep == ASSUME CheckoutInv, NEW p \in Operators, Complete(p) PROVE CheckoutInv'
<1>1. /\ UNCHANGED <<remote, repaired, checkout, faults>> /\ head \in Commits
      /\ at[p] = "work" /\ Rest(p) /\ lock' = Nobody
      /\ terminal' = [terminal EXCEPT ![job[p].run].kind = "RESULT", ![job[p].run].head = head]
  BY DEF Complete, Give, CheckoutInv, CheckoutTypes
<1>2. lock = p /\ at[p] \in Running
  BY <1>1, HolderIs DEF Holding, Places, Running
<1>3. terminal' = [terminal EXCEPT ![job[p].run] =
                     [terminal[job[p].run] EXCEPT !.kind = "RESULT", !.head = head]]
  BY <1>1, <1>2 DEF CheckoutInv, CheckoutTypes, Sound
<1> QED
  BY <1>1, <1>2, <1>3, EndingStep

(* or fails and gives the lock back, *)
LEMMA FailStep == ASSUME CheckoutInv, NEW p \in Operators, Fail(p) PROVE CheckoutInv'
<1> DEFINE j == [job[p] EXCEPT !.local = head]
<1>1. /\ UNCHANGED <<remote, terminal, repaired, checkout, faults>>
      /\ job[p] \in Job /\ head \in Commits /\ at[p] = "work" /\ lock' = Nobody
  BY DEF Fail, CheckoutInv, CheckoutTypes
<1>2. lock = p
  BY <1>1, HolderIs DEF Holding, Places
<1>3. j \in Job /\ j.run = job[p].run
  BY <1>1 DEF Job
<1>4. Go(p, "failing", job[p]) \/ Go(p, "failing", j)
  BY DEF Fail
<1> HIDE DEF j
<1>5. /\ "failing" \in Places /\ "failing" \notin Holding /\ at[p] \in Running
      /\ Fits("failing", j) /\ Fits("failing", job[p])
  BY <1>1 DEF Places, Holding, Running, Fits, Proving
<1> QED
  BY <1>1, <1>2, <1>3, <1>4, <1>5, ControlStep

(* and its FAILURE is recorded beside whoever holds the lock now. *)
LEMMA RecordFailureStep == ASSUME CheckoutInv, NEW p \in Operators, RecordFailure(p) PROVE CheckoutInv'
<1>1. /\ UNCHANGED <<remote, repaired, checkout, faults>> /\ lock' = lock /\ Rest(p)
      /\ at[p] = "failing" /\ head \in Commits /\ job[p].local \in Commits
  BY DEF RecordFailure, CheckoutInv, CheckoutTypes, Job
<1>2. at[p] \in Running /\ at[p] \notin Holding
  BY <1>1 DEF Running, Holding
<1>3. PICK h \in Commits, kind \in {"FAILURE", "unclean"} :
        terminal' = [terminal EXCEPT ![job[p].run].head = h, ![job[p].run].kind = kind]
  BY <1>1 DEF RecordFailure
<1>4. job[p].run \in Runs /\ terminal \in [Runs -> Run]
  BY <1>2 DEF CheckoutInv, CheckoutTypes, Sound
<1>5. terminal' = [terminal EXCEPT ![job[p].run] =
                     [terminal[job[p].run] EXCEPT !.kind = kind, !.head = h]]
  BY <1>3, <1>4 DEF Run
<1> QED
  BY <1>1, <1>2, <1>5, EndingStep

(* A process may die anywhere. *)
LEMMA DieStep == ASSUME CheckoutInv, NEW p \in Operators, Die(p) PROVE CheckoutInv'
<1>1. /\ UNCHANGED <<remote, terminal, repaired, checkout>> /\ faults' \in 0 .. MaxFaults
      /\ lock' \in {lock, Nobody} /\ (lock' # lock => lock = p) /\ Rest(p)
  BY DEF Die, CheckoutInv, CheckoutTypes, Setting
<1>2. Go(p, "idle", Work("none"))
  BY <1>1, IdleIsGo
<1>3. Work("none") \in Job /\ "idle" \in Places /\ "idle" \notin Holding \cup Running
  BY IdleWork
<1>4. Fits("idle", Work("none"))
  BY DEF Fits, Proving
<1> QED
  BY <1>1, <1>2, <1>3, <1>4, PlacingStep

-----------------------------------------------------------------------------
(* The remote and the humans *)

(* A step of nobody. *)
LEMMA OutsideStep ==
  ASSUME CheckoutInv, UNCHANGED <<repaired, lock, at, job, faults>>,
         main' \in Commits, main \subseteq main', head' \in Commits, dirty' \in BOOLEAN,
         terminal' \in [Runs -> Run], passed' \subseteq decided', decided' \subseteq Runs,
         Grows, Ended', PrimaryBuildsOnPublished',
         \A q \in Operators : Spares(q)
  PROVE  CheckoutInv'
<1>1. CheckoutTypes'
  BY DEF CheckoutInv, CheckoutTypes
<1>2. \A q \in Operators : Sound(q)'
  BY SparedStaysSound
<1>3. Apart'
  BY DEF CheckoutInv, Apart
<1> QED
  BY <1>1, <1>2, <1>3 DEF CheckoutInv, Setting

(* What of the checkout does not change is spared. *)
LEMMA CheckoutSpared ==
  ASSUME CheckoutInv, UNCHANGED <<head, dirty, lock, at, job>>, NEW q \in Operators,
         at[q] \in Running => terminal'[job[q].run].kind = terminal[job[q].run].kind
  PROVE  Spares(q)
<1>1. Sound(q)
  BY DEF CheckoutInv
<1> QED
  BY <1>1 DEF Spares, Sound, Fits

(* A step that changes one terminal, which no process is executing. *)
LEMMA TerminalStep ==
  ASSUME CheckoutInv, UNCHANGED <<remote, repaired, checkout, lock, at, job, faults>>,
         NEW r \in Runs, terminal[r].kind # "open", NEW t \in Run,
         terminal' = [terminal EXCEPT ![r] = t],
         terminal[r].sent => t.sent /\ t.head = terminal[r].head,
         t.sent => t.kind \in {"RESULT", "FAILURE"},
         t.from = Unset => t.base \cap Runs \subseteq main
  PROVE  CheckoutInv'
<1>0. CheckoutTypes
  BY DEF CheckoutInv
<1>1. UNCHANGED <<main, decided, passed, head, dirty>>
  BY DEF remote, checkout
<1>2. /\ terminal' \in [Runs -> Run] /\ terminal'[r] = t
      /\ \A x \in Runs : x # r => terminal'[x] = terminal[x]
  BY <1>0 DEF CheckoutTypes
<1>3. Grows /\ Ended'
  BY <1>1, <1>2 DEF CheckoutInv, Ended, Grows, Sent
<1>4. PrimaryBuildsOnPublished'
  BY <1>1, <1>2 DEF CheckoutInv, PrimaryBuildsOnPublished
<1>5. ASSUME NEW q \in Operators PROVE Spares(q)
  <2>1. at[q] \in Running => job[q].run \in Runs /\ job[q].run # r
    BY DEF CheckoutInv, Sound
  <2> QED
    BY <1>1, <1>2, <2>1, CheckoutSpared
<1> QED
  BY <1>0, <1>1, <1>2, <1>3, <1>4, <1>5, OutsideStep DEF CheckoutTypes

(* A terminal is delivered. *)
LEMMA DeliverStep == ASSUME CheckoutInv, NEW r \in Runs, DeliverTerminal(r) PROVE CheckoutInv'
<1> DEFINE t == [terminal[r] EXCEPT !.sent = TRUE]
<1>1. terminal[r] \in Run /\ terminal[r].kind \in {"RESULT", "FAILURE"}
  BY DEF DeliverTerminal, CheckoutInv, CheckoutTypes
<1>2. t \in Run
  BY <1>1 DEF Run
<1>3. /\ t.sent = TRUE /\ t.kind = terminal[r].kind /\ t.head = terminal[r].head
      /\ t.from = terminal[r].from /\ t.base = terminal[r].base
  BY <1>1 DEF Run
<1>4. terminal' = [terminal EXCEPT ![r] = t]
  BY DEF DeliverTerminal, CheckoutInv, CheckoutTypes
<1>5. t.from = Unset => t.base \cap Runs \subseteq main
  BY <1>3 DEF CheckoutInv, PrimaryBuildsOnPublished
<1> HIDE DEF t
<1>6. UNCHANGED <<remote, repaired, checkout, lock, at, job, faults>>
  BY DEF DeliverTerminal
<1>7. terminal[r].kind # "open" /\ t.kind \in {"RESULT", "FAILURE"}
  BY <1>1, <1>3
<1> QED
  BY <1>2, <1>3, <1>4, <1>5, <1>6, <1>7, TerminalStep

(* A RUN of another checkout is delivered. *)
LEMMA ElsewhereStep == ASSUME CheckoutInv, NEW r \in Runs, Elsewhere(r) PROVE CheckoutInv'
<1>1. /\ UNCHANGED <<remote, repaired, checkout, lock, at, job, faults>>
      /\ terminal[r].kind = "none" /\ main \in Commits /\ Unset \notin Runs
      /\ terminal \in [Runs -> Run]
  BY DEF Elsewhere, CheckoutInv, CheckoutTypes, Setting
<1>2. PICK s \in Sent \cup {Unset}, k \in {"RESULT", "FAILURE"}, work \in {{}, {r}} :
        LET fix == s # Unset /\ terminal[s].kind = "RESULT"
            base == IF s = Unset THEN main ELSE terminal[s].head
        IN  terminal' = [terminal EXCEPT ![r] = [kind |-> k, base |-> base, from |-> s,
                           head |-> base \cup work, fix |-> fix, sent |-> TRUE]]
  BY DEF Elsewhere
<1> DEFINE fix == s # Unset /\ terminal[s].kind = "RESULT"
           base == IF s = Unset THEN main ELSE terminal[s].head
           t == [kind |-> k, base |-> base, from |-> s, head |-> base \cup work,
                 fix |-> fix, sent |-> TRUE]
<1>3. terminal' = [terminal EXCEPT ![r] = t]
  BY <1>2
<1>4. base \in Commits /\ (s = Unset => base = main)
  BY <1>1 DEF Sent, Run
<1>5. base \cup work \in Commits
  BY <1>4 DEF Commits, Changes
<1>6. fix \in BOOLEAN /\ s \in Runs \cup {Unset}
  BY DEF Sent
<1> HIDE DEF fix, base
<1>7. t \in Run
  BY <1>4, <1>5, <1>6 DEF Run
<1>8. t.from = Unset => t.base \cap Runs \subseteq main
  BY <1>4
<1>9. t.sent = TRUE /\ t.kind \in {"RESULT", "FAILURE"} /\ ~terminal[r].sent
  BY <1>1 DEF CheckoutInv, Ended, Sent, Run
<1> HIDE DEF t
<1>10. terminal[r].kind # "open"
  BY <1>1
<1> QED
  BY <1>1, <1>3, <1>7, <1>8, <1>9, <1>10, TerminalStep

(* A review touches nothing here. *)
LEMMA ReviewedStep == ASSUME CheckoutInv, NEW r \in Runs, Review(r) PROVE CheckoutInv'
<1>1. /\ UNCHANGED <<main, terminal, repaired, head, dirty, lock, at, job, faults>>
      /\ decided' \subseteq Runs /\ passed' \subseteq decided'
  BY DEF Review, checkout, Results, CheckoutInv, CheckoutTypes
<1>2. Grows /\ Ended' /\ PrimaryBuildsOnPublished'
  BY <1>1 DEF CheckoutInv, Ended, PrimaryBuildsOnPublished, Grows, Sent
<1>3. \A q \in Operators : Spares(q)
  BY <1>1, CheckoutSpared
<1> QED
  BY <1>1, <1>2, <1>3, OutsideStep DEF CheckoutInv, CheckoutTypes

(* The published main moves on. *)
LEMMA MainStep ==
  ASSUME CheckoutInv, main' \in Commits, main \subseteq main',
         UNCHANGED <<decided, passed, terminal, repaired, checkout, lock, at, job, faults>>
  PROVE  CheckoutInv'
<1>1. UNCHANGED <<head, dirty>>
  BY DEF checkout
<1>2. Grows /\ Ended' /\ PrimaryBuildsOnPublished'
  BY DEF CheckoutInv, Ended, PrimaryBuildsOnPublished, Grows, Sent
<1>3. \A q \in Operators : Spares(q)
  BY <1>1, CheckoutSpared
<1> QED
  BY <1>1, <1>2, <1>3, OutsideStep DEF CheckoutInv, CheckoutTypes

(* A candidate is published. *)
LEMMA PublishedStep == ASSUME CheckoutInv, NEW r \in Runs, Publish(r) PROVE CheckoutInv'
<1>1. terminal[r].head \in Commits /\ main \in Commits
  BY DEF CheckoutInv, CheckoutTypes, Run
<1>2. Merge(r) \in Changes
  BY DEF Changes
<1>3. main' \in Commits /\ main \subseteq main'
  BY <1>1, <1>2 DEF Publish, Commits
<1> QED
  BY <1>3, MainStep DEF Publish

(* A TASK is authored. *)
LEMMA PostStep == ASSUME CheckoutInv, NEW t \in Posts, Post(t) PROVE CheckoutInv'
<1>1. main' \in Commits /\ main \subseteq main'
  BY DEF Post, Commits, Changes, CheckoutInv, CheckoutTypes
<1> QED
  BY <1>1, MainStep DEF Post

(* A human changes the checkout, when nobody is about to rely on it. *)
LEMMA HumanStep ==
  ASSUME CheckoutInv, head' \in Commits, dirty' \in BOOLEAN, head' \cap Runs \subseteq head,
         head' # head => \A p \in Operators : at[p] # "reset",
         dirty' => dirty \/ \A p \in Operators : at[p] # "reset" /\ (at[p] = "last" => job[p].op = "reconcile"),
         UNCHANGED <<remote, terminal, repaired, lock, at, job, faults>>
  PROVE  CheckoutInv'
<1>1. UNCHANGED <<main, decided, passed>>
  BY DEF remote
<1>2. Grows /\ Ended' /\ PrimaryBuildsOnPublished'
  BY <1>1 DEF CheckoutInv, Ended, PrimaryBuildsOnPublished, Grows, Sent
<1>3. ASSUME NEW q \in Operators PROVE Spares(q)
  <2>1. Sound(q)
    BY DEF CheckoutInv
  <2>2. at[q] = "last" /\ job[q].op # "reconcile" => ~dirty'
    BY <2>1 DEF Sound, Fits
  <2>3. at[q] = "reset" => head' = head /\ ~dirty'
    <3> SUFFICES ASSUME at[q] = "reset" PROVE head' = head /\ ~dirty'
      OBVIOUS
    <3>1. ~dirty
      BY <2>1 DEF Sound, Fits
    <3> QED
      BY <3>1
  <2>4. terminal' = terminal /\ at' = at /\ job' = job /\ lock' = lock
    OBVIOUS
  <2> QED
    BY <2>2, <2>3, <2>4 DEF Spares
<1> QED
  BY <1>1, <1>2, <1>3, OutsideStep DEF CheckoutInv, CheckoutTypes

(* A human commits, and no commit of a RUN is lost or gained. *)
LEMMA StrayStep == ASSUME CheckoutInv, NEW x \in Strays, Stray(x) PROVE CheckoutInv'
<1>1. head' = head \cup {x} /\ head \in Commits /\ x \notin Runs /\ dirty \in BOOLEAN
  BY DEF Stray, CheckoutInv, CheckoutTypes, Setting
<1>2. head' \in Commits /\ head' \cap Runs \subseteq head
  BY <1>1 DEF Commits, Changes
<1> QED
  BY <1>1, <1>2, HumanStep DEF Stray

(* A human edits, or tidies up. *)
LEMMA EditStep == ASSUME CheckoutInv, Edit \/ Tidy PROVE CheckoutInv'
<1>1. head \in Commits
  BY DEF CheckoutInv, CheckoutTypes
<1> QED
  BY <1>1, HumanStep DEF Edit, Tidy

(* At the beginning nothing runs. *)
LEMMA Beginning == Setting /\ CheckoutInit => CheckoutInv
<1> SUFFICES ASSUME Setting, CheckoutInit PROVE CheckoutInv
  OBVIOUS
<1>1. NoTerminal \in Run /\ NoTerminal.sent = FALSE /\ NoTerminal.base = {}
  BY DEF NoTerminal, Run, Missing, Commits
<1>2. Work("none") \in Job /\ "idle" \in Places /\ "idle" \notin Holding \cup Running
  BY IdleWork
<1>3. CheckoutTypes
  <2>1. {Root} \in Commits
    BY DEF Commits, Changes
  <2>2. 0 \in 0 .. MaxFaults
    BY DEF Setting
  <2>3. at \in [Operators -> Places] /\ job \in [Operators -> Job] /\ terminal \in [Runs -> Run]
    BY <1>1, <1>2 DEF CheckoutInit
  <2> QED
    BY <2>1, <2>2, <2>3 DEF CheckoutInit, CheckoutTypes
<1>4. Sent = {}
  BY <1>1 DEF CheckoutInit, Sent
<1>5. Ended /\ PrimaryBuildsOnPublished
  BY <1>1, <1>4 DEF CheckoutInit, Ended, PrimaryBuildsOnPublished
<1>6. \A p \in Operators : at[p] = "idle" /\ Fits("idle", job[p])
  BY DEF CheckoutInit, Fits, Proving
<1>7. Apart /\ \A p \in Operators : Sound(p)
  BY <1>2, <1>6 DEF Apart, Sound
<1> QED
  BY <1>3, <1>5, <1>7 DEF CheckoutInv

(* Every step keeps the invariant. *)
LEMMA CheckoutStep == CheckoutInv /\ [CheckoutNext]_checkoutVars => CheckoutInv'
<1> SUFFICES ASSUME CheckoutInv, [CheckoutNext]_checkoutVars PROVE CheckoutInv'
  OBVIOUS
<1>1. ASSUME NEW p \in Operators, Synchronise(p) PROVE CheckoutInv'
  BY <1>1, EnterStep, ReenterStep, ObserveStep, FetchStep, ForwardStep, ProveStep, RecheckStep,
     LastStep, ResetStep, SyncedStep, ReconcileStep DEF Synchronise
<1>2. ASSUME NEW p \in Operators, Execute(p) \/ Die(p) PROVE CheckoutInv'
  BY <1>2, AdmitStep, CommitStep, CompleteStep, FailStep, RecordFailureStep, CorrectStep, DieStep
     DEF Execute
<1>3. CASE Around
  BY <1>3, DeliverStep, ReviewedStep, PublishedStep, ElsewhereStep, PostStep, StrayStep, EditStep
     DEF Around
<1>4. CASE UNCHANGED checkoutVars
  <2>1. UNCHANGED <<main, decided, passed, terminal, repaired, head, dirty, lock, at, job, faults>>
    BY <1>4 DEF checkoutVars, remote, checkout
  <2>2. main' \in Commits /\ main \subseteq main'
    BY <2>1 DEF CheckoutInv, CheckoutTypes
  <2> QED
    BY <2>1, <2>2, MainStep DEF checkout
<1> QED
  BY <1>1, <1>2, <1>3, <1>4 DEF CheckoutNext

(* Only a reset drops commits, and it is behind its proof. *)
LEMMA WorkKept ==
  ASSUME CheckoutInv, [CheckoutNext]_checkoutVars
  PROVE  head \subseteq head' \/ (~dirty /\ \E r \in Sent : head \subseteq terminal[r].head)
<1>1. CASE head' = head
  BY <1>1
<1>2. ASSUME NEW p \in Operators, Forward(p) PROVE head \subseteq head'
  BY <1>2 DEF Forward
<1>3. ASSUME NEW p \in Operators, Reset(p)
      PROVE  ~dirty /\ \E r \in Sent : head \subseteq terminal[r].head
  BY <1>3 DEF Reset, CheckoutInv, Sound, Fits, Proving
<1>4. ASSUME NEW p \in Operators, Commit(p) PROVE head \subseteq head'
  BY <1>4 DEF Commit
<1>5. ASSUME NEW p \in Operators, Synchronise(p), ~Forward(p), ~Reset(p) PROVE head' = head
  BY <1>5 DEF Synchronise, Enter, Reenter, Observe, Fetch, Prove, Recheck, Last, Synced, ReconcileMain,
     checkout
<1>6. ASSUME NEW p \in Operators, Execute(p) \/ Die(p), ~Commit(p) PROVE head' = head
  BY <1>6 DEF Execute, Admit, Complete, Fail, RecordFailure, Correct, Die, checkout
<1>7. CASE Around
  BY <1>7 DEF Around, DeliverTerminal, Review, Publish, Elsewhere, Post, Stray, Edit, Tidy, checkout
<1>8. CASE UNCHANGED checkoutVars
  BY <1>8 DEF checkoutVars, checkout
<1> QED
  BY <1>1, <1>2, <1>3, <1>4, <1>5, <1>6, <1>7, <1>8 DEF CheckoutNext

(* The inductive invariant of the control checkout: who holds operator.lock,
   which RUN a process executes, what its proof named and what it takes for
   published. *)
THEOREM CheckoutInvariance == CheckoutSpec => []CheckoutInv
  BY SettingAssumption, Beginning, CheckoutStep, PTL DEF CheckoutSpec

(* A PRIMARY RUN is never built on the commits of another RUN that are not
   published, for any number of processes, RUNs, authored TASKs and deaths. *)
THEOREM PrimaryBase == CheckoutSpec => []PrimaryBuildsOnPublished
<1>1. CheckoutInv => PrimaryBuildsOnPublished
  BY DEF CheckoutInv
<1> QED
  BY <1>1, CheckoutInvariance, PTL

(* No step drops a commit of the checkout unless a delivered terminal keeps it
   and the worktree is clean. *)
THEOREM WorkIsKept == CheckoutSpec => LocalWorkIsKept
<1>1. CheckoutInv /\ [CheckoutNext]_checkoutVars =>
        [\/ head \subseteq head'
         \/ ~dirty /\ \E r \in Sent : head \subseteq terminal[r].head]_checkoutVars
  BY WorkKept
<1> QED
  BY <1>1, CheckoutInvariance, PTL DEF CheckoutSpec, LocalWorkIsKept

=============================================================================
