-------------------------- MODULE DispatchJournal --------------------------
(***************************************************************************)
(* The durable dispatch journals of AIOS-renew and the RUNs they start.    *)
(*                                                                         *)
(* A delivery (one operating-system process, `aios wakeup` and its REPAIR  *)
(* and REMEDIATION siblings) names a dispatch id and an immutable request  *)
(* binding.  The first delivery of an id writes a STARTED record, takes    *)
(* the id's active lock and invokes the RUN; every later delivery of the   *)
(* same id replays or reconciles the record and never invokes again.       *)
(*                                                                         *)
(*   execute_dispatch            src/src/aios_renew/dispatch_reconciliation.py *)
(*   execute_repair_dispatch     src/src/aios_renew/repair_dispatch.py     *)
(*   execute_correction_dispatch src/src/aios_renew/correction_dispatch.py *)
(*   run_task                    src/src/aios_renew/operator.py            *)
(*                                                                         *)
(* Three kinds of lock meet here: one journal lock per family (blocking),  *)
(* one active lock per dispatch (held for a whole invocation) and the one  *)
(* operator.lock of the repository (never waited for: a RUN that finds it  *)
(* taken is refused, and a reconciliation only probes it).  All of them    *)
(* are released by the operating system when their process dies; files    *)
(* survive.                                                                *)
(***************************************************************************)
EXTENDS Naturals, FiniteSets

CONSTANTS
  Procs,        \* delivering processes
  Dispatches,   \* dispatch ids
  FamilyOf,     \* the journal each id belongs to
  Bindings,     \* immutable request bindings: task, blob, executor, profile
  RunIds,       \* RUN numbers, an initial segment of the positive naturals
  Reserved,     \* RUN numbers already published on the remote
  MaxCrashes,   \* bound: process deaths in a behaviour
  NoProc, NoRun, NoRecord, NoBinding

Families == {"PRIMARY", "REPAIR", "CORRECTION"}

ASSUME FamilyAssumption == FamilyOf \in [Dispatches -> Families]
ASSUME RunAssumption == RunIds \subseteq Nat \ {0} /\ Reserved \subseteq RunIds
ASSUME CrashAssumption == MaxCrashes \in Nat
ASSUME ProcAssumption == NoProc \notin Procs

Terminal == {"SUCCEEDED", "FAILED"}
Nonterminal == {"STARTED", "IN_PROGRESS", "RECONCILIATION_BLOCKED"}

VARIABLES
  journal,      \* dispatch records, one file per id
  journalLock,  \* dispatch.lock, repair-dispatch.lock, correction-dispatch.lock
  activeLock,   \* <key>.active.lock of every id
  opLock,       \* operator.lock: the free lock, a RUN or a status probe
  runs,         \* RUN records: the binding each RUN was admitted under
  results,      \* results/<run>.json: absent, torn or whole
  failures,     \* failures/<run>.json: absent, torn or whole
  req,          \* the request a process delivers
  pc,           \* where a delivering process is
  seen,         \* what a reconciliation or a finalization has read
  out,          \* the outcome a delivery reported
  wk,           \* where the invocation a process started is
  wrun,         \* the RUN that invocation reserved
  forked,       \* the invocation moved to a restarted child process
  ret,          \* how the invocation returned to its process
  launched,     \* executor launches per dispatch (history)
  crashes       \* process deaths so far

journalVars == <<journal, journalLock, activeLock>>
fileVars == <<runs, results, failures>>
procVars == <<req, pc, seen, out>>
workVars == <<wk, wrun, forked, ret>>
vars == <<journalVars, opLock, fileVars, procVars, workVars, launched, crashes>>

-----------------------------------------------------------------------------
(* State.  A definition named Mut... is a plausible slip in the definition
   that follows it; no behaviour uses it, and each one breaks a property. *)

Record == [binding: Bindings, status: Terminal \cup Nonterminal,
           run: RunIds \cup {NoRun}, pre: SUBSET RunIds]

ASSUME NullAssumption ==
  NoRun \notin RunIds /\ NoBinding \notin Bindings /\ NoRecord \notin Record

FileState == {"absent", "torn", "whole"}
Exists(file) == file # "absent"          \* Path.is_file

FreeLock == [role |-> "free", proc |-> NoProc]
RunHolds(p) == [role |-> "run", proc |-> p]
ProbeHolds(p) == [role |-> "probe", proc |-> p]

Observation == [kind: {"none", "reconcile", "finalize", "inspect"},
                result: BOOLEAN, failure: BOOLEAN, held: BOOLEAN]
NothingSeen == [kind |-> "none", result |-> FALSE, failure |-> FALSE, held |-> FALSE]

d(p) == req[p].dispatch
Family(p) == FamilyOf[d(p)]
Rec(p) == journal[d(p)]

Init ==
  /\ journal = [x \in Dispatches |-> NoRecord]
  /\ journalLock = [f \in Families |-> NoProc]
  /\ activeLock = [x \in Dispatches |-> NoProc]
  /\ opLock = FreeLock
  /\ runs = [r \in RunIds |-> NoBinding]
  /\ results = [r \in RunIds |-> "absent"]
  /\ failures = [r \in RunIds |-> "absent"]
  /\ req \in [Procs -> [dispatch: Dispatches, binding: Bindings]]
  /\ pc = [p \in Procs |-> "idle"]
  /\ seen = [p \in Procs |-> NothingSeen]
  /\ out = [p \in Procs |-> "none"]
  /\ wk = [p \in Procs |-> "none"]
  /\ wrun = [p \in Procs |-> NoRun]
  /\ forked = [p \in Procs |-> FALSE]
  /\ ret = [p \in Procs |-> "none"]
  /\ launched = [x \in Dispatches |-> 0]
  /\ crashes = 0

-----------------------------------------------------------------------------
(* The verdicts: pure functions of a record and of what was read. *)

Verdict(rec, status) == [rec EXCEPT !.status = status]

(* REPAIR and CORRECTION authenticate the bound RUN record before they use
   it; the binding a RUN was admitted under is what they compare. *)
RunMatches(rec) == rec.run # NoRun /\ runs[rec.run] = rec.binding

MutObservationHasty(rec, s) == Verdict(rec, IF s.result THEN "SUCCEEDED" ELSE "FAILED")

(* What the two artifacts of the bound RUN and the operator.lock say. *)
TerminalObservation(rec, s) ==
  Verdict(rec, CASE s.result /\ ~s.failure -> "SUCCEEDED"
                 [] s.failure /\ ~s.result -> "FAILED"
                 [] ~s.result /\ ~s.failure /\ s.held -> "IN_PROGRESS"
                 [] OTHER -> "RECONCILIATION_BLOCKED")

(* _reconcile: the record of a dead invocation, judged from its RUN. *)
Reconcile(f, rec, s) ==
  IF rec.run = NoRun \/ (f # "PRIMARY" /\ ~RunMatches(rec))
  THEN Verdict(rec, "RECONCILIATION_BLOCKED")
  ELSE TerminalObservation(rec, s)

(* _finalize_invocation of PRIMARY and REPAIR: a nonzero exit is FAILED
   whatever artifacts exist; a zero exit needs the bound RUN's RESULT.
   The invocation names its RUN unless it ran in a restarted child. *)
FinalizeByExit(f, rec, exit, named, s) ==
  Verdict(rec, CASE named # NoRun /\ named # rec.run -> "RECONCILIATION_BLOCKED"
                 [] exit # "ok" -> "FAILED"
                 [] rec.run = NoRun \/ (f = "REPAIR" /\ ~RunMatches(rec))
                                    \/ ~s.result -> "RECONCILIATION_BLOCKED"
                 [] OTHER -> "SUCCEEDED")

(* _finalize_invocation of CORRECTION: the artifacts decide once a RUN is
   bound; only an invocation without a RUN is judged by its exit code. *)
FinalizeByArtifacts(rec, exit, named, s) ==
  IF named # NoRun /\ (named # rec.run \/ ~RunMatches(rec))
  THEN Verdict(rec, "RECONCILIATION_BLOCKED")
  ELSE IF RunMatches(rec) THEN TerminalObservation(rec, s)
       ELSE Verdict(rec, IF exit = "ok" THEN "RECONCILIATION_BLOCKED" ELSE "FAILED")

(* The RUN an invocation names when it returns: only a successful call in
   the delivering process itself returns a RUN id. *)
NamedRun(p) == IF ret[p] = "ok" /\ ~forked[p] THEN wrun[p] ELSE NoRun

Decision(p) ==
  IF seen[p].kind = "reconcile" THEN Reconcile(Family(p), Rec(p), seen[p])
  ELSE IF Family(p) = "CORRECTION"
       THEN FinalizeByArtifacts(Rec(p), ret[p], NamedRun(p), seen[p])
       ELSE FinalizeByExit(Family(p), Rec(p), ret[p], NamedRun(p), seen[p])

(* Whether that decision has to look at operator.lock. *)
NeedsProbe(kind, p, result, failure) ==
  /\ ~result /\ ~failure
  /\ \/ kind = "reconcile" /\ Rec(p).run # NoRun
     \/ kind = "finalize" /\ Family(p) = "CORRECTION" /\ RunMatches(Rec(p))

-----------------------------------------------------------------------------
(* The delivering process *)

Goto(p, step) == pc' = [pc EXCEPT ![p] = step]
Report(p, status) == Goto(p, "done") /\ out' = [out EXCEPT ![p] = status]

JournalFree(p) == journalLock[Family(p)] = NoProc

MutIdle(p) == TRUE

(* The three questions every delivery asks of its id's record. *)
Settled(rec) == rec.status \in Terminal
Unseen(p) == Rec(p) = NoRecord
Idle(p) == activeLock[d(p)] = NoProc

(* A delivery starts.  Its profile, preflight and approval checks read only. *)
Deliver(p) ==
  /\ pc[p] = "idle"
  /\ Goto(p, "deliver")
  /\ UNCHANGED <<journalVars, opLock, fileVars, req, seen, out, workVars, launched, crashes>>

(* Malformed selectors, an unauthorized REPAIR or a stale approval: the
   delivery ends before it touches the journal. *)
Refuse(p) ==
  /\ pc[p] = "idle"
  /\ Report(p, "REFUSED")
  /\ UNCHANGED <<journalVars, opLock, fileVars, req, seen, workVars, launched, crashes>>

(* Under the journal lock: an existing record that is bound to another
   request, is terminal, or whose invocation still holds its active lock is
   answered without a write. *)
Replay(p) ==
  /\ pc[p] = "deliver" /\ JournalFree(p)
  /\ Rec(p) # NoRecord
  /\ \/ Rec(p).binding # req[p].binding /\ Report(p, "COLLISION")
     \/ /\ Rec(p).binding = req[p].binding
        /\ Settled(Rec(p))
        /\ Report(p, Rec(p).status)
     \/ /\ Rec(p).binding = req[p].binding
        /\ ~Settled(Rec(p)) /\ ~Idle(p)
        /\ Report(p, "IN_PROGRESS")
  /\ UNCHANGED <<journalVars, opLock, fileVars, req, seen, workVars, launched, crashes>>

(* The artifacts of the bound RUN, read while the journal lock is held. *)
Look(p, kind) ==
  LET r == Rec(p).run
      result == r # NoRun /\ Exists(results[r])
      failure == r # NoRun /\ Exists(failures[r])
  IN /\ journalLock' = [journalLock EXCEPT ![Family(p)] = p]
     /\ seen' = [seen EXCEPT ![p] = [kind |-> kind, result |-> result,
                                     failure |-> failure, held |-> FALSE]]
     /\ Goto(p, IF NeedsProbe(kind, p, result, failure) THEN "probe" ELSE "write")

(* An open record nobody is executing any more: reconcile it. *)
BeginReconcile(p) ==
  /\ pc[p] = "deliver" /\ JournalFree(p)
  /\ Rec(p) # NoRecord
  /\ Rec(p).binding = req[p].binding
  /\ ~Settled(Rec(p)) /\ Idle(p)
  /\ Look(p, "reconcile")
  /\ UNCHANGED <<journal, activeLock, opLock, fileVars, req, out, workVars, launched, crashes>>

(* The first delivery: STARTED is durable and the active lock is taken
   before the journal lock is given up, and only then the RUN is invoked. *)
Authorize(p) ==
  /\ pc[p] = "deliver" /\ JournalFree(p)
  /\ Unseen(p)
  /\ journal' = [journal EXCEPT ![d(p)] =
       [binding |-> req[p].binding, status |-> "STARTED", run |-> NoRun,
        pre |-> {r \in RunIds : runs[r] # NoBinding}]]
  /\ activeLock' = [activeLock EXCEPT ![d(p)] = p]
  /\ Goto(p, "invoked")
  /\ wk' = [wk EXCEPT ![p] = IF Family(p) = "PRIMARY" THEN "preflight" ELSE "admit"]
  /\ UNCHANGED <<journalLock, opLock, fileVars, req, seen, out, wrun, forked, ret, launched, crashes>>

(* _lock_is_held on operator.lock: one attempt to take it. *)
Probe(p) ==
  /\ pc[p] = "probe"
  /\ IF opLock = FreeLock
     THEN opLock' = ProbeHolds(p) /\ Goto(p, "probing") /\ UNCHANGED seen
     ELSE /\ seen' = [seen EXCEPT ![p].held = TRUE]
          /\ Goto(p, IF seen[p].kind = "inspect" THEN "inspected" ELSE "write")
          /\ UNCHANGED opLock
  /\ UNCHANGED <<journalVars, fileVars, req, out, workVars, launched, crashes>>

(* The attempt succeeded, so nobody held it: let it go again. *)
ProbeEnd(p) ==
  /\ pc[p] = "probing"
  /\ opLock' = FreeLock
  /\ Goto(p, IF seen[p].kind = "inspect" THEN "inspected" ELSE "write")
  /\ UNCHANGED <<journalVars, fileVars, req, seen, out, workVars, launched, crashes>>

(* The decided record replaces the old one and the journal lock is freed.
   A finalizing delivery still holds its active lock afterwards. *)
Write(p) ==
  /\ pc[p] = "write"
  /\ journal' = [journal EXCEPT ![d(p)] = Decision(p)]
  /\ journalLock' = [journalLock EXCEPT ![Family(p)] = NoProc]
  /\ out' = [out EXCEPT ![p] = Decision(p).status]
  /\ Goto(p, IF seen[p].kind = "finalize" THEN "release" ELSE "done")
  /\ UNCHANGED <<activeLock, opLock, fileVars, req, seen, workVars, launched, crashes>>

(* The invocation returned an exit code: take the journal lock, read again. *)
BeginFinalize(p) ==
  /\ pc[p] = "invoked" /\ JournalFree(p)
  /\ wk[p] = "returned" /\ ret[p] \in {"ok", "error"}
  /\ Look(p, "finalize")
  /\ UNCHANGED <<journal, activeLock, opLock, fileVars, req, out, workVars, launched, crashes>>

MutRaise(p) ==
  /\ pc[p] = "invoked"
  /\ wk[p] = "returned" /\ ret[p] = "raise"
  /\ Report(p, "RAISED")
  /\ UNCHANGED <<journalVars, opLock, fileVars, req, seen, workVars, launched, crashes>>

(* The invocation raised (an interrupt, an I/O error, a negative exit
   code): the record keeps what it says and only the active lock goes. *)
Raise(p) ==
  /\ pc[p] = "invoked"
  /\ wk[p] = "returned" /\ ret[p] = "raise"
  /\ Goto(p, "release")
  /\ out' = [out EXCEPT ![p] = "RAISED"]
  /\ UNCHANGED <<journalVars, opLock, fileVars, req, seen, workVars, launched, crashes>>

ReleaseActive(p) ==
  /\ pc[p] = "release"
  /\ activeLock' = [activeLock EXCEPT ![d(p)] = NoProc]
  /\ Goto(p, "done")
  /\ UNCHANGED <<journal, journalLock, opLock, fileVars, req, seen, out, workVars, launched, crashes>>

(* inspect_dispatch: a status reader of PRIMARY records takes no journal
   lock and writes nothing, yet it probes operator.lock like the others. *)
Inspect(p) ==
  /\ pc[p] = "idle"
  /\ Family(p) = "PRIMARY" /\ Rec(p) # NoRecord
  /\ LET r == Rec(p).run
         result == r # NoRun /\ Exists(results[r])
         failure == r # NoRun /\ Exists(failures[r])
     IN /\ seen' = [seen EXCEPT ![p] = [kind |-> "inspect", result |-> result,
                                        failure |-> failure, held |-> FALSE]]
        /\ Goto(p, IF r # NoRun /\ ~result /\ ~failure THEN "probe" ELSE "inspected")
  /\ UNCHANGED <<journalVars, opLock, fileVars, req, out, workVars, launched, crashes>>

InspectEnd(p) ==
  /\ pc[p] = "inspected"
  /\ Report(p, "STATUS")
  /\ UNCHANGED <<journalVars, opLock, fileVars, req, seen, workVars, launched, crashes>>

-----------------------------------------------------------------------------
(* The invocation: run_task, run_repair, run_remediation *)

Step(p, step) == wk' = [wk EXCEPT ![p] = step]
Return(p, how) == Step(p, "returned") /\ ret' = [ret EXCEPT ![p] = how]

(* RepositoryLock.acquire never waits: "another AIOS run is active". *)
LockRefused(p) ==
  /\ wk[p] \in {"preflight", "admit"}
  /\ opLock # FreeLock
  /\ Return(p, "error")
  /\ UNCHANGED <<journalVars, opLock, fileVars, procVars, wrun, forked, launched, crashes>>

TakeLock(p) ==
  /\ wk[p] \in {"preflight", "admit"}
  /\ opLock = FreeLock
  /\ opLock' = RunHolds(p)
  /\ Step(p, IF wk[p] = "preflight" THEN "syncing" ELSE "admitting")
  /\ UNCHANGED <<journalVars, fileVars, procVars, wrun, forked, ret, launched, crashes>>

(* The preflight synchronization ends: go on to admission, fail, or, when
   the fast-forward changed kernel sources, restart in a child process that
   repeats the preflight (a child never restarts again). *)
Preflighted(p) ==
  /\ wk[p] = "syncing"
  /\ opLock' = FreeLock
  /\ \/ Step(p, "admit") /\ UNCHANGED <<forked, ret>>
     \/ Return(p, "error") /\ UNCHANGED forked
     \/ /\ ~forked[p]
        /\ forked' = [forked EXCEPT ![p] = TRUE]
        /\ Step(p, "preflight") /\ UNCHANGED ret
  /\ UNCHANGED <<journalVars, fileVars, procVars, wrun, launched, crashes>>

(* Dirty checkout, moved TASK, conflicting remote terminals: no RUN. *)
AdmissionRejected(p) ==
  /\ wk[p] = "admitting"
  /\ opLock' = FreeLock
  /\ Return(p, "error")
  /\ UNCHANGED <<journalVars, fileVars, procVars, wrun, forked, launched, crashes>>

(* next_run_id: one above every local and remote RUN number. *)
UsedRuns == {r \in RunIds : runs[r] # NoBinding} \cup Reserved
IsNextRun(r) == (\A s \in UsedRuns : s < r) /\ (r = 1 \/ r - 1 \in UsedRuns)

ReserveRun(p) ==
  /\ wk[p] = "admitting"
  /\ \E r \in RunIds :
       /\ IsNextRun(r)
       /\ runs' = [runs EXCEPT ![r] = req[p].binding]
       /\ wrun' = [wrun EXCEPT ![p] = r]
  /\ Step(p, "reserved")
  /\ UNCHANGED <<journalVars, opLock, results, failures, procVars, forked, ret, launched, crashes>>

(* bind_dispatch_run: ownership is written while operator.lock is held and
   only into a record that is STARTED and owns no RUN yet. *)
MayBind(rec, f, r) ==
  /\ rec # NoRecord
  /\ rec.status = "STARTED" /\ rec.run = NoRun
  /\ runs[r] = rec.binding
  /\ f = "CORRECTION" => r \notin rec.pre

BindRun(p) ==
  /\ wk[p] = "reserved" /\ JournalFree(p)
  /\ MayBind(Rec(p), Family(p), wrun[p])
  /\ journal' = [journal EXCEPT ![d(p)].run = wrun[p]]
  /\ Step(p, "bound")
  /\ UNCHANGED <<journalLock, activeLock, opLock, fileVars, procVars, wrun, forked, ret, launched, crashes>>

BindRejected(p) ==
  /\ wk[p] = "reserved" /\ JournalFree(p)
  /\ ~MayBind(Rec(p), Family(p), wrun[p])
  /\ opLock' = FreeLock
  /\ Step(p, "failing")
  /\ UNCHANGED <<journalVars, fileVars, procVars, wrun, forked, ret, launched, crashes>>

(* The executor is started for the bound RUN. *)
Launch(p) ==
  /\ wk[p] = "bound"
  /\ launched' = [launched EXCEPT ![d(p)] = @ + 1]
  /\ Step(p, "executing")
  /\ UNCHANGED <<journalVars, opLock, fileVars, procVars, wrun, forked, ret, crashes>>

(* An error of the admitted RUN, up to a RESULT that could not be written or
   pushed: operator.lock is released first, the FAILURE is considered after. *)
RunFails(p) ==
  /\ wk[p] \in {"reserved", "bound", "executing", "writing", "transport"}
  /\ opLock' = FreeLock
  /\ Step(p, "failing")
  /\ UNCHANGED <<journalVars, fileVars, procVars, wrun, forked, ret, launched, crashes>>

(* The RESULT file appears under its final name before it has content. *)
OpenResult(p) ==
  /\ wk[p] = "executing"
  /\ results[wrun[p]] = "absent" /\ failures[wrun[p]] = "absent"
  /\ results' = [results EXCEPT ![wrun[p]] = "torn"]
  /\ Step(p, "writing")
  /\ UNCHANGED <<journalVars, opLock, runs, failures, procVars, wrun, forked, ret, launched, crashes>>

WriteResult(p) ==
  /\ wk[p] = "writing"
  /\ results' = [results EXCEPT ![wrun[p]] = "whole"]
  /\ Step(p, "transport")
  /\ UNCHANGED <<journalVars, opLock, runs, failures, procVars, wrun, forked, ret, launched, crashes>>

(* The RESULT is pushed for review and the RUN returns its summary. *)
Transported(p) ==
  /\ wk[p] = "transport"
  /\ opLock' = FreeLock
  /\ Return(p, "ok")
  /\ UNCHANGED <<journalVars, fileVars, procVars, wrun, forked, launched, crashes>>

MutOpenFailure(p) ==
  /\ wk[p] = "failing"
  /\ failures' = [failures EXCEPT ![wrun[p]] = "torn"]
  /\ Step(p, "recording")
  /\ UNCHANGED <<journalVars, opLock, runs, results, procVars, wrun, forked, ret, launched, crashes>>

(* persist_failure: exclusive create, and never beside a RESULT, so a RUN
   whose transport failed keeps its RESULT and gets no FAILURE. *)
OpenFailure(p) ==
  /\ wk[p] = "failing"
  /\ ~Exists(results[wrun[p]]) /\ ~Exists(failures[wrun[p]])
  /\ failures' = [failures EXCEPT ![wrun[p]] = "torn"]
  /\ Step(p, "recording")
  /\ UNCHANGED <<journalVars, opLock, runs, results, procVars, wrun, forked, ret, launched, crashes>>

(* The error goes on to the caller, the FAILURE complete or, when there is a
   RESULT or recording failed (it is best effort), absent. *)
FailureReturns(p) ==
  /\ wk[p] \in {"recording", "failing"}
  /\ failures' = IF wk[p] = "recording"
                 THEN [failures EXCEPT ![wrun[p]] = "whole"] ELSE failures
  /\ \E how \in {"error", "raise"} : Return(p, how)
  /\ UNCHANGED <<journalVars, opLock, runs, results, procVars, wrun, forked, launched, crashes>>

-----------------------------------------------------------------------------
(* Process death.  The locks of the dead process are free at once. *)

MutUnlocked(lock, p) == lock
Unlocked(lock, p) == [x \in DOMAIN lock |-> IF lock[x] = p THEN NoProc ELSE lock[x]]

(* The delivering process dies, and with it an invocation that runs inside
   it; a restarted child lives on. *)
Crash(p) ==
  /\ crashes < MaxCrashes
  /\ pc[p] \notin {"idle", "done", "dead"}
  /\ crashes' = crashes + 1
  /\ Goto(p, "dead")
  /\ journalLock' = Unlocked(journalLock, p)
  /\ activeLock' = Unlocked(activeLock, p)
  /\ opLock' = IF opLock = ProbeHolds(p) \/ (opLock = RunHolds(p) /\ ~forked[p])
               THEN FreeLock ELSE opLock
  /\ wk' = [wk EXCEPT ![p] = IF wk[p] # "none" /\ ~forked[p] THEN "dead" ELSE @]
  /\ UNCHANGED <<journal, fileVars, req, seen, out, wrun, forked, ret, launched>>

(* The restarted child dies: its parent sees a nonzero exit code, or a
   negative one, which the finalization rejects. *)
ChildCrash(p) ==
  /\ crashes < MaxCrashes
  /\ forked[p] /\ wk[p] \notin {"returned", "dead"}
  /\ crashes' = crashes + 1
  /\ opLock' = IF opLock = RunHolds(p) THEN FreeLock ELSE opLock
  /\ \E how \in {"error", "raise"} : Return(p, how)
  /\ UNCHANGED <<journalVars, fileVars, procVars, wrun, forked, launched>>

-----------------------------------------------------------------------------
(* Specification *)

DeliveryStep(p) ==
  \/ Deliver(p) \/ Refuse(p) \/ Replay(p) \/ BeginReconcile(p) \/ Authorize(p)
  \/ Probe(p) \/ ProbeEnd(p) \/ Write(p) \/ BeginFinalize(p) \/ Raise(p)
  \/ ReleaseActive(p) \/ Inspect(p) \/ InspectEnd(p)

WorkStep(p) ==
  \/ LockRefused(p) \/ TakeLock(p) \/ Preflighted(p) \/ AdmissionRejected(p)
  \/ ReserveRun(p) \/ BindRun(p) \/ BindRejected(p) \/ Launch(p) \/ RunFails(p)
  \/ OpenResult(p) \/ WriteResult(p) \/ Transported(p)
  \/ OpenFailure(p) \/ FailureReturns(p)

Next == \E p \in Procs : DeliveryStep(p) \/ WorkStep(p) \/ Crash(p) \/ ChildCrash(p)

Spec == Init /\ [][Next]_vars

(* A process that can run is run, and what it waits for returns: the
   executor has a watchdog, the git calls are assumed to end.  Nobody has
   to deliver or to die. *)
Fairness ==
  \A p \in Procs : WF_vars(DeliveryStep(p) /\ pc[p] # "idle") /\ WF_vars(WorkStep(p))

FairSpec == Spec /\ Fairness
-----------------------------------------------------------------------------
(* Properties *)

PCs == {"idle", "deliver", "probe", "probing", "write", "invoked", "release",
        "inspected", "done", "dead"}
WKs == {"none", "preflight", "syncing", "admit", "admitting", "reserved", "bound",
        "executing", "writing", "transport", "failing", "recording", "returned", "dead"}
Outs == {"none", "REFUSED", "COLLISION", "RAISED", "STATUS"} \cup Terminal \cup Nonterminal

(* Every variable has its type. *)
TypeOK ==
  /\ journal \in [Dispatches -> Record \cup {NoRecord}]
  /\ journalLock \in [Families -> Procs \cup {NoProc}]
  /\ activeLock \in [Dispatches -> Procs \cup {NoProc}]
  /\ opLock \in [role: {"free", "run", "probe"}, proc: Procs \cup {NoProc}]
  /\ runs \in [RunIds -> Bindings \cup {NoBinding}]
  /\ results \in [RunIds -> FileState] /\ failures \in [RunIds -> FileState]
  /\ req \in [Procs -> [dispatch: Dispatches, binding: Bindings]]
  /\ pc \in [Procs -> PCs] /\ out \in [Procs -> Outs]
  /\ seen \in [Procs -> Observation]
  /\ wk \in [Procs -> WKs] /\ wrun \in [Procs -> RunIds \cup {NoRun}]
  /\ forked \in [Procs -> BOOLEAN]
  /\ ret \in [Procs -> {"none", "ok", "error", "raise"}]
  /\ launched \in [Dispatches -> Nat] /\ crashes \in Nat

(* At-most-once: however often an id is delivered, retried or reconciled
   after a crash, its executor is started at most one time. *)
AtMostOneLaunch == \A x \in Dispatches : launched[x] <= 1

AtWork(p) == wk[p] \in {"bound", "executing", "writing", "transport"}

(* Ownership before execution: from the moment a RUN may reach the executor
   until its RESULT is out, the durable record names exactly that RUN. *)
OwnedBeforeLaunch == \A p \in Procs : AtWork(p) => Rec(p) # NoRecord /\ Rec(p).run = wrun[p]

(* No two dispatches ever own the same RUN, across the three journals. *)
RunHasOneOwner ==
  \A x, y \in Dispatches :
    /\ x # y /\ journal[x] # NoRecord /\ journal[y] # NoRecord
    /\ journal[x].run # NoRun
    => journal[x].run # journal[y].run

(* A recorded success stands on a RESULT of the RUN it names, and on no
   FAILURE, whoever wrote the record and after whichever crash. *)
SuccessHasResult ==
  \A x \in Dispatches :
    journal[x] # NoRecord /\ journal[x].status = "SUCCEEDED" =>
      /\ journal[x].run # NoRun
      /\ Exists(results[journal[x].run]) /\ ~Exists(failures[journal[x].run])

(* A verdict is never given while the executor of that dispatch can still
   run: a live restarted child is not judged over the head of its parent. *)
NoVerdictWhileRunning ==
  \A p \in Procs :
    wk[p] \in {"bound", "executing"} => Rec(p).status \notin Terminal

(* What a delivery reported as final is what the journal holds for ever
   after, for the invoking delivery and for every replay. *)
ReportedVerdictIsDurable ==
  \A p \in Procs : out[p] \in Terminal => Rec(p) # NoRecord /\ Rec(p).status = out[p]

(* A RUN ends in a RESULT or in a FAILURE, never in both. *)
OneTerminalArtifact ==
  \A r \in RunIds : ~(Exists(results[r]) /\ Exists(failures[r]))

(* A journal record never loses its binding, its RUN or its verdict. *)
RecordOnlyGrows ==
  [][\A x \in Dispatches :
       journal[x] # NoRecord =>
         /\ journal'[x] # NoRecord
         /\ journal'[x].binding = journal[x].binding
         /\ journal[x].run # NoRun => journal'[x].run = journal[x].run
         /\ journal[x].status \in Terminal => journal'[x] = journal[x]]_vars

Unattributed(x) ==
  /\ journal[x] # NoRecord
  /\ journal[x].run = NoRun /\ journal[x].status # "STARTED"

(* "no execution was attempted": once an open record without a RUN was
   reconciled, that dispatch never gets a RUN or an executor any more,
   although the invocation it gave up may still be alive in a child. *)
UnattributedNeverRuns ==
  [][\A x \in Dispatches :
       Unattributed(x) => Unattributed(x)' /\ launched'[x] = launched[x]]_vars

(* Every delivery is answered or dies: the blocking journal locks, the
   probes and the operator.lock never leave a process waiting for ever. *)
EveryDeliveryEnds ==
  \A p \in Procs : pc[p] = "deliver" ~> pc[p] \in {"done", "dead"}

(* Every lock is free again in the end, crash or not. *)
LocksComeFree ==
  /\ [](opLock # FreeLock => <>(opLock = FreeLock))
  /\ \A x \in Dispatches : [](activeLock[x] # NoProc => <>(activeLock[x] = NoProc))

-----------------------------------------------------------------------------
(* The abstract promise, and the journal as one way to keep it. *)

Abandoned(x) == Unattributed(x) /\ journal[x].status \notin Terminal

phaseOf == [x \in Dispatches |-> IF journal[x] = NoRecord THEN "new"
                                 ELSE IF Abandoned(x) THEN "abandoned" ELSE "authorized"]
ownerOf == [x \in Dispatches |-> IF journal[x] = NoRecord THEN NoRun ELSE journal[x].run]
verdictOf == [x \in Dispatches |->
                IF journal[x] # NoRecord /\ journal[x].status \in Terminal
                THEN journal[x].status ELSE "open"]

OneShot == INSTANCE OneShotExecution
             WITH Ids <- Dispatches, Runs <- RunIds, phase <- phaseOf,
                  owner <- ownerOf, starts <- launched, verdict <- verdictOf

(* The journals, with their locks, crashes, restarts and replays, execute
   every dispatch as OneShotExecution says. *)
ImplementsOneShot == OneShot!Spec
=============================================================================
