# A verification development for AIOS-renew

AIOS-renew is the control plane of an autonomous software workshop.  A TASK
revision lies on the published `main`; a *dispatch* invokes one RUN of it; the
RUN's executor produces a candidate commit and evidence; the RUN's terminal
(RESULT or FAILURE) is transported to create-only refs of a shared Git remote; a
review decides on it there; a candidate with a PASS is published by a
fast-forward of `main`.  There is no server and no database.  What keeps the
system correct are exclusive file creation, `flock`, create-only and leased Git
pushes, and the order in which a great many processes use them.

This directory models that core in TLA+, checks it on small instances with TLC
and proves its main properties for every instance with TLAPS.  All paths below
are relative to `src/src/aios_renew/` unless they say otherwise; `PROJECT.json`
maps every definition to the lines it models.

    cd tla
    tlc -workers 2 -config DispatchFamilies.cfg MCDispatch   # one run
    tlapm DispatchProofs.tla                                 # one proof module

## 1. Inventory

| Component | State it keeps | Operations | Interacts with |
|---|---|---|---|
| Dispatch journals (`dispatch_reconciliation.py`, `repair_dispatch.py`, `correction_dispatch.py`) | one record per dispatch id and family, a journal lock per family, an active lock per id | execute, replay, inspect, bind, reconcile, finalize | starts RUNs through the operator; reads their terminals and probes `operator.lock` |
| Operator (`operator.py`) | `operator.lock`, RUN records, local terminals, migration records | admit, reserve a RUN number, restart after a kernel change, launch, record failure, retry transport, recover, migrate, synchronise | calls Runtime, transport, publication |
| Runtime (`runtime.py`) | the evidence store of a RUN: captures, checkpoints, feedback, terminal intent, RESULT, FAILURE, the mutation fence | seal, prepare feedback, complete, persist failure | several owners, threads or processes, of one RUN |
| Review transport (`review_transport.py`) | terminal and candidate refs on the remote | transport, retry, recover a conflicting RUN, list used RUN numbers | other checkouts, through the remote only |
| Terminal attention (`terminal_attention.py`) | one signal ref per terminal | publish a signal | last phase of a transport; starts a workflow |
| Publication (`publication.py`) | `main`, the publication reservation | publish a decision, reserve, check, release, settle | every writer of `main` |
| Authoring ingress (`authoring_ingress.py`) | review decisions, TASK commits, remediation and repair artifacts | SUBMIT_REVIEW, AUTHOR_TASK, AUTHOR_REMEDIATION, AUTHOR_REPAIR | reservation, `main` |
| Correction integration (`correction_integration.py`) | integration and publication sources | integrate two corrections, make a publication source | reservation |
| RUN leases (`run.py`, `dispatcher.py`) | a registry of executor leases, made for each RUN | acquire once; the program never releases one | guard of every budgeted step |
| Correction frontier (`correction_frontier.py`, `unified_state.py`) | none (derived from refs) | derive what remains to be corrected, select the tip and the authority to execute on it | authors, checkouts and the Publisher, all through the remote refs |
| Wake-ups (`local_chat_wake.py`) | per lane: a lock file, a state file, an inbox directory | deliver, recover, drain, rebind | processes of one machine, the page of a chat |
| Control checkout (`operator.py`) | the branch `main` of a checkout, its worktree | synchronise: fast-forward, or prove and reset; reconcile on a Human's word | every RUN that works in it, `operator.lock`, the remote refs, humans who edit |
| Migration (`operator.py`) | handoff records, profile-local storage, a control clone | stage, enter, supersede, complete | ordinary PRIMARYs of the same repository |
| Admission budgets (`ka01_admission.py`, `runtime.py`) | reserved and spent counts, minutes, a STOP latch, the native session | reserve, prove, refute, correct, settle, complete, close | Runtime, native sessions |
| State reduction, carriers, executors, verification, artifacts, providers, research, origin proofs, consultation | none that outlives a call, or external programs | see `PROJECT.json` "components" | |

Where it is hard:

* **Interleaving.**  Deliveries of one dispatch, owners of one RUN, checkouts
  under one RUN number and writers of `main` run concurrently.  Every decision
  is made on a look that may be stale when the effect happens.
* **Crashes.**  A process dies anywhere; the operating system frees its locks,
  files and refs stay, and some files stay torn.  A restarted child can outlive
  the parent that holds the locks.
* **Lost answers.**  A push may have landed although its caller saw an error; a
  retry must recognise its own effect and nobody else's.
* **Expiry.**  The publication reservation has a lifetime and no takeover.

What makes each component correct:

* *dispatch*: an id is executed at most once and never judged while its executor
  may run; a verdict that was reported stands.
* *Runtime*: one terminal outcome, on the last proof; nothing changes behind an
  abandoned fence or after a terminal.
* *transport*: a terminal is published whole and never replaced; Brain is
  signalled once, for the first terminal.
* *publication*: `main` is one line that moves forward under a reservation and
  strands no publishable PASS; a TASK revision lands once; a recovery verifies
  once.
* *chat wake*: a doorbell is clicked once at most, and no attention that was
  taken in is lost.
* *control checkout*: a PRIMARY builds on what is published; no commit is dropped
  that the remote does not keep.
* *migration*: the history on disk is readable after every step, and a
  generation is left by one RUN.
* *budget*: work is charged once, no correction is asked for that could not be
  accepted, nothing is judged while an effect is unknown, and a RUN ends.
* *correction*: what a lineage leaves open is what its reviews raised and did not
  close, whoever derives it; a published correction leaves nothing open; no batch
  is executed on its own result.

## 2. Modules

| Module | Models | Abstract promise | Instances | Proofs |
|---|---|---|---|---|
| `DispatchJournal` | the three journals and the RUNs they start | `OneShotExecution` | `MCDispatch` | `DispatchProofs` |
| `RunTerminal` | the evidence store of one RUN | `ProofLedger` | `MCRunTerminal` | `RunTerminalProofs` |
| `ReviewTransport` | terminals on the remote, several checkouts | `TerminalRegistry` | `MCReviewTransport` | `ReviewTransportProofs` |
| `PublicationGate` | the reservation and all writers of `main` | `MainLine` | `MCPublicationGate` | `PublicationProofs` |
| `ChatWake` | the passes of one lane of the local chat wake | `Doorbell` | `MCChatWake` | `ChatWakeProofs` |
| `MigrationHandoff` | handoffs between two installed generations | `Succession` | `MCMigration` | `MigrationProofs` |
| `SessionBudget` | the budgeted interactive execution of one RUN | `CorrectionDialogue` | `MCSessionBudget` | `SessionProofs` |
| `CorrectionLineage` | the corrections of one TASK, from review to publication | (`Left`, below) | `MCCorrectionLineage` | `CorrectionProofs` |
| `CheckoutSync` | the control checkout: its synchronisation, and the RUNs that work in it | | `MCCheckoutSync` | `DispatchProofs`, second part |

Each detailed module but the last two instantiates its abstract one with a
refinement mapping, and the refinement is a property that is checked and proved. 
A definition named `Mut...` is a plausible slip in the definition after it.  No
behaviour uses it; substituted for that definition it breaks a property, which
shows that the property looks at the code it is about.

### 2.1 DispatchJournal

*State.*  `journal` are the records (binding, status, RUN, and for CORRECTION
the RUNs that existed before); `journalLock` and `activeLock` are the two locks;
`opLock` is `operator.lock`, with the role of its holder, because a probe *takes*
the lock (`_lock_is_held`).  `results` and `failures` are absent, torn or whole:
a file appears under its name before it is filled.  `pc` is where a delivering
process is, `wk` where the invocation it started is; `forked` says that the
invocation moved to a restarted child, which then outlives its parent.

*Actions.*  One per step between two points where another process can be seen:
`Deliver Refuse Replay BeginReconcile Authorize Probe ProbeEnd Write
BeginFinalize Raise ReleaseActive Inspect InspectEnd` are the delivery (all
under the journal lock the code holds), `LockRefused TakeLock Preflighted
AdmissionRejected ReserveRun BindRun BindRejected Launch RunFails OpenResult
WriteResult Transported OpenFailure FailureReturns` the invocation, `Crash` and
`ChildCrash` the deaths.  The verdict functions (`TerminalObservation`,
`Reconcile`, `FinalizeByExit`, `FinalizeByArtifacts`) are translated case by
case; the three families differ in them and in `MayBind`.

*Abstractions.*  A request binding is a model value, so parsing and
authenticating selectors is the choice between `Deliver` and `Refuse`.  An
executor is an interval.  Batch approvals are left out.

### 2.2 RunTerminal

*State.*  `fence` is the `.runtime-mutation` directory: absent, of a live owner,
or left behind.  `captures`, `seals`, `feedback`, `intent`, `result`, `failure`
are the files of the store.  `view` are the checkpoints an owner saw before it
took the fence, `keep` whether its fence outlives a failing effect.

*Actions.*  An operation is a look without protection (`BeginSeal`,
`BeginFeedback`, `BeginComplete`, `BeginLegacy`, `BeginFail`), the directory and
the fence (`MakeStore`, `Enter`), the look under the fence (`Recheck`), and the
writes, each in two steps (`Open...`, `Fill...`).  `Break`, `BreakFailure` and
`Die` are faults at any of these points.

*Abstractions.*  A checkpoint is its candidate and its verdict.  Capture and
package validation is `Break`.  The budgeted interactive path, with the receipts
of feedback, has a single owner and is `SessionBudget`.

### 2.3 ReviewTransport

*State.*  `record` are the RUN records and terminals of every checkout,
`candidate` and `artifacts` the refs of the remote, `signals` the attention refs.
A commit of artifacts is identified by the process that made it.  `surface`
says whether the published `main` carries the attention workflow.

*Actions.*  `Admit`, `Recover`, `Succeed`, `Fail`, `RetryTransport` start and end
RUNs; `Query` looks and decides which refs are missing; `Push` is one atomic
push, which lands, is refused, or lands with its answer lost; `Attend` and
`SignalTerminal` are the attention; `Stop` is a fault anywhere; `UpgradeMain` is
another checkout's roll-out of the carrier.

*Abstractions.*  Looking for the next RUN number and writing the RUN record are
one step: the record is local, under `operator.lock`, and the RUN number can be
taken on the remote before or after the step alike.  The content comparison of
fetched artifacts is a comparison of the checkouts they come from: two checkouts
never produce equal files, since each names its own worktree and times.
Admission-failure refs and the recovery refs of a publication source are left
out.

### 2.4 PublicationGate

*State.*  A commit is the set of the changes in its history, so ancestry is
inclusion and a fast-forward is growth.  `tip` is the reservation ref; a job
keeps what it read (`base`, `known`) and its own reservation (`token`), which is
the record of what it wants: subject, source, base, decision and the time.
`admitted`, `source`, `result` are the durable stages of a publication recovery.

*Actions.*  `Begin...` is the reading part of an invocation; `Reserve`,
`Recheck`, `Check`, `Release`, `Settle` are the reservation protocol that all
jobs share; `Confirm`, `Decide`, `Push`, `Admit`, `Source`, `Verify`, `Record`,
`Transport` are the steps that write.  `Stop` is a failure anywhere: it leaves
the reservation behind, as every error path of the code does.  `Clear` is the
human who deletes a stale reservation.

*Assumptions and abstractions.*  Clocks agree.  A human deletes only a stale
reservation under which no job is alive: the program cannot check it, and
without it two owners would hold one ref.  Nobody pushes to `main` by hand.  The
concurrency group of the Publisher workflow is not assumed; any number of
Publishers run.  Each submission makes a decision commit of its own.  The checks
of scope, mode, overlap and lifecycle, and the validation of the reviewed
lineage, read immutable objects and only add refusals, which `Stop` covers.  The
local mode without a remote and the local ref of an ingress checkout are left
out.

### 2.5 ChatWake

*State.*  `lock`, `pending`, `disk` and `inbox` are the files of a lane: the
O_EXCL lock, the temporary file of an unfinished replacement, the state file (a
status and a binding generation for each event, tombstones, bindings) and the
inbox directory.  `data`, `todo`, `cur`, `attempted` are what the holder of the
lock has in memory.  `turns` are the messages that stand in the chats, `rung`
and `admitted` are history: clicks, and intakes that finished.

*Actions.*  `Start Enter Locked Offer Fill` are the call, the lock and the
intake; `Recover RememberBinding ConsumeInbox Unlink Queued` bring inbox and
state file together; `ResolveHeld ProveHeld Rewrite` settle events whose click
is unknown; `Pick Finish Stage BeforeClick Click Settle` ring one event;
`Compact` makes tombstones and `Leave` frees the lane.  Every write of the state
file can fail in each way the code's replacement can: nothing written, a
`.pending` file left, or written and reported as failed.  `Die`, `Reconcile`
(the human removes what a dead process left) and `Rebind` are the environment.

*Abstractions.*  A message is the identity of its event.  The page is seen or
not; what it shows is true.  The browser's barrier is a refusal before the
click.  Lanes share no state, so one lane is modelled.

### 2.6 MigrationHandoff

*State.*  `marker`, `consumed`, `completed`, `predecessor`, `superseded` are the
record files of the handoffs, each an intent by its fingerprint; `transport`,
`owner` and `control` are the storage that a staging makes and removes again;
`installed` is the generation that is installed, `head` the downstream checkout,
`runs` the RUN records with the handoff that reserved them; `repo` and `held`
are `operator.lock` and the locks of the edges.

*Actions.*  `StageStart`, `RecoverStart`, `AcceptStart`, `PrimaryStart` are the
gates before any lock; `TakeRepo MakeStorage OwnStorage CloneControl Allocate
Bind Publish` stage an edge, `Announce MarkNew Supersede` replace one that was
consumed without a RUN, `Consume Look MoveControl Admit WriteRun EndRun
Complete` enter the target.  `Fail` is a refusal with the clean-up of the code,
`Die` a death, `Reconcile` the verdict on an abandoned RUN; `Install` and `Pull`
are the human.  `Readable` is `_migration_history`, condition by condition.

*Assumptions and abstractions.*  An intent is a model value with its source,
target, version and control commit.  Nothing is installed while a process of the
old generation works.  `OneUpgrade` and `NoSecondRebind` state what the reviewed
releases keep to; the run `migration_conflict` drops the first.  The bootstraps
of a source REPAIR and of a successor are left out; what a synchronisation does
to a checkout is `CheckoutSync`.

### 2.7 SessionBudget

*State.*  `at` is the place of the owner in the guarded step `op`; `mem` and
`book` are the reserved and spent counts in memory and in the records on disk;
`pending` is an operation whose reservation is open, `interval` its minutes,
`spent` the minutes charged and `mark` the time up to which they are.  `sealed`
are the checkpoints with verdict, feedback and receipt; `intent`, `result`,
`failure`, `fence`, `note` the files of the RUN; `session` and `stopped` the
native session and the STOP latch.  `worked` is history: minutes in guarded
steps, charged or not.

*Actions.*  `Reserve Spawn Turn Bind` are the native call; `Enter Open Prove
Accept Ask Promise Publish Know Settle Release` the effects, each between its
guard and its settlement; `Raise` is an exception, an interrupt or a refused
guard anywhere, `Refuse` and `Judge` what follows from it, `Send` and `Close`
the end; `Die`, `Drift` (the session commits when it should not) and `Tick` are
the world.  `Capacity` and `Fits` are the checks of the code.

*Abstractions.*  A commit is its position on the line of the RUN; minutes are
whole.  The turn, the proof, the spawn and the transport are external and may
take any time the clamped clock leaves.  The bound of 256 accounting records and
the non-interactive production mode are left out; a lost lease or changed
authority is an exception that may come anywhere.

### 2.8 CorrectionLineage

*State.*  `run` are the terminals on the remote: what each RUN continues, the
source RUN and the findings it corrects, and `line`, the RUNs whose changes its
candidate contains.  `review`, `granted`, `repairs` are the refs of decisions,
remediation and repair authorities; `proposed` are authorities between their last
recheck and their push.  A checkout has the `plan` it resolved, the `number` it
reserved for it, RUNs it `kept` because their push was lost, and the failed RUNs
it `accepted` for a REPAIR.  Nothing holds the frontier: it is derived.

*Operators.*  `Advance` is one step of `CorrectionFrontier.advance`, single or
batch.  `FrontierAt` is the reducer's fold along the operational parents, which
passes over a RUN without a review; `WalkAt` is the Publisher's along the
execution bases, which does not; `PublisherFrontier` goes over to the reducer's
at a batch.  `Left` is the reference: what the reviews of the history raised,
less what they closed, as sets and in no order.

*Actions.*  `Propose Grant GrantRepair` author; `Resolve Reserve Refuse Repair
Finish FinishUndelivered RetryTransport` execute; `SubmitReview` and `Publish`
judge and publish.  `Resolve` is before `operator.lock` and `Reserve` under it:
a batch is resolved again there, a single finding is not.

*Abstractions.*  A finding is its id and the RUN that raised it; every finding is
a CODE_FIX.  Within one TASK `main` moves only to candidates of the lineage, so
integration bases, and the predecessor records of older releases, are left out,
and so are the supersession of a repair authority and a REPAIR of a failure that
was not delivered.  The publication reservation is in `PublicationGate`; here a
publication is one step.

### 2.9 CheckoutSync

*State.*  A commit is the set of the changes in its history.  `main` is the
published one, `head` and `dirty` the checkout's; `terminal` are the RUNs, where
each started, what it corrects, how it ended and whether it is delivered;
`decided`, `passed` the reviews and `repaired` the FAILUREs whose REPAIR this
checkout accepted.  `at` and `job` are where an operator process is and what it
read: the local commit and the target, the RUNs its proof rests on, the refs it
compared, and whether it was restarted or has to restart.

*Actions.*  `Enter` and `Reenter` take `operator.lock`; `Observe`, `Fetch`,
`Forward` are the fast-forward; `Prove` looks for delivered terminals that keep
the local history (one reviewed RESULT, or FAILUREs as a group or as a closed
chain of REPAIRs), `Recheck` (twice), `Last` and `Reset` are the looks before the
reset and the reset; `Synced` gives the lock back and goes on, restarts or lets a
continue delegate; `ReconcileMain` is the Human's command.  `Admit` and `Correct`
start a RUN in the checkout, `Commit Complete Fail RecordFailure` are what it
does there.  `Die` is a death; `DeliverTerminal Review Publish Post Elsewhere`
move the remote, `Stray Edit Tidy` are humans in the checkout.

*Assumptions and abstractions.*  A human neither commits nor edits between the
last look of the program at what is concerned and the reset: the program cannot
exclude it.  Scope, mode and content of candidates are abstracted, and so are
the checks of a proof that read immutable objects.  The synchronisation inside
`run_task` (`synchronize=True`) is used by no command and left out.

## 3. What the runs check

| Run | Instance | What it shows |
|---|---|---|
| `dispatch_families` | a PRIMARY, a REPAIR and a CORRECTION id, two bindings, two processes, three RUN numbers one of which is reserved remotely, two deaths | three journals share `operator.lock` and the RUN numbers and no RUN has two terminals; no verdict while running; refinement of `OneShotExecution`: launched once, owned before, judged once |
| `dispatch_live` | three deliveries of one PRIMARY id, one death | every delivery is answered or dies; all locks come free |
| `run_terminal` | the RUN's own process and two checkpoint owners, two candidates, two packages, two checkpoints, one fault | proofs run once, a RESULT is on the last one, a reported completion stands, abandoned fences freeze the store; refinement of `ProofLedger`: one terminal, nothing after it |
| `transport_race` | two checkouts, one with two processes, two RUN numbers of which the second is a recovery, one fault, carrier rolled out or not | what a process was told is canonical; the first terminal is signalled; a conflict arises and is recovered under the next number while both go on retrying; refinement of `TerminalRegistry`: whole, write-once terminals |
| `publication` | four jobs that submit, replay, publish, recover and author; two legacy PASSes that diverge and a third RUN, one TASK, one expiry | owned moves and PASSes, no stranded PASS, TASK once; one admission, one verification and one source of a recovery over all deliveries; refinement of `MainLine` |
| `chat_queue` | passes one after another, three events, two generations, a table of two records, one tombstone, one fault | a click happens under its record and in the chat it names; refinement of `Doorbell`: one click at most, and nothing that is held is made ready again |
| `chat_passes` | two overlapping passes, two events, a table of one record, one fault | no intake is lost while others empty the inbox; every pass ends |
| `migration` | two processes, a legacy handoff, one that is superseded, its replacement and an upgrade behind them, two RUN numbers, two deaths | the history stays readable; one RUN leaves a generation; ordinary PRIMARYs are barred; a refusal cleans up; refinement of `Succession` |
| `migration_conflict` (violated) | two processes, two upgrades of one generation, no fault | the finding of section 4 |
| `session_budget` | three checkpoints, two corrections, five minutes of which three for proofs, four commits | accounts balance and cover the effects; corrections have room; nothing unknown is judged; the RUN ends; refinement of `CorrectionDialogue`: a RESULT is earned |
| `lineage` | two checkouts, three RUNs of which the first is a PRIMARY, reviews that raise a pair of findings or a third one, two authorings at once, one lost push | reducer and reference agree on the frontier of every lineage; a published correction leaves nothing open; no batch on its own result |
| `checkout_sync` | two processes, two RUNs, a TASK authored on `main`, a human's commit, one death | a PRIMARY is built on published commits only; nothing leaves the checkout that the remote does not keep |

The types of each module (`TypeOK`), and properties that say less than another
property of the same run or than its refinement, are proved for all instances
(section 5) and are not checked again here.

*Bounds.*  Every bound is a constant: `MaxCrashes`, `MaxFaults`, `MaxCheckpoints`,
`MaxClock`, `MaxEvents`, `MaxTombstones`, `Wall`, `Verify`, `Tip`, and the sizes
of the sets.  Three processes, in `dispatch_live`, are an owner, a replay and a
reconciler of one dispatch at the same time; two deaths let the parent and its
restarted child both die.  One fault in the stores lets every file be torn once; a
second one adds nothing, since the fence it leaves closes the store.  Two
checkpoints have a current one and one that is not; the code's bound is 17.  Two
RUN numbers are a conflict and its recovery; the constraint `SecondIsRecovery` of
`transport_race` follows the second number only as a recovery, with one process in
each checkout and no fault.  With four publication jobs a submit, a Publisher, an
author and one more of either kind overlap; `Life = 1` and `MaxClock = 1` let a
reservation be fresh, expire, be cleared, and be taken anew.  A lane with fewer
records than events is full while an event waits, and one tombstone of two is a
compaction that is refused.  The four intents of `migration` are one of each kind,
chained; two deaths interrupt a staging and its repetition.  The three checkpoints
and two corrections of `session_budget` are the program's defaults, and its
minutes let each limit be met first.  Three RUNs in `lineage` are a PRIMARY, a
batch and a single correction or a REPAIR behind it, or two RUNs that compete;
with four the states are too many for a run; an unfinished search of two million
of them found nothing.  The proofs of section 5 remove all of these bounds for the
safety properties.

*Symmetry.*  Processes are permuted in `dispatch_families`; checkpoint owners
other than `Main`, candidates and packages in `run_terminal`; the two processes of
one checkout in `transport_race`; jobs and the two legacy RUNs in `publication`;
passes and events in `chat_queue`; processes and RUN numbers in the migration runs; the two findings of
a pair and the checkouts in `lineage`; processes and RUNs in `checkout_sync`.  No
checked formula tells the permuted values apart.  The runs with a liveness
property use no symmetry.

*Deadlock* is checked in `checkout_sync` only, where it says little, since humans
can always edit: in all of these systems everything may be done, and a process
that is refused ends.  The liveness properties replace that check where
processes wait for each other.

*Fairness* is assumed in three runs.  `dispatch_live`: weak fairness of each
process's delivery once it began, and of its invocation.  The operating system
runs a process that can run; executors have a process watchdog
(`antigravity_adapter.py:283`, `codex_adapter.py:158`); Git calls are assumed to
end.  Nothing forces a delivery to come or a process to die.  Weak fairness
suffices for the blocking journal locks because each family's lock is asked for
by finitely many deliveries, each of which ends.  `chat_passes`: weak fairness of
a pass that was started; the lane's lock never blocks, it refuses.
`session_budget`: weak fairness of the owner's own steps and of the clock.  The
turn, the proof, the spawn and the transport are external and are not assumed to
come: the code clamps each wait to what is left of the wall time, and that is
why the clock suffices.

## 4. Findings

1. **Two upgrades at once make the history unreadable** (`migration_conflict`,
   `HistoryReadable`).  The gate that no other handoff is active is evaluated
   before `operator.lock` is taken (`operator.py:7090`), and for an upgrade it is
   not evaluated again under it.  Two intents for the same source that are
   staged at once both publish, and `_migration_history` refuses every later
   operation as ambiguous.  `docs/AIOS-BRAIN-PORTABILITY.md:645` says that
   conflicting migration state fails before a durable edge.

What else was seen while the code was modelled.  None of these contradicts a
property above, and the models contain each of them:

* A RESULT appears under its final name before it has content
  (`runtime.py:2698`), and a dispatch whose RUN died just then is reconciled to
  SUCCEEDED on its existence (`dispatch_reconciliation.py:608`).
* Of two owners that seal the same checkpoint, the one that looked first and
  takes the fence second raises inside its effect and leaves the fence, although
  nothing failed.
* The replay of a review decides on a `main` it read before
  (`authoring_ingress.py:1737`); when its PASS is published in between, it takes
  a fresh reservation for the old `main` and leaves it.
* The reservation of a recovery is identical to that of the PASS it recovers, so
  a Publisher's divergent path (`publication.py:3039`) can delete it under the
  recovery, whose source is then pushed without one.
* A second source bootstrap over a replacement would make the history of a
  migration unreadable; `NoSecondRebind` excludes it.
* A RUN of the same identity that was made before a handoff is taken for its RUN.
* The Publisher derives the frontier for a REMEDIATION and for a REPAIR of one
  with an integrated base, and not for the REPAIR of any other
  (`publication.py:1821`, `2169`): such a REPAIR is published with findings of
  its lineage open.  `docs/P3-DESIGN-NOTE.md:23` says that publication
  "independently proves semantic predecessor, cumulative base, candidate
  ancestry, and empty P3B frontier".  `PublishedIsClean` is stated of
  REMEDIATIONs for this reason.
* Two overlapping authorities, pushed by authors that both passed their recheck,
  both exist, and execution rejects each because of the other.
* A single authority is not checked for having been executed.  Two RUNs of it, one
  on the other, lead to a frontier that cannot be derived once both are reviewed;
  two checkouts that execute on the same tip compete and block the TASK.
* The Publisher needs a review of every base, the reducer passes over a base
  without one; such a lineage can be corrected on and not published.
* A batch review that is BLOCKED may raise findings, and no authority over them
  can be authored.
* An interrupt between the native return and the completion may record a FAILURE
  while the session is alive; the final close ends it.
* A RUN that fails gives `operator.lock` back before its FAILURE is recorded.
  Unless the failure is one of verification, the candidate is then HEAD as it is
  found (`runtime.py:2023`), which may hold the commits of another RUN that was
  started in between.
* A proof that errors inside its effect leaves the fence, so that no FAILURE can
  be recorded for the RUN either.

## 5. What is proved

All theorems are of the specification without fairness, for every value of the
constants that satisfies the named assumptions of the module: finite or infinite
sets of processes, RUNs and jobs, any number of faults.  The assumptions
mostly say that the null values are not ordinary values, that numbers are
numbers, and that names of different things differ.  Two say more, and state what
an admission validates: `IntentAssumption` of `MigrationHandoff` (source and
target of a handoff differ, a rebind keeps its source, base order agrees) and
`LimitAssumption` of `SessionBudget` (at least one checkpoint, and no more
minutes of verification than of wall time).

`DispatchProofs`.  Beside the types, the inductive invariant has fifteen parts:
whoever acts on a record has one (`Recorded`), an id is invoked by one process
(`OneInvocation`), starts are counted (`LaunchCount`), RUN numbers are admitted
before they are used and belong to one invocation (`Admitted`, `OwnRun`), files
follow the step of their invocation (`Files`, `ResultOfLaunch`), who holds which
lock while the record says what (`Locking`), what a judge has seen is still there
(`Observed`), and six of the properties.  It is needed because `AtMostOneLaunch`
alone is not inductive: one must know that a second delivery never comes to
invoke again, because the record exists; that a restarted child only binds a
record that is still STARTED and without a RUN; and that a reconciled record
never is that.

`RunTerminalProofs`.  The parts are the owner of the fence (`Fenced`, `Busy`),
what its store and its look say while it holds it (`Stored`, `Looked`,
`Chained`), where each effect is (`Sealing`, `Completing`, `Unsealed`,
`Resulting`, `Failing`), a RUN whose proof was spent (`Spent`), and three of the
properties themselves.  The argument: an effect is decided under the fence and
every file that it looks at is written under a fence only; a fence that was left
is never taken again.

`ReviewTransportProofs`.  The parts follow a process through its phases
(`Executing`, `Holding`, `Pushing`, `Attending`, `Signalling`), the order in
which terminals arrived (`Arriving`), and recovered RUNs (`Continuing`).  The
argument: the push is atomic, so refs of one terminal appear together; a
transport only adds what it found missing; and a signal is sent for a terminal
that was alone when it was looked at, hence came first.

`PublicationProofs`.  Facts about a job (`Working`, `Based`, `Reserved`,
`Known`) and about refs (`Decided`, `Lineage`), and locks (`Guarded`,
`Complete`, `Holding`, `Deciding`).  The heart is who can remove a reservation.
A submit's token names its own decision commit, so nobody else can hold or
settle it; a move's token is settled only when its source is in `main`, or by a
job whose base `main` has left behind; a human does not clear it while a job
lives.  So between the last check and the push the reservation is still there
(`Holding`), no other PASS can have been written under it (`Complete`), and the
PASSes known before are kept by the guard (`Guarded`).  The history properties
cite `SoleWriterAlways`: each ref, and each record of a recovery, is written by one
kind of step, so a step that changes it is known.  `NewTask` and
`OneRecovery` extend the invariant for the last two properties.

`ChatWakeProofs`.  The parts are who holds the lock (`Holding`), what a pass was
called for (`Calling`), what it relies on at each place (`Standing`), what holds of
a state file (`FileOK`, which has four of the properties), and that the holder's
copy is never behind the file (`Ahead`).  `FileOK` holds of the file *and* of the
holder's copy, because a write that raises may or may not have put the copy in
its place.  `AtMostOneRing` needs that the event was not clicked while the pass
stands before its click, and `Ahead` that no copy makes an event ready again.

`MigrationProofs`.  The parts are the work and the locks of a process (`Working`,
`Locking`, `Taking`), the files of supersessions (`Chained`, `Rebinding`), the
records as a line of generations (`Lineage`, `Behind`), the RUNs that handoffs
admitted (`Reserved`), and the storage and its clean-up (`Bound`, `Tidy`).  The
theorems about the history assume `Reviewed`, which is `OneUpgrade /\
NoSecondRebind`; `migration_conflict` shows what happens without the first.  The
hard step is a staging that passed its gate: between gate and publication other
processes stage, supersede and die.  What is published behind other records is an
upgrade, and there is only one; so no other handoff of its source can have come
in between.

`SessionProofs`.  The parts are where the owner can be and what it holds there
(`Placed`), counts that agree with checkpoints and receipts except under a pending
operation with its fence (`Counted`), the chain of candidates, feedback and
receipts (`Chained`), what each operation has before it and leaves behind
(`Conducted`), the RESULT (`Promised`), how a RUN is left (`Left`), and work that
is charged up to the mark (`Charged`).  `AccountsBalance` alone is not inductive:
that a step is charged once needs that `mark` moves with every charge and that no
place is guarded after its settlement.

The second part of `DispatchProofs` is about `CheckoutSync`.  A process at a
place under the lock holds it and executes an open RUN (`Sound`), no two execute
one (`Apart`), what is delivered has ended (`Ended`), and each place has what its
process relies on (`Fits`): behind the proof a delivered terminal whose candidate
is the local commit; before the reset HEAD is still that commit and the worktree
is clean; from the look at `main` on the target is published, at `synced` and
`admit` so are the RUNs in HEAD or in the commit named by the preflight.  The
argument has two halves: `main` only grows and a delivered terminal stays, so
what was published or kept at a look still is; and a process is spared by the
steps of the others, since the lock keeps them from HEAD while it relies on HEAD.

`CorrectionProofs`.  A terminal RUN is `Whole` when it continues a delivered RUN
and builds on delivered ones only and, as a batch, on none that executed the same
batch; `Recorded` and `Keeping` say so of the delivered and the kept ones,
`Planned` of what is being executed.  It is needed of kept RUNs because they are
delivered long after; the argument is that the line of a delivered RUN never
changes, and that a batch is resolved again when its number is reserved.
`Judging` adds what is reviewed, and that a blocked review has findings only
where each finding of a batch has its own outcome.

The frontier is a recursion over a lineage of any length.  RUN numbers are natural
numbers and a RUN builds on an earlier one; from the library's well-foundedness of
`<` follows that a set of RUN numbers has a least element (`NatLeast`), and with
it each statement is proved of the first RUN that could violate it.  `Recursion`
gives the function that a recursive definition chooses in the same way, without an
operator parameter: a function that satisfies the equation up to a number is
extended by one.  With that, `FrontierHolds` follows the fold case by case: a RUN
that starts a lineage leaves what its review raised, one without a review passes
on what its parent left, and one with a review closes what it corrected and adds
what is raised, each the same as in `Left`, which is a set without order. 
`ReadersAgree` shows that the Publisher's walk along the execution bases meets the
same frontier wherever it can be derived at all, and `PublicationIsClean` that a
REMEDIATION on `main` therefore left nothing open at the step that publishes it.

| Theorem (by module) | States |
|---|---|
| Dispatch: `LaunchedOnce OwnershipFirst OneOwner SuccessStands RunningUnjudged ReportStands OneArtifact RecordsOnlyGrow UnattributedStays JournalsAreOneShot` | every safety property of the dispatch runs, the refinement, and what holds beside them: launched once, owned before, a success has its RESULT, a reported verdict and a record stand |
| Run: `TerminalOnce ExecutedOnce RestsOnFinalSeal AnswerStands FeedbackRefutes FrozenBehindFence TerminalIsFinal StoreIsLedger` | every property of `run_terminal` and the refinement; one terminal, nothing after it, feedback on a refuted checkpoint |
| Transport: `TerminalsAreWhole ToldStands FirstIsSignalled RecoveryIsGrounded TransportsAreRegistry` | every property of the transport runs and the refinement; terminals are whole |
| Publication: `MovesAreOwned PassesAreOwned NoPassIsStranded TaskOnMainOnce RecoveryRunsOnce PublicationIsLine` | every property of `publication` and the refinement |
| Chat wake: `BellRingsOnce AttentionIsKept SubmittedStands RungStaysKnown CapacityHolds ClicksAreRecorded LaneIsDoorbell` | every safety property of the chat runs and the refinement; one click, a SUBMITTED event has its turn, what was clicked stays known, tables within their capacity |
| Migration: `ReadableAlways OneRunAlways BarredAlways VerdictAlways CleanAlways Implements` | every property of `migration` and the refinement; a completed handoff has a verdict |
| Session: `Balance Coverage Room Earned Unjudged Settled Refinement` | every safety property of `session_budget` and the refinement; a RESULT is earned, a completion is settled |
| Checkout (in `DispatchProofs`): `CheckoutInvariance PrimaryBase WorkIsKept` | both properties of `checkout_sync` |
| Correction: `FrontierHolds ReadersAgree PublicationIsClean BatchesDoNotStack LineageInvariance` | every property of `lineage`; the Publisher derives the frontier that the reducer derives |
| each: `TypeCorrect`, and the inductive invariant (`Invariance`) | types, and what the others rest on |

*Only model-checked:* `EveryDeliveryEnds`, `LocksComeFree`, `PassesEnd` and
`RunEnds`, because liveness under fairness is outside the reach of the prover.
Every safety property of every passing run is proved.  The violated property is
a counterexample and needs no proof.

## 6. What is not modelled

For good: process and pipe I/O of native executors and providers, grammars and
schema validation of immutable artifacts, read-only projections
(`unified_state.py` beyond the correction frontier), workflow files,
consultation and research contracts (no state); see `PROJECT.json` for each.

Left of the plan, in this order:

1. Extensions of modelled parts: batch approvals (`correction_dispatch.py:68-115`),
   admission-failure refs, the supersession of repair authorities, integration
   candidates, the local ref of an ingress checkout
   (`authoring_ingress.py:2903`).
2. The bootstraps of a migration.
3. The non-interactive production mode and the bound of 256 accounting records.
