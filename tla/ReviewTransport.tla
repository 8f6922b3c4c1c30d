--------------------------- MODULE ReviewTransport ---------------------------
(***************************************************************************)
(* The terminals of RUNs on the shared remote and the checkouts that       *)
(* publish them (src/src/aios_renew/review_transport.py, operator.py,      *)
(* terminal_attention.py).                                                 *)
(*                                                                         *)
(* Every checkout numbers its RUNs one above what it has and what it sees  *)
(* on the remote, so two checkouts may execute the same RUN id.  Nothing   *)
(* but the remote's create-only atomic push stands between them: a         *)
(* transport looks at the refs, compares what is there with its own files, *)
(* pushes what is missing in one transaction and signals the terminal.     *)
(* Retries of a transport take no lock and may run beside the first one.   *)
(***************************************************************************)
EXTENDS Naturals, Sequences, FiniteSets

CONSTANTS
  Sites,        \* checkouts, each with its .git/aios state
  Procs,        \* aios processes
  SiteOf,       \* the checkout a process works in
  RunIds,       \* RUN numbers of one TASK, an initial segment of the positive naturals
  MaxFaults,    \* bound: deaths, interrupts and network errors in a behaviour
  Surfaces,     \* whether the published main has the attention carrier at the start
  Base,         \* the commit every checkout starts from
  NoRef, NoProc, NoRun

ASSUME SiteAssumption == SiteOf \in [Procs -> Sites]
ASSUME RunAssumption ==
  RunIds \subseteq Nat \ {0} /\ MaxFaults \in Nat /\ Surfaces \subseteq BOOLEAN
ASSUME NullAssumption ==
  /\ Base \notin Sites /\ NoProc \notin Procs /\ NoRun \notin RunIds
  /\ NoRef \notin Procs \cup Sites \cup {Base}

Kinds == {"RESULT", "FAILURE"}
Other(k) == IF k = "RESULT" THEN "FAILURE" ELSE "RESULT"

VARIABLES
  opLock,       \* operator.lock of every checkout
  record,       \* runs/, results/ and failures/ of every checkout
  candidate,    \* aios/review/<run> and aios/failure/<run>
  artifacts,    \* aios/artifacts/<run> and aios/failure-artifacts/<run>
  signals,      \* aios/terminal-attention/<kind>/<run>/<artifact>
  surface,      \* the published main has the attention carrier
  pc,           \* where a process is
  run,          \* the RUN it works on
  specs,        \* the refs its transport has to create
  sha,          \* the artifacts commit it made or found
  told,         \* transports that were reported complete (history)
  arrived,      \* the terminals of a RUN in the order they came (history)
  faults

remote == <<candidate, artifacts, arrived>>
local == <<pc, run, specs, sha>>
vars == <<opLock, record, remote, signals, surface, local, told, faults>>

-----------------------------------------------------------------------------
(* State.  A definition named Mut... is a plausible slip in the definition
   that follows it; no behaviour uses it, and each one breaks a property. *)

(* A commit of artifacts is known by the process that made it; what is in it
   are the files of that process's checkout.  A candidate is a commit of its
   checkout, or the base when nothing was committed. *)
Heads == Sites \cup {Base}
Signal == [kind: Kinds, run: RunIds, sha: Procs]

File ==
  {f \in [kind: {"absent", "admitted"} \cup Kinds, head: Heads \cup {NoRef},
          publish: BOOLEAN, source: RunIds \cup {NoRun}] :
     f.kind \in Kinds <=> f.head # NoRef}
NoFile == [kind |-> "absent", head |-> NoRef, publish |-> FALSE, source |-> NoRun]
AdmittedFrom(src) == [NoFile EXCEPT !.kind = "admitted", !.source = src]

Own(p) == record[SiteOf[p]][run[p]]

Init ==
  /\ opLock = [s \in Sites |-> NoProc]
  /\ record = [s \in Sites |-> [r \in RunIds |-> NoFile]]
  /\ candidate = [k \in Kinds |-> [r \in RunIds |-> NoRef]]
  /\ artifacts = [k \in Kinds |-> [r \in RunIds |-> NoRef]]
  /\ arrived = [r \in RunIds |-> <<>>]
  /\ signals = {}
  /\ surface \in Surfaces
  /\ pc = [p \in Procs |-> "idle"]
  /\ run = [p \in Procs |-> NoRun]
  /\ specs = [p \in Procs |-> {}]
  /\ sha = [p \in Procs |-> NoRef]
  /\ told = {}
  /\ faults = 0

Goto(p, step) == pc' = [pc EXCEPT ![p] = step]

Released(p) == [opLock EXCEPT ![SiteOf[p]] = IF @ = p THEN NoProc ELSE @]

(* An invocation is over: its locks are free and it forgets everything. *)
End(p) ==
  /\ Goto(p, "idle")
  /\ run' = [run EXCEPT ![p] = NoRun]
  /\ specs' = [specs EXCEPT ![p] = {}]
  /\ sha' = [sha EXCEPT ![p] = NoRef]
  /\ opLock' = Released(p)

-----------------------------------------------------------------------------
(* Admission and execution *)

Published(r) == \E k \in Kinds : artifacts[k][r] # NoRef
Conflicting(r) == \A k \in Kinds : artifacts[k][r] # NoRef

(* next_run_id: one above every RUN number here and on the remote.  The look
   at the remote and the new RUN record are one step: what another checkout
   publishes in between does not read or change the record. *)
Used(s) == {r \in RunIds : record[s][r].kind # "absent" \/ Published(r)}
IsNextRun(s, r) == (\A u \in Used(s) : u < r) /\ (r = 1 \/ r - 1 \in Used(s))

Reserve(p, r, src) ==
  /\ record' = [record EXCEPT ![SiteOf[p]][r] = AdmittedFrom(src)]
  /\ opLock' = [opLock EXCEPT ![SiteOf[p]] = p]
  /\ run' = [run EXCEPT ![p] = r]
  /\ Goto(p, "executing")
  /\ UNCHANGED <<remote, signals, surface, specs, sha, told, faults>>

(* A PRIMARY is admitted from one snapshot of the remote, in which no RUN of
   the TASK may have two terminals. *)
Admit(p) ==
  /\ pc[p] = "idle" /\ opLock[SiteOf[p]] = NoProc
  /\ \A r \in RunIds : ~Conflicting(r)
  /\ \E r \in RunIds : IsNextRun(SiteOf[p], r) /\ Reserve(p, r, NoRun)

MutRecoverable(src) == Published(src)

(* recover_primary continues the successful candidate of a RUN that has two
   terminals, as a new RUN. *)
Recoverable(src) == candidate["RESULT"][src] # NoRef /\ Conflicting(src)

Recover(p) ==
  /\ pc[p] = "idle" /\ opLock[SiteOf[p]] = NoProc
  /\ \E src, r \in RunIds :
       /\ Recoverable(src)
       /\ IsNextRun(SiteOf[p], r) /\ Reserve(p, r, src)

CandidateHeads(p) ==
  IF Own(p).source = NoRun THEN {SiteOf[p], Base} ELSE {candidate["RESULT"][Own(p).source]}

Terminate(p, kind, h, publish) ==
  record' = [record EXCEPT ![SiteOf[p]][run[p]] =
               [@ EXCEPT !.kind = kind, !.head = h, !.publish = publish]]

(* The RESULT is durable; it is transported under operator.lock.  After a
   checkpointed completion its transport is left to a later invocation. *)
Succeed(p) ==
  /\ pc[p] = "executing"
  /\ \E h \in CandidateHeads(p) : Terminate(p, "RESULT", h, TRUE)
  /\ \/ Goto(p, "query") /\ UNCHANGED <<opLock, run, specs, sha>>
     \/ End(p)
  /\ UNCHANGED <<remote, signals, surface, told, faults>>

(* The FAILURE is durable after operator.lock was given up.  Its candidate
   is published when it is clean, in scope and descends from the base; a
   transport that cannot be prepared is left out. *)
Fail(p) ==
  /\ pc[p] = "executing"
  /\ \E h \in CandidateHeads(p), publish \in BOOLEAN : Terminate(p, "FAILURE", h, publish)
  /\ \/ Goto(p, "query") /\ opLock' = Released(p) /\ UNCHANGED <<run, specs, sha>>
     \/ End(p)
  /\ UNCHANGED <<remote, signals, surface, told, faults>>

(* retry_transport: from the files alone, under no lock, at any time. *)
RetryTransport(p) ==
  /\ pc[p] = "idle"
  /\ \E r \in RunIds :
       /\ record[SiteOf[p]][r].kind \in Kinds
       /\ run' = [run EXCEPT ![p] = r]
  /\ Goto(p, "query")
  /\ UNCHANGED <<opLock, record, remote, signals, surface, specs, sha, told, faults>>

-----------------------------------------------------------------------------
(* transport_post_pass and transport_failure *)

Ref(k, r, name) == IF name = "candidate" THEN candidate[k][r] ELSE artifacts[k][r]

MutSameContent(commit, p) == TRUE
(* The blobs of the commit that is there equal the files of this checkout:
   those of another checkout differ, in their facts or observations. *)
SameContent(commit, p) == SiteOf[commit] = SiteOf[p]

(* What is on the remote is this RUN's own terminal, as far as it is there. *)
Compatible(p) ==
  LET k == Own(p).kind  r == run[p]
  IN /\ Own(p).publish => candidate[k][r] \in {NoRef, Own(p).head}
     /\ artifacts[k][r] # NoRef => SameContent(artifacts[k][r], p)

(* A terminal without a publishable candidate is only its artifacts. *)
Parts(p) == IF Own(p).publish THEN {"candidate", "artifacts"} ELSE {"artifacts"}
Missing(p) == {name \in Parts(p) : Ref(Own(p).kind, run[p], name) = NoRef}

(* A commit of the artifacts of this checkout: two of its processes that
   commit the same files in the same second make the same one. *)
ArtifactsCommit(p) == {c \in Procs : SiteOf[c] = SiteOf[p]}

(* One ls-remote: refuse what differs, and make a commit of the artifacts if
   there is none. *)
Query(p) ==
  /\ pc[p] = "query"
  /\ IF Compatible(p)
     THEN /\ specs' = [specs EXCEPT ![p] = Missing(p)]
          /\ IF "artifacts" \in Missing(p)
             THEN \E c \in ArtifactsCommit(p) : sha' = [sha EXCEPT ![p] = c]
             ELSE sha' = [sha EXCEPT ![p] = artifacts[Own(p).kind][run[p]]]
          /\ Goto(p, IF Missing(p) = {} THEN "attend" ELSE "push")
          /\ UNCHANGED <<opLock, run>>
     ELSE End(p)
  /\ UNCHANGED <<record, remote, signals, surface, told, faults>>

(* What the push makes of a ref, and whether the remote lets it: with the
   lease on an absent ref it is created, or is already what it should be. *)
NewRef(p, name) == IF name = "candidate" THEN Own(p).head ELSE sha[p]

MutLands(p) == TRUE
Lands(p) ==
  \A name \in specs[p] : Ref(Own(p).kind, run[p], name) \in {NoRef, NewRef(p, name)}

Taken(p) == {name \in specs[p] : Ref(Own(p).kind, run[p], name) # NoRef}

(* The push is atomic: a rejected one creates no ref. *)
LeftBehind(p) == {}

Create(p, names) ==
  LET k == Own(p).kind  r == run[p]
  IN /\ candidate' = IF "candidate" \in names
                     THEN [candidate EXCEPT ![k][r] = NewRef(p, "candidate")] ELSE candidate
     /\ artifacts' = IF "artifacts" \in names
                     THEN [artifacts EXCEPT ![k][r] = NewRef(p, "artifacts")] ELSE artifacts
     /\ arrived' = IF "artifacts" \in names /\ artifacts[k][r] = NoRef
                   THEN [arrived EXCEPT ![r] = Append(@, k)] ELSE arrived

(* A ref that another process created in between rejects the push, unless it
   is the same ref and was seen in time. *)
Push(p) ==
  /\ pc[p] = "push"
  /\ \/ /\ Lands(p) /\ Create(p, specs[p])
        /\ Goto(p, "attend") /\ UNCHANGED <<opLock, run, specs, sha>>
     \/ /\ Taken(p) # {} /\ Create(p, LeftBehind(p))
        /\ End(p)
  /\ UNCHANGED <<record, signals, surface, told, faults>>

-----------------------------------------------------------------------------
(* publish_terminal_attention *)

OwnSignal(p) == [kind |-> Own(p).kind, run |-> run[p], sha |-> sha[p]]

MutUncontested(g) == artifacts[g.kind][g.run] = g.sha
(* The terminal is the one signalled and no terminal of the other kind
   competes with it. *)
Uncontested(g) ==
  /\ artifacts[g.kind][g.run] = g.sha
  /\ artifacts[Other(g.kind)][g.run] = NoRef

SignalsOf(r) == {g \in signals : g.run = r}

Tell(p) == told' = told \cup {<<SiteOf[p], run[p]>>}

(* One ls-remote.  A competing terminal, or another signal of the RUN, is an
   error; a terminal that is signalled already, or that the published main
   cannot signal yet, is done. *)
Attend(p) ==
  /\ pc[p] = "attend"
  /\ LET g == OwnSignal(p)
         fit == Uncontested(g) /\ (surface => SignalsOf(run[p]) \subseteq {g})
     IN \/ ~fit /\ End(p) /\ UNCHANGED told
        \/ fit /\ (surface => g \in signals) /\ End(p) /\ Tell(p)
        \/ /\ fit /\ surface /\ g \notin signals
           /\ Goto(p, "signal") /\ UNCHANGED <<opLock, run, specs, sha, told>>
  /\ UNCHANGED <<record, remote, signals, surface, faults>>

(* The signal is pushed create-only.  Another process may have made it
   meanwhile; with the same main it counts as pushed. *)
SignalTerminal(p) ==
  /\ pc[p] = "signal"
  /\ signals' = signals \cup {OwnSignal(p)}
  /\ Tell(p) \/ (OwnSignal(p) \in signals /\ UNCHANGED told)
  /\ End(p)
  /\ UNCHANGED <<record, remote, surface, faults>>

(* The reviewed carrier code reaches the published main. *)
UpgradeMain ==
  /\ ~surface /\ surface' = TRUE
  /\ UNCHANGED <<opLock, record, remote, signals, local, told, faults>>

-----------------------------------------------------------------------------
(* A process dies, is interrupted, or a git command of its transport fails,
   with or without the remote having done what was asked: nothing is told,
   and what is durable stays. *)
Stop(p) ==
  /\ faults < MaxFaults
  /\ pc[p] # "idle"
  /\ faults' = faults + 1
  /\ End(p)
  /\ \/ UNCHANGED signals
     \/ pc[p] = "signal" /\ signals' = signals \cup {OwnSignal(p)}
  /\ UNCHANGED <<record, remote, surface, told>>

-----------------------------------------------------------------------------
(* Specification *)

Step(p) ==
  \/ Admit(p) \/ Recover(p) \/ Succeed(p) \/ Fail(p) \/ RetryTransport(p)
  \/ Query(p) \/ Push(p) \/ Attend(p) \/ SignalTerminal(p) \/ Stop(p)

Next == (\E p \in Procs : Step(p)) \/ UpgradeMain

Spec == Init /\ [][Next]_vars

-----------------------------------------------------------------------------
(* Properties *)

(* Every variable has its type. *)
TypeOK ==
  /\ opLock \in [Sites -> Procs \cup {NoProc}]
  /\ record \in [Sites -> [RunIds -> File]]
  /\ candidate \in [Kinds -> [RunIds -> Heads \cup {NoRef}]]
  /\ artifacts \in [Kinds -> [RunIds -> Procs \cup {NoRef}]]
  /\ arrived \in [RunIds -> Seq(Kinds)]
  /\ signals \subseteq Signal
  /\ surface \in BOOLEAN
  /\ pc \in [Procs -> {"idle", "executing", "query", "push", "attend", "signal"}]
  /\ run \in [Procs -> RunIds \cup {NoRun}]
  /\ specs \in [Procs -> SUBSET {"candidate", "artifacts"}]
  /\ sha \in [Procs -> Procs \cup {NoRef}]
  /\ told \subseteq Sites \X RunIds
  /\ faults \in 0..MaxFaults

(* A terminal is on the remote as one checkout has it: its artifacts and
   their candidate come from the same RUN record, though two checkouts
   published under the same RUN id, and a candidate never comes alone. *)
TransportIsWhole ==
  \A k \in Kinds, r \in RunIds :
    IF artifacts[k][r] = NoRef THEN candidate[k][r] = NoRef
    ELSE LET file == record[SiteOf[artifacts[k][r]]][r]
         IN file.kind = k /\ candidate[k][r] = IF file.publish THEN file.head ELSE NoRef

(* Who was told that its terminal is transported, by the first attempt or by
   a retry after a lost answer, finds its own terminal on the remote. *)
ToldIsCanonical ==
  \A x \in told :
    LET k == record[x[1]][x[2]].kind
    IN k \in Kinds /\ artifacts[k][x[2]] # NoRef /\ SiteOf[artifacts[k][x[2]]] = x[1]

(* "one subordinate operational ref": a RUN is signalled at most once, with
   the terminal that came first, even when a competing one arrives between
   the look and the signal; so nobody is woken for a terminal that lost. *)
FirstTerminalSignalled ==
  \A g \in signals :
    /\ arrived[g.run] # <<>> /\ Head(arrived[g.run]) = g.kind
    /\ artifacts[g.kind][g.run] = g.sha

(* A recovered RUN continues a RUN that really has both terminals, and what
   it publishes is the candidate under review there. *)
RecoveryRestsOnConflict ==
  \A s \in Sites, r \in RunIds :
    LET file == record[s][r]
    IN file.source # NoRun =>
         /\ file.source < r /\ Conflicting(file.source)
         /\ file.kind \in Kinds => file.head = candidate["RESULT"][file.source]

-----------------------------------------------------------------------------
(* The abstract promise, and the transports as one way to keep it. *)

terminalOf ==
  [k \in Kinds |-> [r \in RunIds |->
     IF artifacts[k][r] = NoRef THEN NoRef
     ELSE [site |-> SiteOf[artifacts[k][r]], head |-> candidate[k][r]]]]
wakeOf ==
  [r \in RunIds |-> IF SignalsOf(r) = {} THEN NoRef ELSE (CHOOSE g \in SignalsOf(r) : TRUE).kind]

Registry == INSTANCE TerminalRegistry
              WITH Runs <- RunIds, terminal <- terminalOf, order <- arrived, wake <- wakeOf

(* Without a lock between them, the checkouts keep the remote the registry
   of write-once terminals that TerminalRegistry describes. *)
ImplementsRegistry == Registry!Spec
=============================================================================
