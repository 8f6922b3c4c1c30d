-------------------------- MODULE MigrationHandoff --------------------------
(***************************************************************************)
(* The handoff of a downstream repository from one installed generation of  *)
(* AIOS to the next (operator.py): staging, consumption by the target,      *)
(* supersession of a handoff that was consumed but got no RUN, and the      *)
(* ordinary PRIMARYs they bar.  Everything that is known is in files below  *)
(* the runtime state; a process may die between any two of its writes.      *)
(***************************************************************************)
EXTENDS Naturals, FiniteSets

CONSTANTS Procs,             \* operator processes
          Edges,             \* the exact intents, by fingerprint
          Upgrades,          \* those that may be staged behind completed history
          Version,           \* 1 moves the control checkout, 2 keeps it
          SourceOf, TargetOf,\* the two generations of an intent
          Base, Control,     \* control commit it is admitted at, and runs at
          Task,              \* its TASK, revision and Executor
          Rebinds,           \* <<old, new>>: identity of a supersession is kept
          Generations, Tasks,
          RunIds,            \* bound on RUN numbers
          Tip,               \* bound on the line of control commits
          MaxFaults,         \* bound on deaths of processes
          NoProc, NoEdge, NoRun

Commits == 0 .. Tip

ASSUME IntentAssumption ==
  /\ Version \in [Edges -> {1, 2}] /\ Upgrades \subseteq {e \in Edges : Version[e] = 2}
  /\ {SourceOf, TargetOf} \subseteq [Edges -> Generations]
  /\ {Base, Control} \subseteq [Edges -> Commits] /\ Task \in [Edges -> Tasks]
  /\ \A e \in Edges : SourceOf[e] # TargetOf[e] /\ (Version[e] = 2 => Control[e] = Base[e])
  /\ \A pair \in Rebinds : \E old, new \in Edges :
       /\ pair = <<old, new>> /\ Version[old] = 2 /\ Version[new] = 2
       /\ SourceOf[old] = SourceOf[new] /\ TargetOf[old] # TargetOf[new]
       /\ Base[old] <= Base[new] /\ {old, new} \cap Upgrades = {}
  /\ Tip \in Nat /\ MaxFaults \in Nat
  /\ NoProc \notin Procs /\ NoEdge \notin Edges

(* What the reviewed releases keep to: one upgrade is activated and no other
   intent leaves its source; what superseded a handoff is not superseded. *)
OneUpgrade == \A u \in Upgrades, e \in Edges :
                (e \in Upgrades \/ SourceOf[e] = SourceOf[u]) => e = u
NoSecondRebind == \A first, second \in Rebinds : first[2] # second[1]

VARIABLES marker,       \* the handoff records <fingerprint>.json
          consumed,     \* .consumed files
          completed,    \* .completed files
          predecessor,  \* .predecessor files: the edge they say is replaced
          superseded,   \* .superseded files: the edge that replaces
          transport,    \* bundle and target storage of an edge
          owner,        \* the profile-local storage of the repository
          control,      \* the control clone is there
          installed,    \* the generation the installed distribution attests
          head,         \* HEAD of the downstream checkout
          runs,         \* RUN records, and which handoff reserved each
          repo,         \* holder of operator.lock
          held,         \* holders of the lock files of the edges
          at, job,      \* place and work of each process
          faults

record == <<marker, consumed, completed, predecessor, superseded>>
storage == <<transport, owner, control>>
locks == <<repo, held>>
place == <<at, job>>
env == <<installed, head>>
vars == <<record, storage, env, runs, locks, place, faults>>

Places == {"idle", "lock", "storage", "own", "clone", "bundle", "bind", "publish", "mark",
           "supersede", "leave", "consume", "look", "control", "admit", "write", "run",
           "complete"}
Ops == {"none", "stage", "recover", "accept", "primary"}

Job == [op : Ops, edge : Edges \cup {NoEdge}, new : Edges \cup {NoEdge},
        base : Commits, run : RunIds \cup {NoRun}]

Run == [base : Commits, task : Tasks, by : Edges \cup {NoEdge},
        status : {"ACTIVE", "RESULT", "FAILURE"}]

ASSUME RunAssumption == NoRun \notin Run

Work(op, e, n) == [op |-> op, edge |-> e, new |-> n, base |-> 0, run |-> NoRun]
NoJob == Work("none", NoEdge, NoEdge)

Init == /\ marker = {} /\ consumed = {} /\ completed = {}
        /\ predecessor = [e \in Edges |-> NoEdge]
        /\ superseded = [e \in Edges |-> NoEdge]
        /\ transport = [e \in Edges |-> "none"]
        /\ owner = "absent" /\ control = FALSE
        /\ installed \in Generations /\ head = 0 /\ runs = [r \in RunIds |-> NoRun]
        /\ repo = NoProc /\ held = [e \in Edges |-> NoProc]
        /\ at = [p \in Procs |-> "idle"] /\ job = [p \in Procs |-> NoJob]
        /\ faults = 0

-----------------------------------------------------------------------------
(* What the files say. *)

(* Replacements that are announced and not yet committed. *)
Pending == {n \in Edges : predecessor[n] # NoEdge /\ superseded[predecessor[n]] = NoEdge}
Replaced == {e \in marker : superseded[e] # NoEdge}
Live == marker \ (Replaced \cup Pending)

Announced(n, old) ==
  /\ old \in marker /\ old # n
  /\ \A m \in Edges : predecessor[m] = old => m = n
  /\ superseded[old] = NoEdge =>
       /\ Version[old] = 2 /\ old \in consumed
       /\ n \in marker => <<old, n>> \in Rebinds /\ n \notin consumed \cup completed

Committed(old, new) ==
  /\ new \in marker /\ new # old
  /\ \A m \in marker : superseded[m] = new => m = old
  /\ predecessor[old] = NoEdge /\ superseded[new] = NoEdge
  /\ predecessor[new] = old
  /\ old \in consumed \ completed
  /\ <<old, new>> \in Rebinds

(* The durable history is one every operation accepts. *)
Readable ==
  /\ \A e \in marker : transport[e] = "bound"
  /\ \A n \in Edges : predecessor[n] # NoEdge => Announced(n, predecessor[n])
  /\ \A e \in Replaced : Committed(e, superseded[e])
  /\ {e \in marker : predecessor[e] # NoEdge}
       = {superseded[e] : e \in Replaced} \cup (Pending \cap marker)
  /\ consumed \cup completed \subseteq marker
  /\ \A e \in Edges : /\ superseded[e] # NoEdge => e \in marker
                      /\ predecessor[e] # NoEdge => e \in marker \cup Pending
  /\ \A e, f \in Live : e # f => SourceOf[e] # SourceOf[f] /\ TargetOf[e] # TargetOf[f]

(* The live edges are one path of generations that ends at g, and its last
   handoff is completed. *)
LinkedTo(g) ==
  /\ \E e \in Live : /\ TargetOf[e] = g /\ e \in completed
                     /\ \A f \in Live : SourceOf[f] # g
  /\ \A e, f \in Live :
       {SourceOf[e], SourceOf[f]} \cap {TargetOf[x] : x \in Live} = {} => e = f
  /\ \A S \in SUBSET Live : S # {} => \E e \in S : \A f \in S : SourceOf[e] # TargetOf[f]

(* No handoff bars generation g from ordinary PRIMARY work. *)
Clear(g) == Readable /\ (Live = {} \/ LinkedTo(g))

(* e is the handoff its target may act on. *)
Active(e) == Readable /\ e \in Live

Entitled(e) == Active(e) /\ e \in consumed \ completed

(* The RUNs that look like the RUN of e. *)
Matches(e) == {r \in RunIds : runs[r] # NoRun /\ runs[r].base = Control[e]
                                              /\ runs[r].task = Task[e]}

-----------------------------------------------------------------------------
(* Steps of a process. *)

Goto(p, a) == at' = [at EXCEPT ![p] = a] /\ UNCHANGED job
Begin(p, a, work) == /\ at[p] = "idle"
                     /\ at' = [at EXCEPT ![p] = a]
                     /\ job' = [job EXCEPT ![p] = work]
Rest(p) == at' = [at EXCEPT ![p] = "idle"] /\ job' = [job EXCEPT ![p] = NoJob]

Released(p) == /\ repo' = IF repo = p THEN NoProc ELSE repo
               /\ held' = [e \in Edges |-> IF held[e] = p THEN NoProc ELSE held[e]]

(* The edge a process makes the transport of. *)
Subject(p) == IF job[p].op = "recover" THEN job[p].new ELSE job[p].edge

(* A staging begins: nothing bars the source generation.  (When the record is
   already there the target is launched again and nothing is written.) *)
StageStart(p, e) ==
  /\ e \notin marker \cup completed
  /\ installed = SourceOf[e]
  /\ Clear(installed) /\ (e \in Upgrades => Pending = {})
  /\ Begin(p, "lock", Work("stage", e, NoEdge))
  /\ UNCHANGED <<record, storage, env, runs, locks, faults>>

TakeRepo(p) ==
  /\ at[p] = "lock" /\ repo = NoProc
  /\ repo' = p /\ Goto(p, "storage")
  /\ UNCHANGED <<record, storage, env, runs, held, faults>>

(* A supersession begins under both locks: old is the only open handoff, its
   target consumed it, and it has no RUN. *)
RecoverStart(p, old, new) ==
  /\ repo = NoProc /\ held[old] = NoProc
  /\ <<old, new>> \in Rebinds /\ installed = SourceOf[old]
  /\ Readable /\ Pending = {}
  /\ marker \ (Replaced \cup completed) = {old}
  /\ old \in consumed /\ Matches(old) = {}
  /\ new \notin marker /\ predecessor[new] = NoEdge
  /\ repo' = p /\ held' = [held EXCEPT ![old] = p]
  /\ Begin(p, "storage", Work("recover", old, new))
  /\ UNCHANGED <<record, storage, env, runs, faults>>

(* The storage of the repository: a directory first, its owner file next. *)
MakeStorage(p) ==
  /\ at[p] = "storage"
  /\ \/ owner = "absent" /\ owner' = "bare" /\ Goto(p, "own")
     \/ owner = "owned" /\ Goto(p, "clone") /\ UNCHANGED owner
  /\ UNCHANGED <<record, transport, control, env, runs, locks, faults>>

OwnStorage(p) ==
  /\ at[p] = "own"
  /\ owner' = "owned" /\ Goto(p, "clone")
  /\ UNCHANGED <<record, transport, control, env, runs, locks, faults>>

CloneControl(p) ==
  /\ at[p] = "clone" /\ ~control
  /\ control' = TRUE /\ Goto(p, "bundle")
  /\ UNCHANGED <<record, transport, owner, env, runs, locks, faults>>

Allocate(p) ==
  /\ at[p] = "bundle"
  /\ head = Base[Subject(p)] /\ transport[Subject(p)] = "none"
  /\ transport' = [transport EXCEPT ![Subject(p)] = "partial"]
  /\ Goto(p, "bind")
  /\ UNCHANGED <<record, owner, control, env, runs, locks, faults>>

Bind(p) ==
  /\ at[p] = "bind"
  /\ transport' = [transport EXCEPT ![Subject(p)] = "bound"]
  /\ Goto(p, "publish")
  /\ UNCHANGED <<record, owner, control, env, runs, locks, faults>>

(* The handoff record: from here on the source generation is barred. *)
Publish(p) ==
  /\ at[p] = "publish" /\ job[p].op = "stage"
  /\ head = Base[job[p].edge] /\ job[p].edge \notin marker
  /\ job[p].edge \in Upgrades \/ marker = {}
  /\ marker' = marker \cup {job[p].edge}
  /\ Goto(p, "leave")
  /\ UNCHANGED <<consumed, completed, predecessor, superseded, storage, env, runs, locks,
                 faults>>

(* Slip: the supersession is committed before the replacement is there. *)
MutAnnounce(p) ==
  /\ at[p] = "publish" /\ job[p].op = "recover"
  /\ head = Base[job[p].new]
  /\ Matches(job[p].edge) = {} /\ job[p].edge \notin completed
  /\ predecessor' = [predecessor EXCEPT ![job[p].new] = job[p].edge]
  /\ superseded' = [superseded EXCEPT ![job[p].edge] = job[p].new]
  /\ Goto(p, "mark")
  /\ UNCHANGED <<marker, consumed, completed, storage, env, runs, locks, faults>>

(* The three files of a supersession, in the order they are written. *)
Announce(p) ==
  /\ at[p] = "publish" /\ job[p].op = "recover"
  /\ head = Base[job[p].new]
  /\ Matches(job[p].edge) = {} /\ job[p].edge \notin completed
  /\ predecessor' = [predecessor EXCEPT ![job[p].new] = job[p].edge]
  /\ Goto(p, "mark")
  /\ UNCHANGED <<marker, consumed, completed, superseded, storage, env, runs, locks, faults>>

MarkNew(p) ==
  /\ at[p] = "mark"
  /\ marker' = marker \cup {job[p].new}
  /\ Goto(p, "supersede")
  /\ UNCHANGED <<consumed, completed, predecessor, superseded, storage, env, runs, locks,
                 faults>>

Supersede(p) ==
  /\ at[p] = "supersede"
  /\ superseded' = [superseded EXCEPT ![job[p].edge] = job[p].new]
  /\ Goto(p, "leave")
  /\ UNCHANGED <<marker, consumed, completed, predecessor, storage, env, runs, locks, faults>>

Leave(p) ==
  /\ at[p] = "leave"
  /\ control' = FALSE
  /\ Released(p) /\ Rest(p)
  /\ UNCHANGED <<record, transport, owner, env, runs, faults>>

(* Slip: any record is as good as an active one. *)
MutAcceptStart(p, e) ==
  /\ held[e] = NoProc
  /\ e \in marker /\ transport[e] = "bound"
  /\ held' = [held EXCEPT ![e] = p]
  /\ Begin(p, "consume", Work("accept", e, NoEdge))
  /\ UNCHANGED <<record, storage, env, runs, repo, faults>>

(* The target takes the handoff, which no other process then touches. *)
AcceptStart(p, e) ==
  /\ held[e] = NoProc
  /\ e \in marker /\ transport[e] = "bound"
  /\ Version[e] = 2 => Active(e)
  /\ held' = [held EXCEPT ![e] = p]
  /\ Begin(p, "consume", Work("accept", e, NoEdge))
  /\ UNCHANGED <<record, storage, env, runs, repo, faults>>

Consume(p) ==
  /\ at[p] = "consume"
  /\ consumed' = consumed \cup {job[p].edge}
  /\ Goto(p, "look")
  /\ UNCHANGED <<marker, completed, predecessor, superseded, storage, env, runs, locks, faults>>

Verdict(r) == runs[r].status \in {"RESULT", "FAILURE"}

(* Slip: a RUN without a fact is taken for no RUN. *)
MutLook(p) ==
  /\ at[p] = "look"
  /\ \/ /\ ~(\E r \in Matches(job[p].edge) : Verdict(r)) /\ job[p].edge \notin completed
        /\ Goto(p, "control")
     \/ /\ \E r \in RunIds : Matches(job[p].edge) = {r} /\ Verdict(r)
        /\ Goto(p, "complete")
  /\ UNCHANGED <<record, storage, env, runs, locks, faults>>

(* A RUN from an earlier entry is not repeated: it is finished, or in the way. *)
Look(p) ==
  /\ at[p] = "look"
  /\ \/ /\ Matches(job[p].edge) = {} /\ job[p].edge \notin completed
        /\ Goto(p, "control")
     \/ /\ \E r \in RunIds : Matches(job[p].edge) = {r} /\ Verdict(r)
        /\ Goto(p, "complete")
  /\ UNCHANGED <<record, storage, env, runs, locks, faults>>

(* The checkout is brought to the control commit, under operator.lock. *)
MoveControl(p) ==
  /\ at[p] = "control" /\ repo = NoProc
  /\ head \in {Base[job[p].edge], Control[job[p].edge]}
  /\ head' = Control[job[p].edge]
  /\ Goto(p, "admit")
  /\ UNCHANGED <<record, storage, installed, runs, locks, faults>>

(* run_task of the target, under operator.lock again: it is still the one
   entitled and the checkout is still where it was left. *)
Admit(p) ==
  /\ at[p] = "admit" /\ repo = NoProc
  /\ Entitled(job[p].edge) /\ head = Control[job[p].edge]
  /\ repo' = p
  /\ job' = [job EXCEPT ![p].base = head]
  /\ at' = [at EXCEPT ![p] = "write"]
  /\ UNCHANGED <<record, storage, env, runs, held, faults>>

(* Slip: the lock is given back when the gate was passed. *)
MutPrimaryStart(p) ==
  /\ repo = NoProc /\ Clear(installed)
  /\ head' \in head .. Tip
  /\ Begin(p, "write", [Work("primary", NoEdge, NoEdge) EXCEPT !.base = head'])
  /\ UNCHANGED <<record, storage, installed, runs, locks, faults>>

(* run_task of an ordinary PRIMARY; it synchronises the checkout first. *)
PrimaryStart(p) ==
  /\ repo = NoProc /\ Clear(installed)
  /\ head' \in head .. Tip
  /\ repo' = p
  /\ Begin(p, "write", [Work("primary", NoEdge, NoEdge) EXCEPT !.base = head'])
  /\ UNCHANGED <<record, storage, installed, runs, held, faults>>

WriteRun(p) ==
  /\ at[p] = "write"
  /\ \E r \in RunIds, t \in Tasks :
       /\ runs[r] = NoRun
       /\ job[p].op = "accept" => t = Task[job[p].edge]
       /\ runs' = [runs EXCEPT ![r] = [base |-> job[p].base, task |-> t,
                                       by |-> job[p].edge, status |-> "ACTIVE"]]
       /\ job' = [job EXCEPT ![p].run = r]
  /\ at' = [at EXCEPT ![p] = "run"]
  /\ UNCHANGED <<record, storage, env, locks, faults>>

(* run_task returns or raises, with a fact of the RUN or without; a candidate
   may be what HEAD names now. *)
EndRun(p) ==
  /\ at[p] = "run"
  /\ \E s \in {"ACTIVE", "RESULT", "FAILURE"} : runs' = [runs EXCEPT ![job[p].run].status = s]
  /\ head' \in {head, head + 1} \cap Commits
  /\ repo' = NoProc
  /\ IF job[p].op = "accept" THEN Goto(p, "complete") ELSE Rest(p)
  /\ UNCHANGED <<record, storage, installed, held, faults>>

Complete(p) ==
  /\ at[p] = "complete"
  /\ \E r \in RunIds : Matches(job[p].edge) = {r} /\ Verdict(r)
  /\ completed' = completed \cup {job[p].edge}
  /\ Released(p) /\ Rest(p)
  /\ UNCHANGED <<marker, consumed, predecessor, superseded, storage, env, runs, faults>>

(* Slip: the transport of a refused staging stays. *)
MutFail(p) ==
  /\ at[p] # "idle"
  /\ control' = (control /\ at[p] \notin {"bundle", "bind", "publish", "mark", "supersede",
                                         "leave"})
  /\ Released(p) /\ Rest(p)
  /\ UNCHANGED <<record, transport, owner, env, runs, faults>>

(* A step raises: what the process made and did not publish is removed. *)
Fail(p) ==
  /\ at[p] # "idle"
  /\ control' = (control /\ at[p] \notin {"bundle", "bind", "publish", "mark", "supersede",
                                         "leave"})
  /\ transport' =
       IF /\ at[p] \in {"bind", "publish", "mark", "supersede"}
          /\ Subject(p) \notin marker
          /\ job[p].op = "recover" => predecessor[Subject(p)] = NoEdge
       THEN [transport EXCEPT ![Subject(p)] = "none"] ELSE transport
  /\ Released(p) /\ Rest(p)
  /\ UNCHANGED <<record, owner, env, runs, faults>>

(* A process dies: its locks come free, its files stay. *)
Die(p) ==
  /\ at[p] # "idle" /\ faults < MaxFaults
  /\ faults' = faults + 1
  /\ Released(p) /\ Rest(p)
  /\ UNCHANGED <<record, storage, env, runs>>

(* An abandoned RUN is reconciled to a fact. *)
Reconcile(r) ==
  /\ repo = NoProc
  /\ runs[r] # NoRun /\ runs[r].status = "ACTIVE"
  /\ \E s \in {"RESULT", "FAILURE"} : runs' = [runs EXCEPT ![r].status = s]
  /\ UNCHANGED <<record, storage, env, locks, place, faults>>

(* Git outside AIOS fast-forwards the checkout; it knows no lock. *)
Pull == /\ head < Tip /\ head' = head + 1
        /\ UNCHANGED <<record, storage, installed, runs, locks, place, faults>>

(* Another generation is installed, while nothing runs out of the old one. *)
Install(g) == /\ \A p \in Procs : job[p].op \in {"none", "accept"}
              /\ installed' = g
              /\ UNCHANGED <<record, storage, head, runs, locks, place, faults>>

Transport(p) == \/ \E e \in Edges : StageStart(p, e)
                \/ \E old, new \in Edges : RecoverStart(p, old, new)
                \/ TakeRepo(p) \/ MakeStorage(p) \/ OwnStorage(p) \/ CloneControl(p)
                \/ Allocate(p) \/ Bind(p) \/ Publish(p)
                \/ Announce(p) \/ MarkNew(p) \/ Supersede(p) \/ Leave(p)

Execution(p) == \/ \E e \in Edges : AcceptStart(p, e)
                \/ PrimaryStart(p)
                \/ Consume(p) \/ Look(p) \/ MoveControl(p) \/ Admit(p)
                \/ WriteRun(p) \/ EndRun(p) \/ Complete(p)

Next == \/ \E p \in Procs : Transport(p) \/ Execution(p) \/ Fail(p) \/ Die(p)
        \/ \E r \in RunIds : Reconcile(r)
        \/ \E g \in Generations : Install(g)
        \/ Pull

Spec == Init /\ [][Next]_vars

-----------------------------------------------------------------------------
(* Every variable has its type. *)
TypeOK ==
  /\ marker \subseteq Edges /\ consumed \subseteq Edges /\ completed \subseteq Edges
  /\ {predecessor, superseded} \subseteq [Edges -> Edges \cup {NoEdge}]
  /\ transport \in [Edges -> {"none", "partial", "bound"}]
  /\ owner \in {"absent", "bare", "owned"} /\ control \in BOOLEAN
  /\ installed \in Generations /\ head \in Commits
  /\ runs \in [RunIds -> Run \cup {NoRun}]
  /\ repo \in Procs \cup {NoProc} /\ held \in [Edges -> Procs \cup {NoProc}]
  /\ at \in [Procs -> Places] /\ job \in [Procs -> Job]
  /\ faults \in 0 .. MaxFaults

(* Whatever step a process died in, and whatever others did meanwhile, the
   history on disk is one that _migration_history accepts: it refuses every
   operation for ever otherwise. *)
HistoryReadable == Readable

(* The RUNs that handoffs admitted. *)
Admitted == {r \in RunIds : runs[r] # NoRun /\ runs[r].by # NoEdge}

(* Among all handoffs that leave one generation, one RUN is admitted at most:
   not two of a target entered twice, and not one each of a handoff and of
   the handoff that supersedes it. *)
OneRunPerGeneration ==
  \A q, r \in Admitted : SourceOf[runs[q].by] = SourceOf[runs[r].by] => q = r

(* While an ordinary PRIMARY works, no handoff is open and none leaves its
   generation, from its admission to its end. *)
BarredWhileOpen ==
  \A p \in Procs : (at[p] \in {"write", "run"} /\ job[p].op = "primary") =>
    \A e \in Live : e \in completed /\ SourceOf[e] # installed

(* A completed handoff was consumed, and its RUN has its fact. *)
CompletedHasVerdict ==
  \A e \in completed : e \in consumed /\ \E r \in Matches(e) : Verdict(r)

(* Unless a process died, a staging that was refused leaves nothing that
   would refuse the next one. *)
RefusalIsClean ==
  (faults = 0 /\ repo = NoProc) =>
    /\ ~control
    /\ \A e \in Edges : transport[e] # "none" => e \in marker \/ predecessor[e] # NoEdge

(* The three writes of a supersession are one transfer of authority. *)
Phase == [e \in Edges |->
            IF e \notin marker \ Pending THEN "none"
            ELSE IF e \in Replaced THEN "replaced"
            ELSE IF e \in completed THEN "done"
            ELSE IF e \in consumed THEN "taken" ELSE "offered"]
Ran == {runs[r].by : r \in Admitted}
Handoffs == INSTANCE Succession WITH phase <- Phase, ran <- Ran

(* The files implement the succession of generations. *)
ImplementsSuccession == Handoffs!Spec
=============================================================================
