-------------------------- MODULE MigrationProofs --------------------------
(***************************************************************************)
(* Proofs about MigrationHandoff, for every set of processes, intents and   *)
(* generations of which one upgrade is activated and in which no            *)
(* replacement is itself replaced.                                          *)
(***************************************************************************)
EXTENDS MigrationHandoff, TLAPS

Reviewed == OneUpgrade /\ NoSecondRebind

MakingPlaces == {"storage", "own", "clone", "bundle", "bind", "publish"}
RepoPlaces == MakingPlaces \cup {"mark", "supersede", "leave", "write", "run"}
TakenPlaces == {"consume", "look", "control", "admit", "write", "run", "complete"}

(* Each process is where its work can bring it. *)
Working ==
  \A p \in Procs :
    /\ job[p].op = "none" <=> at[p] = "idle"
    /\ job[p].op = "stage" =>
         at[p] \in MakingPlaces \cup {"lock", "leave"} /\ job[p].edge \in Edges
    /\ job[p].op = "recover" =>
         /\ at[p] \in MakingPlaces \cup {"mark", "supersede", "leave"}
         /\ job[p].edge \in Edges /\ job[p].new \in Edges
         /\ <<job[p].edge, job[p].new>> \in Rebinds
    /\ job[p].op = "accept" => at[p] \in TakenPlaces /\ job[p].edge \in Edges
    /\ job[p].op = "primary" => at[p] \in {"write", "run"} /\ job[p].edge = NoEdge
    /\ job[p].op \in {"stage", "recover"} => SourceOf[job[p].edge] = installed

(* The two kinds of locks have the holders the places say. *)
Locking ==
  /\ \A p \in Procs : at[p] \in RepoPlaces <=> repo = p
  /\ \A p \in Procs, e \in Edges :
       held[e] = p <=> (job[p].op \in {"accept", "recover"} /\ job[p].edge = e)

(* The files of supersessions agree with each other. *)
Chained ==
  /\ consumed \cup completed \subseteq marker /\ completed \subseteq consumed
  /\ \A n \in Edges : predecessor[n] # NoEdge =>
       /\ <<predecessor[n], n>> \in Rebinds
       /\ predecessor[n] \in marker \cap consumed
       /\ \A k \in Edges : predecessor[k] = predecessor[n] => k = n
       /\ n \in Pending => n \notin consumed \cup completed
  /\ \A e \in Edges : superseded[e] # NoEdge =>
       /\ superseded[e] \in marker /\ predecessor[superseded[e]] = e
       /\ e \notin completed

(* Apart from upgrades there is one handoff and at most one replacement. *)
Lineage ==
  \A e, f \in marker \ Upgrades : e = f \/ predecessor[e] = f \/ predecessor[f] = e

(* An upgrade stands behind completed history that ends where it starts. *)
Behind ==
  \A u \in Upgrades :
    (u \in marker \/ \E p \in Procs : job[p].op = "stage" /\ job[p].edge = u) =>
      \A e \in Live \ {u} : e \in completed /\ TargetOf[e] = SourceOf[u]

(* What a supersession relies on from its check to its commitment. *)
Rebinding ==
  \A p \in Procs : job[p].op = "recover" =>
    /\ Upgrades \cap marker = {}
    /\ at[p] \in {"supersede", "leave"} => job[p].new \in marker
    /\ at[p] # "leave" =>
         /\ job[p].edge \in Live /\ job[p].edge \in consumed \ completed
         /\ job[p].edge \notin Ran
    /\ at[p] \in MakingPlaces =>
         /\ job[p].new \notin marker /\ predecessor[job[p].new] = NoEdge
         /\ \A k \in Edges : predecessor[k] # job[p].edge
    /\ at[p] \in {"mark", "supersede"} => predecessor[job[p].new] = job[p].edge
    /\ at[p] = "mark" => job[p].new \notin marker

(* What the target relies on while it holds the handoff. *)
Taking ==
  \A p \in Procs : job[p].op = "accept" =>
    /\ job[p].edge \in Live
    /\ at[p] # "consume" => job[p].edge \in consumed
    /\ at[p] \in {"control", "admit", "write"} => job[p].edge \notin Ran
    /\ at[p] = "write" => job[p].base = Control[job[p].edge]
                          /\ job[p].edge \notin completed

(* The RUNs that handoffs admitted. *)
Reserved ==
  /\ \A r \in Admitted : /\ runs[r].by \in Live /\ runs[r].by \in consumed
                         /\ runs[r].base = Control[runs[r].by]
                         /\ runs[r].task = Task[runs[r].by]
  /\ \A q, r \in Admitted : runs[q].by = runs[r].by => q = r
  /\ \A p \in Procs : at[p] = "run" =>
       /\ job[p].run \in RunIds /\ runs[job[p].run] # NoRun
       /\ runs[job[p].run].status = "ACTIVE"

(* The transports, and what is not yet published of them. *)
Bound ==
  /\ \A e \in marker : transport[e] = "bound"
  /\ \A p \in Procs : at[p] \in {"publish", "mark"} => transport[Subject(p)] = "bound"
  /\ \A p \in Procs : at[p] = "bind" => Subject(p) \notin marker
  /\ \A p \in Procs : (job[p].op = "stage" /\ at[p] = "leave") => job[p].edge \in marker

Tidy ==
  faults = 0 =>
    /\ control => \E p \in Procs : at[p] \in {"bundle", "bind", "publish", "mark", "supersede",
                                              "leave"}
    /\ \A e \in Edges : transport[e] # "none" =>
         \/ e \in marker \/ predecessor[e] # NoEdge
         \/ \E p \in Procs : at[p] \in {"bind", "publish"} /\ Subject(p) = e

IInv == /\ TypeOK /\ Working /\ Locking /\ Chained /\ Lineage /\ Behind
        /\ Rebinding /\ Taking /\ Reserved /\ Bound /\ Tidy
        /\ BarredWhileOpen /\ CompletedHasVerdict

-----------------------------------------------------------------------------
(* Frames *)

Step(p) == Transport(p) \/ Execution(p) \/ Fail(p) \/ Die(p)

(* A step of a process leaves the others where they are. *)
LEMMA StepFrame ==
  ASSUME TypeOK, NEW p \in Procs, Step(p)
  PROVE  \A q \in Procs : q # p => at'[q] = at[q] /\ job'[q] = job[q]
<1>1. at \in [Procs -> Places] /\ job \in [Procs -> Job] BY DEF TypeOK
<1>2. CASE Transport(p)
  BY <1>1, <1>2 DEF Transport, StageStart, RecoverStart, TakeRepo, MakeStorage, OwnStorage,
     CloneControl, Allocate, Bind, Publish, Announce, MarkNew, Supersede, Leave, Goto, Begin, Rest
<1>3. CASE Execution(p)
  BY <1>1, <1>3 DEF Execution, AcceptStart, PrimaryStart, Consume, Look, MoveControl, Admit,
     WriteRun, EndRun, Complete, Goto, Begin, Rest
<1>4. CASE Fail(p) \/ Die(p) BY <1>1, <1>4 DEF Fail, Die, Rest
<1> QED BY <1>2, <1>3, <1>4 DEF Step

(* Reconciliation, installation and Git leave the processes and the record. *)
LEMMA OutsideFrame ==
  ASSUME \/ \E r \in RunIds : Reconcile(r)
         \/ \E g \in Generations : Install(g)
         \/ Pull \/ UNCHANGED vars
  PROVE  UNCHANGED <<record, storage, locks, place, faults>>
BY DEF Reconcile, Install, Pull, vars, record, storage, locks, place

(* Every step is one of a process or one from outside. *)
LEMMA Cases ==
  ASSUME [Next]_vars
  PROVE  \/ \E p \in Procs : Step(p)
         \/ \E r \in RunIds : Reconcile(r)
         \/ \E g \in Generations : Install(g)
         \/ Pull \/ UNCHANGED vars
BY DEF Next, Step

(* Six actions write the files of the handoffs. *)
LEMMA RecordFrame ==
  ASSUME [Next]_vars
  PROVE  \/ UNCHANGED record
         \/ \E p \in Procs : \/ Publish(p) \/ Announce(p) \/ MarkNew(p) \/ Supersede(p)
                             \/ Consume(p) \/ Complete(p)
<1>1. SUFFICES ASSUME NEW p \in Procs, Step(p)
               PROVE  \/ UNCHANGED record
                      \/ Publish(p) \/ Announce(p) \/ MarkNew(p) \/ Supersede(p)
                      \/ Consume(p) \/ Complete(p)
  BY Cases, OutsideFrame DEF record
<1>2. CASE Transport(p)
  BY <1>2 DEF Transport, StageStart, RecoverStart, TakeRepo, MakeStorage, OwnStorage,
     CloneControl, Allocate, Bind, Leave, record
<1>3. CASE Execution(p)
  BY <1>3 DEF Execution, AcceptStart, PrimaryStart, Look, MoveControl, Admit,
     WriteRun, EndRun, record
<1>4. CASE Fail(p) \/ Die(p) BY <1>4 DEF Fail, Die, record
<1> QED BY <1>1, <1>2, <1>3, <1>4 DEF Step

(* Three write RUN records. *)
LEMMA RunsFrame ==
  ASSUME [Next]_vars
  PROVE  \/ UNCHANGED runs
         \/ \E p \in Procs : WriteRun(p) \/ EndRun(p)
         \/ \E r \in RunIds : Reconcile(r)
<1>1. CASE \E p \in Procs : Step(p)
  <2>1. PICK p \in Procs : Step(p) BY <1>1
  <2>2. CASE Transport(p)
    BY <2>2 DEF Transport, StageStart, RecoverStart, TakeRepo, MakeStorage, OwnStorage,
       CloneControl, Allocate, Bind, Publish, Announce, MarkNew, Supersede, Leave
  <2>3. CASE Execution(p)
    BY <2>3 DEF Execution, AcceptStart, PrimaryStart, Consume, Look, MoveControl, Admit, Complete
  <2>4. CASE Fail(p) \/ Die(p) BY <2>4 DEF Fail, Die
  <2> QED BY <2>1, <2>2, <2>3, <2>4 DEF Step
<1> QED BY <1>1, Cases DEF Install, Pull, vars

(* Only a process without one is given work, and only Admit and WriteRun
   change the work of another. *)
LEMMA OpFrame ==
  ASSUME TypeOK, NEW p \in Procs, Step(p), at[p] # "idle", at'[p] # "idle"
  PROVE  /\ job'[p].op = job[p].op /\ job'[p].edge = job[p].edge /\ job'[p].new = job[p].new
         /\ UNCHANGED held /\ UNCHANGED installed
<1>1. at \in [Procs -> Places] /\ job \in [Procs -> Job] BY DEF TypeOK
<1>2. CASE Transport(p)
  BY <1>1, <1>2 DEF Transport, StageStart, RecoverStart, TakeRepo, MakeStorage, OwnStorage,
     CloneControl, Allocate, Bind, Publish, Announce, MarkNew, Supersede, Leave, Goto, Begin, Rest,
     locks, env
<1>3. CASE Execution(p)
  BY <1>1, <1>3 DEF Execution, AcceptStart, PrimaryStart, Consume, Look, MoveControl, Admit,
     WriteRun, EndRun, Complete, Goto, Begin, Rest, locks, env, Job
<1>4. CASE Fail(p) \/ Die(p) BY <1>1, <1>4 DEF Fail, Die, Rest
<1> QED BY <1>2, <1>3, <1>4 DEF Step

-----------------------------------------------------------------------------
(* Types *)

(* The initial state satisfies the invariant. *)
LEMMA Initially ==
  ASSUME Init PROVE IInv
<1>1. Tip \in Nat /\ 0 \in Commits /\ MaxFaults \in Nat /\ NoProc \notin Procs
      /\ NoEdge \notin Edges
  BY IntentAssumption DEF Commits
<1>2. TypeOK
  <2>1. at \in [Procs -> Places] /\ job \in [Procs -> Job]
    BY <1>1 DEF Init, Places, NoJob, Work, Job, Ops
  <2>2. /\ marker \subseteq Edges /\ consumed \subseteq Edges /\ completed \subseteq Edges
        /\ {predecessor, superseded} \subseteq [Edges -> Edges \cup {NoEdge}]
        /\ transport \in [Edges -> {"none", "partial", "bound"}]
        /\ owner \in {"absent", "bare", "owned"} /\ control \in BOOLEAN
    BY DEF Init
  <2>3. /\ installed \in Generations /\ head \in Commits
        /\ runs \in [RunIds -> Run \cup {NoRun}]
        /\ repo \in Procs \cup {NoProc} /\ held \in [Edges -> Procs \cup {NoProc}]
        /\ faults \in 0 .. MaxFaults
    BY <1>1 DEF Init
  <2> QED BY <2>1, <2>2, <2>3 DEF TypeOK
<1>3. Working /\ Locking /\ Rebinding /\ Taking
  BY <1>1 DEF Init, Working, Locking, Rebinding, Taking, NoJob, Work, RepoPlaces, MakingPlaces
<1>4. Chained /\ Lineage BY <1>1 DEF Init, Chained, Lineage, Pending
<1>5. Behind BY DEF Init, Behind, Live
<1>6. Reserved /\ Bound /\ Tidy BY DEF Init, Reserved, Admitted, Bound, Tidy
<1>7. BarredWhileOpen /\ CompletedHasVerdict BY DEF Init, BarredWhileOpen, CompletedHasVerdict
<1> QED BY <1>2, <1>3, <1>4, <1>5, <1>6, <1>7 DEF IInv

(* The work and the places keep their types. *)
LEMMA PlaceTyping ==
  ASSUME IInv, [Next]_vars
  PROVE  at' \in [Procs -> Places] /\ job' \in [Procs -> Job]
<1>1. /\ at \in [Procs -> Places] /\ job \in [Procs -> Job] /\ head \in Commits
      /\ Tip \in Nat /\ 0 \in Commits
  BY IntentAssumption DEF IInv, TypeOK, Commits
<1>2. SUFFICES ASSUME NEW p \in Procs, Step(p) PROVE at' \in [Procs -> Places] /\ job' \in [Procs -> Job]
  BY <1>1, Cases, OutsideFrame DEF place
<1>3. CASE Transport(p)
  <2>1. CASE \E e \in Edges : StageStart(p, e)
    BY <1>1, <2>1 DEF StageStart, Begin, Places, Work, Job, Ops
  <2>2. CASE \E old, new \in Edges : RecoverStart(p, old, new)
    BY <1>1, <2>2 DEF RecoverStart, Begin, Places, Work, Job, Ops
  <2>3. CASE TakeRepo(p) \/ MakeStorage(p) \/ OwnStorage(p) \/ CloneControl(p)
    BY <1>1, <2>3 DEF TakeRepo, MakeStorage, OwnStorage, CloneControl, Goto, Places
  <2>4. CASE Allocate(p) \/ Bind(p) \/ Publish(p) \/ Announce(p) \/ MarkNew(p) \/ Supersede(p)
    BY <1>1, <2>4 DEF Allocate, Bind, Publish, Announce, MarkNew, Supersede, Goto, Places
  <2>5. CASE Leave(p) BY <1>1, <2>5 DEF Leave, Rest, NoJob, Places, Work, Job, Ops
  <2> QED BY <1>3, <2>1, <2>2, <2>3, <2>4, <2>5 DEF Transport
<1>4. CASE \E e \in Edges : AcceptStart(p, e)
  BY <1>1, <1>4 DEF AcceptStart, Begin, Places, Work, Job, Ops
<1>5. CASE PrimaryStart(p)
  <2>1. head' \in Commits BY <1>1, <1>5 DEF PrimaryStart, Commits
  <2> QED BY <1>1, <1>5, <2>1 DEF PrimaryStart, Begin, Places, Work, Job, Ops
<1>6. CASE Consume(p) \/ Look(p) \/ MoveControl(p)
  BY <1>1, <1>6 DEF Consume, Look, MoveControl, Goto, Places
<1>7. CASE Admit(p) BY <1>1, <1>7 DEF Admit, Job, Places
<1>8. CASE WriteRun(p) BY <1>1, <1>8 DEF WriteRun, Job, Places
<1>9. CASE EndRun(p) \/ Complete(p) \/ Fail(p) \/ Die(p)
  BY <1>1, <1>9 DEF EndRun, Complete, Fail, Die, Goto, Rest, Places, Work, NoJob, Job, Ops
<1> QED BY <1>2, <1>3, <1>4, <1>5, <1>6, <1>7, <1>8, <1>9 DEF Step, Execution

(* The RUN records keep theirs. *)
LEMMA RunTyping ==
  ASSUME IInv, [Next]_vars
  PROVE  runs' \in [RunIds -> Run \cup {NoRun}]
<1>1. runs \in [RunIds -> Run \cup {NoRun}] BY DEF IInv, TypeOK
<1>2. CASE \E p \in Procs : WriteRun(p)
  <2>1. PICK p \in Procs : WriteRun(p) BY <1>2
  <2>2. job[p].base \in Commits /\ job[p].edge \in Edges \cup {NoEdge}
    BY DEF IInv, TypeOK, Job
  <2> QED BY <1>1, <2>1, <2>2 DEF WriteRun, Run
<1>3. CASE \E p \in Procs : EndRun(p)
  <2>1. PICK p \in Procs : EndRun(p) BY <1>3
  <2>2. job[p].run \in RunIds /\ runs[job[p].run] \in Run
    BY <1>1, <2>1 DEF IInv, Reserved, EndRun
  <2> QED BY <1>1, <2>1, <2>2 DEF EndRun, Run
<1>4. CASE \E r \in RunIds : Reconcile(r)
  BY <1>1, <1>4 DEF Reconcile, Run
<1> QED BY <1>1, <1>2, <1>3, <1>4, RunsFrame

(* The files of the handoffs keep theirs. *)
LEMMA RecordTyping ==
  ASSUME IInv, [Next]_vars
  PROVE  /\ marker' \subseteq Edges /\ consumed' \subseteq Edges /\ completed' \subseteq Edges
         /\ predecessor' \in [Edges -> Edges \cup {NoEdge}]
         /\ superseded' \in [Edges -> Edges \cup {NoEdge}]
<1>1. /\ marker \subseteq Edges /\ consumed \subseteq Edges /\ completed \subseteq Edges
      /\ predecessor \in [Edges -> Edges \cup {NoEdge}]
      /\ superseded \in [Edges -> Edges \cup {NoEdge}]
  BY DEF IInv, TypeOK
<1>2. CASE UNCHANGED record BY <1>1, <1>2 DEF record
<1>3. CASE \E p \in Procs : \/ Publish(p) \/ Announce(p) \/ MarkNew(p) \/ Supersede(p)
                            \/ Consume(p) \/ Complete(p)
  <2>1. PICK p \in Procs : \/ Publish(p) \/ Announce(p) \/ MarkNew(p) \/ Supersede(p)
                           \/ Consume(p) \/ Complete(p)
    BY <1>3
  <2>2. /\ job[p].op \in {"stage", "recover", "accept"} => job[p].edge \in Edges
        /\ job[p].op = "recover" => job[p].new \in Edges
        /\ at[p] \in {"mark", "supersede"} => job[p].op = "recover"
        /\ at[p] \in {"consume", "complete"} => job[p].op = "accept"
    BY DEF IInv, Working, TypeOK, Job, Ops, MakingPlaces, TakenPlaces
  <2> QED BY <1>1, <2>1, <2>2
          DEF Publish, Announce, MarkNew, Supersede, Consume, Complete
<1> QED BY <1>2, <1>3, RecordFrame

(* Transports, storage and environment keep theirs. *)
LEMMA StorageTyping ==
  ASSUME IInv, NEW p \in Procs, Step(p)
  PROVE  /\ transport' \in [Edges -> {"none", "partial", "bound"}]
         /\ owner' \in {"absent", "bare", "owned"} /\ control' \in BOOLEAN
         /\ installed' \in Generations /\ head' \in Commits
         /\ repo' \in Procs \cup {NoProc} /\ held' \in [Edges -> Procs \cup {NoProc}]
         /\ faults' \in 0 .. MaxFaults
<1>1. /\ transport \in [Edges -> {"none", "partial", "bound"}]
      /\ owner \in {"absent", "bare", "owned"} /\ control \in BOOLEAN
      /\ installed \in Generations /\ head \in Commits
      /\ repo \in Procs \cup {NoProc} /\ held \in [Edges -> Procs \cup {NoProc}]
      /\ faults \in 0 .. MaxFaults
  BY DEF IInv, TypeOK
<1>2. Tip \in Nat /\ MaxFaults \in Nat /\ Control \in [Edges -> Commits] BY IntentAssumption
<1>3. CASE Transport(p)
  <2>1. CASE (\E e \in Edges : StageStart(p, e)) \/ (\E old, new \in Edges : RecoverStart(p, old, new))
    <3>1. UNCHANGED <<storage, env, faults>> BY <2>1 DEF StageStart, RecoverStart
    <3>2. CASE UNCHANGED locks BY <1>1, <3>1, <3>2 DEF storage, env, locks
    <3>3. CASE \E old, new \in Edges : RecoverStart(p, old, new)
      <4>1. PICK old \in Edges : repo' = p /\ held' = [held EXCEPT ![old] = p]
        BY <3>3 DEF RecoverStart
      <4> QED BY <1>1, <3>1, <4>1 DEF storage, env
    <3> QED BY <2>1, <3>2, <3>3 DEF StageStart
  <2>2. CASE TakeRepo(p) \/ MakeStorage(p) \/ OwnStorage(p) \/ CloneControl(p)
    <3>1. CASE TakeRepo(p) BY <1>1, <3>1 DEF TakeRepo, storage, env
    <3>2. CASE MakeStorage(p) \/ OwnStorage(p)
      BY <1>1, <3>2 DEF MakeStorage, OwnStorage, env, locks
    <3>3. CASE CloneControl(p) BY <1>1, <3>3 DEF CloneControl, env, locks
    <3> QED BY <2>2, <3>1, <3>2, <3>3
  <2>3. CASE Allocate(p) \/ Bind(p)
    BY <1>1, <2>3 DEF Allocate, Bind, env, locks
  <2>4. CASE Publish(p) \/ Announce(p) \/ MarkNew(p) \/ Supersede(p)
    BY <1>1, <2>4 DEF Publish, Announce, MarkNew, Supersede, storage, env, locks
  <2>5. CASE Leave(p) BY <1>1, <2>5 DEF Leave, Released, env
  <2> QED BY <1>3, <2>1, <2>2, <2>3, <2>4, <2>5 DEF Transport
<1>4. CASE Execution(p)
  <2>1. CASE MoveControl(p)
    <3>1. job[p].edge \in Edges
      BY <2>1 DEF IInv, Working, TypeOK, Job, Ops, MoveControl, MakingPlaces
    <3> QED BY <1>1, <1>2, <2>1, <3>1 DEF MoveControl, storage, locks
  <2>2. CASE PrimaryStart(p) BY <1>1, <1>2, <2>2 DEF PrimaryStart, storage, Commits
  <2>3. CASE EndRun(p) BY <1>1, <1>2, <2>3 DEF EndRun, storage, Commits
  <2>4. CASE \/ \E e \in Edges : AcceptStart(p, e)
             \/ Consume(p) \/ Look(p) \/ Admit(p) \/ WriteRun(p) \/ Complete(p)
    BY <1>1, <2>4 DEF AcceptStart, Consume, Look, Admit, WriteRun, Complete, Released,
       storage, env, locks
  <2> QED BY <1>4, <2>1, <2>2, <2>3, <2>4 DEF Execution
<1>5. CASE Fail(p) \/ Die(p)
  <2>1. transport' \in [Edges -> {"none", "partial", "bound"}]
    BY <1>1, <1>5 DEF Fail, Die, storage
  <2>2. control' \in BOOLEAN BY <1>1, <1>5 DEF Fail, Die, storage
  <2>3. repo' \in Procs \cup {NoProc} /\ held' \in [Edges -> Procs \cup {NoProc}]
    BY <1>1, <1>5 DEF Fail, Die, Released
  <2>4. faults' \in 0 .. MaxFaults BY <1>1, <1>2, <1>5 DEF Fail, Die
  <2>5. UNCHANGED <<owner, env>> BY <1>5 DEF Fail, Die, storage
  <2> QED BY <1>1, <2>1, <2>2, <2>3, <2>4, <2>5 DEF env
<1> QED BY <1>3, <1>4, <1>5 DEF Step

(* Everything keeps its type. *)
LEMMA Typing ==
  ASSUME IInv, [Next]_vars PROVE TypeOK'
<1>1. /\ at' \in [Procs -> Places] /\ job' \in [Procs -> Job]
      /\ runs' \in [RunIds -> Run \cup {NoRun}]
  BY PlaceTyping, RunTyping
<1>2. /\ marker' \subseteq Edges /\ consumed' \subseteq Edges /\ completed' \subseteq Edges
      /\ predecessor' \in [Edges -> Edges \cup {NoEdge}]
      /\ superseded' \in [Edges -> Edges \cup {NoEdge}]
  BY RecordTyping
<1>3. CASE \E p \in Procs : Step(p) BY <1>1, <1>2, <1>3, StorageTyping DEF TypeOK
<1>4. CASE ~(\E p \in Procs : Step(p))
  <2>1. Tip \in Nat BY IntentAssumption
  <2>2. UNCHANGED <<storage, locks, faults>> BY <1>4, Cases, OutsideFrame
  <2>3. installed' \in Generations /\ head' \in Commits
    BY <1>4, <2>1, Cases DEF Reconcile, Install, Pull, vars, env, IInv, TypeOK, Commits
  <2> QED BY <1>1, <1>2, <2>2, <2>3 DEF IInv, TypeOK, storage, locks
<1> QED BY <1>3, <1>4

-----------------------------------------------------------------------------
(* Places and locks *)

(* The work of the processes stays what their places say. *)
LEMMA WorkingKept ==
  ASSUME IInv, [Next]_vars PROVE Working'
<1>1. TypeOK /\ Working /\ NoEdge \notin Edges BY IntentAssumption DEF IInv
<1>2. at \in [Procs -> Places] /\ job \in [Procs -> Job] BY <1>1 DEF TypeOK
<1>3. ASSUME NEW p \in Procs, Step(p) PROVE Working'
  <2>1. \A q \in Procs : q # p => at'[q] = at[q] /\ job'[q] = job[q] BY <1>1, <1>3, StepFrame
  <2>2. UNCHANGED installed
    BY <1>3 DEF Step, Transport, StageStart, RecoverStart, TakeRepo, MakeStorage, OwnStorage,
       CloneControl, Allocate, Bind, Publish, Announce, MarkNew, Supersede, Leave, env, Execution,
       AcceptStart, PrimaryStart, Consume, Look, MoveControl, Admit, WriteRun, EndRun, Complete,
       Fail, Die
  <2>3. SUFFICES Working!(p)'
    BY <1>1, <2>1, <2>2 DEF Working
  <2>4. Working!(p) BY <1>1 DEF Working
  <2>5. CASE \E e \in Edges : StageStart(p, e)
    BY <1>2, <2>2, <2>5 DEF StageStart, Begin, Work, MakingPlaces
  <2>6. CASE \E old, new \in Edges : RecoverStart(p, old, new)
    BY <1>2, <2>2, <2>6 DEF RecoverStart, Begin, Work, MakingPlaces
  <2>7. CASE \E e \in Edges : AcceptStart(p, e)
    BY <1>2, <2>2, <2>7 DEF AcceptStart, Begin, Work, TakenPlaces
  <2>8. CASE PrimaryStart(p)
    BY <1>2, <2>2, <2>8 DEF PrimaryStart, Begin, Work
  <2>9. CASE TakeRepo(p) \/ MakeStorage(p) \/ OwnStorage(p) \/ CloneControl(p)
             \/ Allocate(p) \/ Bind(p)
    BY <1>2, <2>2, <2>4, <2>9 DEF TakeRepo, MakeStorage, OwnStorage, CloneControl, Allocate, Bind,
       Goto, MakingPlaces, TakenPlaces
  <2>10. CASE Publish(p) \/ Announce(p) \/ MarkNew(p) \/ Supersede(p)
    BY <1>2, <2>2, <2>4, <2>10 DEF Publish, Announce, MarkNew, Supersede, Goto, MakingPlaces,
       TakenPlaces
  <2>11. CASE Consume(p) \/ Look(p) \/ MoveControl(p)
    BY <1>2, <2>2, <2>4, <2>11 DEF Consume, Look, MoveControl, Goto, MakingPlaces, TakenPlaces
  <2>12. CASE Admit(p) \/ WriteRun(p)
    BY <1>2, <2>2, <2>4, <2>12 DEF Admit, WriteRun, MakingPlaces, TakenPlaces, Job
  <2>13. CASE EndRun(p)
    BY <1>2, <2>2, <2>4, <2>13 DEF EndRun, Goto, Rest, NoJob, Work, MakingPlaces, TakenPlaces
  <2>14. CASE Leave(p) \/ Complete(p) \/ Fail(p) \/ Die(p)
    BY <1>2, <2>2, <2>14 DEF Leave, Complete, Fail, Die, Rest, NoJob, Work
  <2> QED BY <1>3, <2>5, <2>6, <2>7, <2>8, <2>9, <2>10, <2>11, <2>12, <2>13, <2>14
          DEF Step, Transport, Execution
<1>4. CASE ~(\E p \in Procs : Step(p))
  <2>1. UNCHANGED place BY <1>4, Cases, OutsideFrame
  <2>2. UNCHANGED installed \/ \A p \in Procs : job[p].op \in {"none", "accept"}
    BY <1>4, Cases DEF Reconcile, Install, Pull, vars, env
  <2> QED BY <1>1, <2>1, <2>2 DEF Working, place
<1> QED BY <1>3, <1>4

(* The locks stay with whom the places say. *)
LEMMA LockingKept ==
  ASSUME IInv, [Next]_vars PROVE Locking'
<1>1. TypeOK /\ Locking /\ Working /\ NoEdge \notin Edges /\ NoProc \notin Procs
  BY IntentAssumption DEF IInv
<1>2. /\ at \in [Procs -> Places] /\ job \in [Procs -> Job]
      /\ repo \in Procs \cup {NoProc} /\ held \in [Edges -> Procs \cup {NoProc}]
  BY <1>1 DEF TypeOK
<1>3. ASSUME NEW p \in Procs, Step(p) PROVE Locking'
  <2>1. \A q \in Procs : q # p => at'[q] = at[q] /\ job'[q] = job[q] BY <1>1, <1>3, StepFrame
  <2>2. \A q \in Procs : at[q] \in RepoPlaces <=> repo = q BY <1>1 DEF Locking
  <2>3. \A q \in Procs, e \in Edges :
          held[e] = q <=> (job[q].op \in {"accept", "recover"} /\ job[q].edge = e)
    BY <1>1 DEF Locking
  <2>4. Working!(p) BY <1>1 DEF Working
  <2>5. CASE \E e \in Edges : StageStart(p, e) \/ AcceptStart(p, e)
    <3>1. \A q \in Procs : at'[q] \in RepoPlaces <=> repo' = q
      BY <1>2, <2>1, <2>2, <2>5 DEF StageStart, AcceptStart, Begin, RepoPlaces, MakingPlaces, locks
    <3>2. \A q \in Procs, e \in Edges :
            held'[e] = q <=> (job'[q].op \in {"accept", "recover"} /\ job'[q].edge = e)
      BY <1>1, <1>2, <2>1, <2>3, <2>4, <2>5 DEF StageStart, AcceptStart, Begin, Work, locks
    <3> QED BY <3>1, <3>2 DEF Locking
  <2>6. CASE \E old, new \in Edges : RecoverStart(p, old, new)
    <3>1. \A q \in Procs : at'[q] \in RepoPlaces <=> repo' = q
      BY <1>1, <1>2, <2>1, <2>2, <2>6 DEF RecoverStart, Begin, RepoPlaces, MakingPlaces
    <3>2. \A q \in Procs, e \in Edges :
            held'[e] = q <=> (job'[q].op \in {"accept", "recover"} /\ job'[q].edge = e)
      BY <1>1, <1>2, <2>1, <2>3, <2>4, <2>6 DEF RecoverStart, Begin, Work
    <3> QED BY <3>1, <3>2 DEF Locking
  <2>7. CASE PrimaryStart(p)
    <3>1. \A q \in Procs : at'[q] \in RepoPlaces <=> repo' = q
      BY <1>1, <1>2, <2>1, <2>2, <2>7 DEF PrimaryStart, Begin, RepoPlaces
    <3>2. \A q \in Procs, e \in Edges :
            held'[e] = q <=> (job'[q].op \in {"accept", "recover"} /\ job'[q].edge = e)
      BY <1>1, <1>2, <2>1, <2>3, <2>4, <2>7 DEF PrimaryStart, Begin, Work
    <3> QED BY <3>1, <3>2 DEF Locking
  <2>8. CASE TakeRepo(p) \/ Admit(p)
    <3>1. \A q \in Procs : at'[q] \in RepoPlaces <=> repo' = q
      BY <1>1, <1>2, <2>1, <2>2, <2>8 DEF TakeRepo, Admit, Goto, RepoPlaces, MakingPlaces
    <3>2. \A q \in Procs, e \in Edges :
            held'[e] = q <=> (job'[q].op \in {"accept", "recover"} /\ job'[q].edge = e)
      BY <1>2, <2>1, <2>3, <2>8 DEF TakeRepo, Admit, Goto, Job
    <3> QED BY <3>1, <3>2 DEF Locking
  <2>9. CASE MakeStorage(p) \/ OwnStorage(p) \/ CloneControl(p) \/ Allocate(p) \/ Bind(p)
             \/ Publish(p) \/ Announce(p) \/ MarkNew(p) \/ Supersede(p)
    <3>1. at[p] \in RepoPlaces /\ at'[p] \in RepoPlaces /\ UNCHANGED <<locks, job>>
      BY <1>2, <2>9 DEF MakeStorage, OwnStorage, CloneControl, Allocate, Bind, Publish, Announce,
         MarkNew, Supersede, Goto, RepoPlaces, MakingPlaces
    <3> QED BY <2>1, <2>2, <2>3, <3>1 DEF Locking, locks
  <2>10. CASE Consume(p) \/ Look(p) \/ MoveControl(p)
    <3>1. at[p] \notin RepoPlaces /\ at'[p] \notin RepoPlaces /\ UNCHANGED <<locks, job>>
      BY <1>2, <2>10 DEF Consume, Look, MoveControl, Goto, RepoPlaces, MakingPlaces
    <3> QED BY <2>1, <2>2, <2>3, <3>1 DEF Locking, locks
  <2>11. CASE WriteRun(p)
    <3>1. at[p] \in RepoPlaces /\ at'[p] \in RepoPlaces /\ UNCHANGED locks
          /\ job'[p].op = job[p].op /\ job'[p].edge = job[p].edge
      BY <1>2, <2>11 DEF WriteRun, RepoPlaces, Job
    <3> QED BY <2>1, <2>2, <2>3, <3>1 DEF Locking, locks
  <2>12. CASE EndRun(p)
    <3>1. \A q \in Procs : at'[q] \in RepoPlaces <=> repo' = q
      BY <1>1, <1>2, <2>1, <2>2, <2>12 DEF EndRun, Goto, Rest, RepoPlaces, MakingPlaces
    <3>2. \A q \in Procs, e \in Edges :
            held'[e] = q <=> (job'[q].op \in {"accept", "recover"} /\ job'[q].edge = e)
      <4>1. UNCHANGED held BY <2>12 DEF EndRun
      <4>2. CASE job[p].op = "accept"
        <5>1. UNCHANGED job BY <2>12, <4>2 DEF EndRun, Goto
        <5> QED BY <2>3, <4>1, <5>1
      <4>3. CASE job[p].op # "accept"
        <5>1. job[p].op # "recover"
          BY <2>4, <2>12 DEF EndRun, MakingPlaces
        <5>2. job'[p].op = "none" BY <1>2, <2>12, <4>3 DEF EndRun, Rest, NoJob, Work
        <5> QED BY <2>1, <2>3, <4>1, <4>3, <5>1, <5>2
      <4> QED BY <4>2, <4>3
    <3> QED BY <3>1, <3>2 DEF Locking
  <2>13. CASE Leave(p) \/ Complete(p) \/ Fail(p) \/ Die(p)
    <3>1. Released(p) /\ Rest(p) BY <2>13 DEF Leave, Complete, Fail, Die
    <3>2. \A q \in Procs : at'[q] \in RepoPlaces <=> repo' = q
      BY <1>1, <1>2, <2>1, <2>2, <3>1 DEF Released, Rest, RepoPlaces, MakingPlaces
    <3>3. \A q \in Procs, e \in Edges :
            held'[e] = q <=> (job'[q].op \in {"accept", "recover"} /\ job'[q].edge = e)
      BY <1>1, <1>2, <2>1, <2>3, <3>1 DEF Released, Rest, NoJob, Work
    <3> QED BY <3>2, <3>3 DEF Locking
  <2> QED BY <1>3, <2>5, <2>6, <2>7, <2>8, <2>9, <2>10, <2>11, <2>12, <2>13
          DEF Step, Transport, Execution
<1>4. CASE ~(\E p \in Procs : Step(p))
  BY <1>1, <1>4, Cases, OutsideFrame DEF Locking, place, locks
<1> QED BY <1>3, <1>4

-----------------------------------------------------------------------------
(* What each write of the record finds and leaves *)

(* The releases of a supersession leave one generation for two, and neither
   is an upgrade; a replacement is not replaced. *)
LEMMA RebindFacts ==
  ASSUME Reviewed, NEW old, NEW new, <<old, new>> \in Rebinds
  PROVE  /\ old \in Edges \ Upgrades /\ new \in Edges \ Upgrades
         /\ old # new /\ SourceOf[old] = SourceOf[new]
         /\ Version[old] = 2 /\ Version[new] = 2
         /\ \A x : <<new, x>> \notin Rebinds /\ <<x, old>> \notin Rebinds
<1>1. PICK o, n \in Edges : /\ <<old, new>> = <<o, n>> /\ Version[o] = 2 /\ Version[n] = 2
                            /\ SourceOf[o] = SourceOf[n] /\ TargetOf[o] # TargetOf[n]
                            /\ {o, n} \cap Upgrades = {}
  BY IntentAssumption
<1>2. old = o /\ new = n BY <1>1
<1>3. ASSUME NEW x PROVE <<new, x>> \notin Rebinds /\ <<x, old>> \notin Rebinds
  <2>1. CASE <<new, x>> \in Rebinds
    <3>1. <<old, new>>[2] # <<new, x>>[1] BY <2>1 DEF Reviewed, NoSecondRebind
    <3> QED BY <3>1
  <2>2. CASE <<x, old>> \in Rebinds
    <3>1. <<x, old>>[2] # <<old, new>>[1] BY <2>2 DEF Reviewed, NoSecondRebind
    <3> QED BY <3>1
  <2> QED BY <2>1, <2>2
<1> QED BY <1>1, <1>2, <1>3

(* operator.lock is held by one process. *)
LEMMA Exclusive ==
  ASSUME IInv, NEW p \in Procs, NEW q \in Procs, at[p] \in RepoPlaces, at[q] \in RepoPlaces
  PROVE  p = q
BY DEF IInv, Locking

(* Of the handoffs that are no upgrades one is live at most. *)
LEMMA OneLegacy ==
  ASSUME Reviewed, IInv, NEW e \in Live \ Upgrades, NEW f \in Live \ Upgrades
  PROVE  e = f
<1>1. TypeOK /\ Chained /\ Lineage /\ NoEdge \notin Edges BY IntentAssumption DEF IInv
<1>2. e \in Edges /\ f \in Edges /\ e \in marker /\ f \in marker BY <1>1 DEF Live, TypeOK
<1>3. ASSUME NEW x, NEW y, x \in Live, y \in Live, predecessor[x] = y PROVE FALSE
  <2>1. x \in Edges /\ y \in Edges /\ y # NoEdge /\ y \in marker BY <1>1, <1>3 DEF Live, TypeOK
  <2>2. CASE superseded[y] = NoEdge
    <3>1. x \in Pending BY <1>3, <2>1, <2>2 DEF Pending
    <3> QED BY <1>3, <3>1 DEF Live
  <2>3. CASE superseded[y] # NoEdge
    <3>1. y \in Replaced BY <2>1, <2>3 DEF Replaced
    <3> QED BY <1>3, <3>1 DEF Live
  <2> QED BY <2>2, <2>3
<1> QED BY <1>1, <1>2, <1>3 DEF Lineage

(* The record as it is when no replacement pends. *)
LEMMA Fresh ==
  ASSUME Reviewed, IInv, NEW e \in Edges, e \notin marker, e \in Upgrades \/ marker = {}
  PROVE  /\ predecessor[e] = NoEdge /\ superseded[e] = NoEdge
         /\ e \notin Pending /\ e \notin consumed \cup completed
<1>1. TypeOK /\ Chained /\ NoEdge \notin Edges BY IntentAssumption DEF IInv
<1>2. predecessor[e] = NoEdge
  <2>1. SUFFICES ASSUME predecessor[e] # NoEdge PROVE FALSE OBVIOUS
  <2>2. <<predecessor[e], e>> \in Rebinds /\ predecessor[e] \in marker
    BY <1>1, <2>1 DEF Chained
  <2> QED BY <2>2, RebindFacts
<1>3. superseded[e] = NoEdge
  <2>1. SUFFICES ASSUME superseded[e] # NoEdge PROVE FALSE OBVIOUS
  <2>2. superseded[e] \in marker /\ predecessor[superseded[e]] = e BY <1>1, <2>1 DEF Chained
  <2>3. superseded[e] \in Edges /\ e # NoEdge BY <1>1, <2>2 DEF TypeOK
  <2>4. predecessor[superseded[e]] \in marker BY <1>1, <2>2, <2>3 DEF Chained
  <2> QED BY <2>2, <2>4
<1> QED BY <1>1, <1>2, <1>3 DEF Pending, Chained

(* The record of a staging: everything before it is finished, and ends where
   it starts. *)
LEMMA PublishFacts ==
  ASSUME Reviewed, IInv, NEW p \in Procs, Publish(p)
  PROVE  LET e == job[p].edge
         IN  /\ e \in Edges \ marker /\ marker' = marker \cup {e}
             /\ e \in Upgrades \/ marker = {}
             /\ predecessor[e] = NoEdge /\ superseded[e] = NoEdge
             /\ e \notin consumed \cup completed
             /\ UNCHANGED <<consumed, completed, predecessor, superseded, Pending>>
             /\ Live' = Live \cup {e}
             /\ \A f \in Live : f \in completed /\ TargetOf[f] = SourceOf[e]
<1>1. TypeOK /\ Working /\ Behind /\ Chained BY DEF IInv
<1>2. PICK e \in Edges \ marker :
        /\ job[p].op = "stage" /\ job[p].edge = e
        /\ marker' = marker \cup {e} /\ (e \in Upgrades \/ marker = {})
        /\ UNCHANGED <<consumed, completed, predecessor, superseded>>
  BY <1>1 DEF Publish, Working
<1>3. predecessor[e] = NoEdge /\ superseded[e] = NoEdge /\ e \notin Pending
      /\ e \notin consumed \cup completed
  BY <1>2, Fresh
<1>4. Pending' = Pending BY <1>2 DEF Pending
<1>5. Live' = Live \cup {e}
  <2>1. Replaced' = Replaced BY <1>2, <1>3 DEF Replaced
  <2>2. e \notin Replaced BY <1>3 DEF Replaced
  <2> QED BY <1>2, <1>3, <1>4, <2>1, <2>2 DEF Live
<1>6. \A f \in Live : f \in completed /\ TargetOf[f] = SourceOf[e]
  <2>1. CASE marker = {} BY <2>1 DEF Live
  <2>2. CASE e \in Upgrades
    <3>1. \A f \in Live \ {e} : f \in completed /\ TargetOf[f] = SourceOf[e]
      BY <1>1, <1>2, <2>2 DEF Behind
    <3>2. e \notin Live BY <1>2 DEF Live
    <3> QED BY <3>1, <3>2
  <2> QED BY <1>2, <2>1, <2>2
<1> QED BY <1>2, <1>3, <1>4, <1>5, <1>6

(* What a supersession knows at each of its writes. *)
LEMMA RecoverFacts ==
  ASSUME Reviewed, IInv, NEW p \in Procs, job[p].op = "recover"
  PROVE  LET old == job[p].edge  new == job[p].new
         IN  /\ old \in Edges \ Upgrades /\ new \in Edges \ Upgrades /\ old # new
             /\ <<old, new>> \in Rebinds /\ at[p] \in RepoPlaces
             /\ at[p] # "leave" =>
                  /\ old \in Live /\ old \in marker /\ superseded[old] = NoEdge
                  /\ predecessor[old] = NoEdge
                  /\ old \in consumed \ completed /\ old \notin Ran
<1> DEFINE old == job[p].edge
           new == job[p].new
<1>1. TypeOK /\ Working /\ Rebinding /\ Chained BY DEF IInv
<1>2. <<old, new>> \in Rebinds /\ at[p] \in RepoPlaces BY <1>1 DEF Working, RepoPlaces
<1>3. /\ old \in Edges \ Upgrades /\ new \in Edges \ Upgrades /\ old # new
      /\ \A x : <<x, old>> \notin Rebinds
  BY <1>2, RebindFacts
<1>4. predecessor[old] = NoEdge BY <1>1, <1>3 DEF Chained
<1>5. at[p] # "leave" => old \in Live /\ old \in consumed \ completed /\ old \notin Ran
  BY <1>1 DEF Rebinding
<1>6. old \in Live => old \in marker /\ superseded[old] = NoEdge
  BY <1>1 DEF Live, Replaced, TypeOK
<1> QED BY <1>2, <1>3, <1>4, <1>5, <1>6

(* The announcement of a replacement leaves what is live as it was. *)
LEMMA AnnounceFacts ==
  ASSUME Reviewed, IInv, NEW p \in Procs, Announce(p)
  PROVE  LET old == job[p].edge  new == job[p].new
         IN  /\ job[p].op = "recover" /\ at[p] = "publish"
             /\ new \notin marker /\ predecessor[new] = NoEdge
             /\ \A k \in Edges : predecessor[k] # old
             /\ predecessor' = [predecessor EXCEPT ![new] = old]
             /\ UNCHANGED <<marker, consumed, completed, superseded>>
             /\ Pending' = Pending \cup {new} /\ Live' = Live
<1> DEFINE old == job[p].edge
           new == job[p].new
<1>1. TypeOK /\ Working /\ Rebinding /\ NoEdge \notin Edges BY IntentAssumption DEF IInv
<1>2. /\ job[p].op = "recover" /\ at[p] = "publish"
      /\ predecessor' = [predecessor EXCEPT ![new] = old]
      /\ UNCHANGED <<marker, consumed, completed, superseded>>
  BY DEF Announce
<1>3. /\ new \notin marker /\ predecessor[new] = NoEdge /\ \A k \in Edges : predecessor[k] # old
  BY <1>1, <1>2 DEF Rebinding, MakingPlaces
<1>4. old \in Edges /\ new \in Edges /\ superseded[old] = NoEdge /\ old # new
  BY <1>2, RecoverFacts
<1>5. Pending' = Pending \cup {new}
  BY <1>1, <1>2, <1>3, <1>4 DEF Pending, TypeOK
<1>6. Live' = Live
  <2>1. Replaced' = Replaced BY <1>2 DEF Replaced
  <2> QED BY <1>2, <1>3, <1>5, <2>1 DEF Live
<1> QED BY <1>2, <1>3, <1>5, <1>6

(* So does the record of the replacement. *)
LEMMA MarkFacts ==
  ASSUME Reviewed, IInv, NEW p \in Procs, MarkNew(p)
  PROVE  LET old == job[p].edge  new == job[p].new
         IN  /\ job[p].op = "recover" /\ at[p] = "mark"
             /\ new \notin marker /\ predecessor[new] = old /\ new \in Pending
             /\ marker' = marker \cup {new}
             /\ UNCHANGED <<consumed, completed, predecessor, superseded, Pending>>
             /\ Live' = Live
<1> DEFINE old == job[p].edge
           new == job[p].new
<1>1. TypeOK /\ Working /\ Rebinding /\ NoEdge \notin Edges BY IntentAssumption DEF IInv
<1>2. /\ job[p].op = "recover" /\ at[p] = "mark"
      /\ marker' = marker \cup {new}
      /\ UNCHANGED <<consumed, completed, predecessor, superseded>>
  BY <1>1 DEF MarkNew, Working, MakingPlaces, TakenPlaces, TypeOK, Job, Ops
<1>3. new \notin marker /\ predecessor[new] = old BY <1>1, <1>2 DEF Rebinding
<1>4. old \in Edges /\ new \in Edges /\ superseded[old] = NoEdge
  BY <1>2, RecoverFacts
<1>5. new \in Pending BY <1>1, <1>3, <1>4 DEF Pending
<1>6. Pending' = Pending BY <1>2 DEF Pending
<1>7. Live' = Live
  <2>1. new \notin Replaced' \/ new \in Pending' BY <1>5, <1>6
  <2>2. Replaced' \ {new} = Replaced \ {new} BY <1>2 DEF Replaced
  <2> QED BY <1>2, <1>3, <1>5, <1>6, <2>2 DEF Live
<1> QED BY <1>2, <1>3, <1>5, <1>6, <1>7

(* The commitment takes one for the other. *)
LEMMA SupersedeFacts ==
  ASSUME Reviewed, IInv, NEW p \in Procs, Supersede(p)
  PROVE  LET old == job[p].edge  new == job[p].new
         IN  /\ job[p].op = "recover" /\ at[p] = "supersede"
             /\ new \in marker /\ predecessor[new] = old /\ new \in Pending
             /\ new \notin consumed \cup completed /\ superseded[new] = NoEdge
             /\ superseded' = [superseded EXCEPT ![old] = new]
             /\ UNCHANGED <<marker, consumed, completed, predecessor>>
             /\ Pending' = Pending \ {new} /\ Live' = (Live \ {old}) \cup {new}
<1> DEFINE old == job[p].edge
           new == job[p].new
<1>1. TypeOK /\ Working /\ Rebinding /\ Chained /\ NoEdge \notin Edges
  BY IntentAssumption DEF IInv
<1>2. /\ job[p].op = "recover" /\ at[p] = "supersede"
      /\ superseded' = [superseded EXCEPT ![old] = new]
      /\ UNCHANGED <<marker, consumed, completed, predecessor>>
  BY <1>1 DEF Supersede, Working, MakingPlaces, TakenPlaces, TypeOK, Job, Ops
<1>3. new \in marker /\ predecessor[new] = old BY <1>1, <1>2 DEF Rebinding
<1>4. /\ old \in Edges /\ new \in Edges /\ superseded[old] = NoEdge /\ old # new
      /\ old \in Live /\ <<old, new>> \in Rebinds
  BY <1>2, RecoverFacts
<1>5. new \in Pending BY <1>1, <1>3, <1>4 DEF Pending
<1>6. /\ new \notin consumed \cup completed
      /\ \A k \in Edges : predecessor[k] = old => k = new
  BY <1>1, <1>3, <1>4, <1>5 DEF Chained
<1>7. superseded[new] = NoEdge
  <2>1. SUFFICES ASSUME superseded[new] # NoEdge PROVE FALSE OBVIOUS
  <2>2. superseded[new] \in Edges /\ predecessor[superseded[new]] = new
    BY <1>1, <1>4, <2>1 DEF Chained, TypeOK
  <2>3. <<new, superseded[new]>> \in Rebinds BY <1>1, <1>4, <2>2 DEF Chained
  <2> QED BY <1>4, <2>3, RebindFacts
<1>8. Pending' = Pending \ {new}
  BY <1>1, <1>2, <1>3, <1>4, <1>6 DEF Pending, TypeOK
<1>9. Live' = (Live \ {old}) \cup {new}
  <2>1. Replaced' = Replaced \cup {old}
    BY <1>1, <1>2, <1>4 DEF Replaced, Live, TypeOK
  <2>2. new \notin Replaced BY <1>7 DEF Replaced
  <2> QED BY <1>2, <1>3, <1>4, <1>8, <2>1, <2>2 DEF Live
<1> QED BY <1>2, <1>3, <1>5, <1>6, <1>7, <1>8, <1>9

(* The files of the target leave what is live. *)
LEMMA TargetFacts ==
  ASSUME Reviewed, IInv, NEW p \in Procs, Consume(p) \/ Complete(p)
  PROVE  LET e == job[p].edge
         IN  /\ job[p].op = "accept" /\ e \in Live
             /\ Consume(p) => consumed' = consumed \cup {e} /\ UNCHANGED completed
             /\ Complete(p) => /\ completed' = completed \cup {e} /\ UNCHANGED consumed
                               /\ e \in consumed
             /\ UNCHANGED <<marker, predecessor, superseded, Pending, Live>>
<1>1. TypeOK /\ Working /\ Taking BY DEF IInv
<1>2. job[p].op = "accept"
  BY <1>1 DEF Consume, Complete, Working, MakingPlaces, TakenPlaces, TypeOK, Job, Ops
<1>3. job[p].edge \in Live /\ (Complete(p) => job[p].edge \in consumed)
  BY <1>1, <1>2 DEF Taking, Complete
<1>4. UNCHANGED <<marker, predecessor, superseded>> BY DEF Consume, Complete
<1>5. UNCHANGED <<Pending, Live>> BY <1>4 DEF Pending, Live, Replaced
<1> QED BY <1>2, <1>3, <1>4, <1>5 DEF Consume, Complete

(* What is live is changed by the publication of a staging and by the
   commitment of a supersession. *)
LEMMA LiveEffect ==
  ASSUME Reviewed, IInv, [Next]_vars
  PROVE  \/ Live' = Live
         \/ \E p \in Procs : Publish(p) /\ Live' = Live \cup {job[p].edge}
         \/ \E p \in Procs : Supersede(p) /\ Live' = (Live \ {job[p].edge}) \cup {job[p].new}
<1>1. CASE UNCHANGED record BY <1>1 DEF record, Live, Pending, Replaced
<1>2. ASSUME NEW p \in Procs, Publish(p) PROVE Live' = Live \cup {job[p].edge}
  BY <1>2, PublishFacts
<1>3. ASSUME NEW p \in Procs, Announce(p) PROVE Live' = Live BY <1>3, AnnounceFacts
<1>4. ASSUME NEW p \in Procs, MarkNew(p) PROVE Live' = Live BY <1>4, MarkFacts
<1>5. ASSUME NEW p \in Procs, Supersede(p) PROVE Live' = (Live \ {job[p].edge}) \cup {job[p].new}
  BY <1>5, SupersedeFacts
<1>6. ASSUME NEW p \in Procs, Consume(p) \/ Complete(p) PROVE Live' = Live BY <1>6, TargetFacts
<1> QED BY <1>1, <1>2, <1>3, <1>4, <1>5, <1>6, RecordFrame

(* So a handoff stays live unless a supersession of it is committed. *)
LEMMA StaysLive ==
  ASSUME Reviewed, IInv, [Next]_vars, NEW e \in Live,
         \A p \in Procs : Supersede(p) => job[p].edge # e
  PROVE  e \in Live'
BY LiveEffect

(* A record that is consumed or completed stays so. *)
LEMMA Grows ==
  ASSUME [Next]_vars
  PROVE  marker \subseteq marker' /\ consumed \subseteq consumed' /\ completed \subseteq completed'
<1>1. CASE UNCHANGED record BY <1>1 DEF record
<1>2. ASSUME NEW p \in Procs,
             Publish(p) \/ Announce(p) \/ MarkNew(p) \/ Supersede(p) \/ Consume(p) \/ Complete(p)
      PROVE marker \subseteq marker' /\ consumed \subseteq consumed' /\ completed \subseteq completed'
  BY <1>2 DEF Publish, Announce, MarkNew, Supersede, Consume, Complete
<1> QED BY <1>1, <1>2, RecordFrame

(* Only the target that holds a handoff completes it. *)
LEMMA CompletedBy ==
  ASSUME Reviewed, IInv, [Next]_vars, NEW e \in completed' \ completed
  PROVE  \E p \in Procs : Complete(p) /\ job[p].op = "accept" /\ job[p].edge = e
<1>1. ~UNCHANGED record BY DEF record
<1>2. PICK p \in Procs : \/ Publish(p) \/ Announce(p) \/ MarkNew(p) \/ Supersede(p)
                         \/ Consume(p) \/ Complete(p)
  BY <1>1, RecordFrame
<1>3. Complete(p) BY <1>2 DEF Publish, Announce, MarkNew, Supersede, Consume
<1> QED BY <1>3, TargetFacts DEF Complete

(* The files of supersessions keep agreeing. *)
LEMMA ChainedKept ==
  ASSUME Reviewed, IInv, [Next]_vars PROVE Chained'
<1>1. TypeOK /\ Chained /\ Working /\ NoEdge \notin Edges BY IntentAssumption DEF IInv
<1>2. CASE UNCHANGED record BY <1>1, <1>2 DEF record, Chained, Pending
<1>3. ASSUME NEW p \in Procs, Publish(p) PROVE Chained'
  <2>1. /\ marker \subseteq marker'
        /\ UNCHANGED <<consumed, completed, predecessor, superseded, Pending>>
    BY <1>3, PublishFacts
  <2> QED BY <1>1, <2>1 DEF Chained
<1>4. ASSUME NEW p \in Procs, Announce(p) PROVE Chained'
  <2>1. PICK old \in Edges, new \in Edges :
          /\ job[p].edge = old /\ job[p].new = new /\ job[p].op = "recover" /\ at[p] = "publish"
          /\ <<old, new>> \in Rebinds /\ old \in Live /\ old \in consumed /\ old # new
    BY <1>4, RecoverFacts, AnnounceFacts
  <2>2. /\ new \notin marker /\ predecessor[new] = NoEdge
        /\ \A k \in Edges : predecessor[k] # old
        /\ predecessor' = [predecessor EXCEPT ![new] = old]
        /\ UNCHANGED <<marker, consumed, completed, superseded>>
        /\ Pending' = Pending \cup {new}
    BY <1>4, <2>1, AnnounceFacts
  <2>3. old \in marker BY <2>1 DEF Live
  <2>4. predecessor \in [Edges -> Edges \cup {NoEdge}] /\ marker \subseteq Edges BY <1>1 DEF TypeOK
  <2>5. \A n \in Edges : predecessor'[n] # NoEdge =>
          /\ <<predecessor'[n], n>> \in Rebinds
          /\ predecessor'[n] \in marker' \cap consumed'
          /\ \A k \in Edges : predecessor'[k] = predecessor'[n] => k = n
          /\ n \in Pending' => n \notin consumed' \cup completed'
    <3>1. \A n \in Edges \ {new} : predecessor'[n] = predecessor[n] BY <2>2, <2>4
    <3>2. predecessor'[new] = old BY <2>2, <2>4
    <3>3. new \notin consumed \cup completed BY <1>1, <2>2 DEF Chained
    <3> QED BY <1>1, <2>1, <2>2, <2>3, <3>1, <3>2, <3>3 DEF Chained
  <2>6. \A e \in Edges : superseded'[e] # NoEdge =>
          /\ superseded'[e] \in marker' /\ predecessor'[superseded'[e]] = e
          /\ e \notin completed'
    <3>1. ASSUME NEW e \in Edges, superseded[e] # NoEdge PROVE superseded[e] # new
      BY <1>1, <2>2, <3>1 DEF Chained
    <3> QED BY <1>1, <2>2, <2>4, <3>1 DEF Chained
  <2>7. consumed' \cup completed' \subseteq marker' /\ completed' \subseteq consumed'
    BY <1>1, <2>2 DEF Chained
  <2> QED BY <2>5, <2>6, <2>7 DEF Chained
<1>5. ASSUME NEW p \in Procs, MarkNew(p) PROVE Chained'
  <2>1. /\ marker \subseteq marker'
        /\ UNCHANGED <<consumed, completed, predecessor, superseded, Pending>>
    BY <1>5, MarkFacts
  <2> QED BY <1>1, <2>1 DEF Chained
<1>6. ASSUME NEW p \in Procs, Supersede(p) PROVE Chained'
  <2>1. PICK old \in Edges, new \in Edges :
          /\ job[p].edge = old /\ job[p].new = new /\ job[p].op = "recover" /\ at[p] = "supersede"
          /\ old \notin completed
    BY <1>6, RecoverFacts, SupersedeFacts
  <2>2. /\ new \in marker /\ predecessor[new] = old
        /\ superseded' = [superseded EXCEPT ![old] = new]
        /\ UNCHANGED <<marker, consumed, completed, predecessor>>
        /\ Pending' = Pending \ {new}
    BY <1>6, <2>1, SupersedeFacts
  <2>3. superseded \in [Edges -> Edges \cup {NoEdge}] BY <1>1 DEF TypeOK
  <2>4. \A e \in Edges : superseded'[e] # NoEdge =>
          /\ superseded'[e] \in marker' /\ predecessor'[superseded'[e]] = e
          /\ e \notin completed'
    BY <1>1, <2>1, <2>2, <2>3 DEF Chained
  <2> QED BY <1>1, <2>2, <2>4 DEF Chained
<1>7. ASSUME NEW p \in Procs, Consume(p) \/ Complete(p) PROVE Chained'
  <2>1. PICK e \in Edges : e = job[p].edge /\ e \in Live
    BY <1>1, <1>7, TargetFacts DEF Live, TypeOK
  <2>2. /\ UNCHANGED <<marker, predecessor, superseded, Pending>>
        /\ consumed \subseteq consumed' /\ consumed' \subseteq consumed \cup {e}
        /\ completed \subseteq completed' /\ completed' \subseteq completed \cup {e}
        /\ completed' \subseteq consumed'
    BY <1>1, <1>7, <2>1, TargetFacts DEF Chained
  <2>3. e \in marker /\ e \notin Pending /\ superseded[e] = NoEdge
    BY <2>1 DEF Live, Replaced
  <2> QED BY <1>1, <2>2, <2>3 DEF Chained
<1> QED BY <1>2, <1>3, <1>4, <1>5, <1>6, <1>7, RecordFrame

(* There stays one handoff that is no upgrade, and at most one replacement. *)
LEMMA LineageKept ==
  ASSUME Reviewed, IInv, [Next]_vars PROVE Lineage'
<1>1. TypeOK /\ Chained /\ Lineage /\ NoEdge \notin Edges BY IntentAssumption DEF IInv
<1>2. CASE UNCHANGED record BY <1>1, <1>2 DEF record, Lineage
<1>3. ASSUME NEW p \in Procs, Publish(p) PROVE Lineage'
  <2>1. PICK e \in Edges : /\ marker' = marker \cup {e} /\ (e \in Upgrades \/ marker = {})
                           /\ UNCHANGED predecessor
    BY <1>3, PublishFacts
  <2> QED BY <1>1, <2>1 DEF Lineage
<1>4. ASSUME NEW p \in Procs, Announce(p) PROVE Lineage'
  <2> DEFINE new == job[p].new
  <2>1. /\ job[p].op = "recover" /\ predecessor[new] = NoEdge /\ new \notin marker
        /\ predecessor' = [predecessor EXCEPT ![new] = job[p].edge] /\ UNCHANGED marker
    BY <1>4, AnnounceFacts
  <2>2. marker \subseteq Edges /\ predecessor \in [Edges -> Edges \cup {NoEdge}]
    BY <1>1 DEF TypeOK
  <2> HIDE DEF new
  <2>3. \A x \in marker : predecessor'[x] = predecessor[x] BY <2>1, <2>2
  <2> QED BY <1>1, <2>1, <2>3 DEF Lineage
<1>5. ASSUME NEW p \in Procs, MarkNew(p) PROVE Lineage'
  <2>1. PICK old \in Edges, new \in Edges :
          /\ job[p].edge = old /\ job[p].new = new
          /\ old \in marker /\ old \notin Upgrades /\ predecessor[old] = NoEdge
          /\ predecessor[new] = old /\ marker' = marker \cup {new} /\ UNCHANGED predecessor
    BY <1>5, MarkFacts, RecoverFacts
  <2>2. ASSUME NEW f \in marker \ Upgrades PROVE f \in {old, new}
    <3>1. f = old \/ predecessor[f] = old \/ predecessor[old] = f BY <1>1, <2>1, <2>2 DEF Lineage
    <3>2. f \in Edges BY <1>1, <2>2 DEF TypeOK
    <3>3. \A k \in Edges : predecessor[k] = predecessor[new] => k = new
      BY <1>1, <2>1 DEF Chained
    <3>4. predecessor[f] = old => f = new BY <2>1, <3>2, <3>3
    <3> QED BY <1>1, <2>1, <3>1, <3>2, <3>4
  <2> QED BY <2>1, <2>2 DEF Lineage
<1>6. ASSUME NEW p \in Procs, Supersede(p) PROVE Lineage'
  BY <1>1, <1>6, SupersedeFacts DEF Lineage
<1>7. ASSUME NEW p \in Procs, Consume(p) \/ Complete(p) PROVE Lineage'
  BY <1>1, <1>7, TargetFacts DEF Lineage
<1> QED BY <1>2, <1>3, <1>4, <1>5, <1>6, <1>7, RecordFrame

(* A start of a staging of an upgrade finds finished history, and nobody
   stages or supersedes what leaves the source of an upgrade meanwhile. *)
LEMMA LegacyIsLast ==
  ASSUME Reviewed, IInv, NEW u \in Upgrades, u \notin marker, NEW g, LinkedTo(g), NEW e \in Live
  PROVE  e \in completed /\ TargetOf[e] = g
<1>1. marker \cap Upgrades = {}
  BY IntentAssumption DEF Reviewed, OneUpgrade, IInv, TypeOK
<1>2. \A x \in Live : x \in Live \ Upgrades BY <1>1 DEF Live
<1>3. PICK x \in Live : TargetOf[x] = g /\ x \in completed BY DEF LinkedTo
<1>4. x = e BY <1>2, OneLegacy
<1> QED BY <1>3, <1>4

(* An upgrade stays behind completed history. *)
LEMMA BehindKept ==
  ASSUME Reviewed, IInv, [Next]_vars PROVE Behind'
<1>1. TypeOK /\ Behind /\ Working /\ Rebinding /\ Upgrades \subseteq Edges
  BY IntentAssumption DEF IInv
<1>2. SUFFICES ASSUME NEW u \in Upgrades,
                      u \in marker' \/ \E q \in Procs : job'[q].op = "stage" /\ job'[q].edge = u,
                      NEW e \in Live', e # u
               PROVE  e \in completed' /\ TargetOf[e] = SourceOf[u]
  BY DEF Behind
<1>3. completed \subseteq completed' BY Grows
<1>4. CASE u \in marker \/ \E q \in Procs : job[q].op = "stage" /\ job[q].edge = u
  <2>1. \A x \in Live \ {u} : x \in completed /\ TargetOf[x] = SourceOf[u]
    BY <1>1, <1>4 DEF Behind
  <2>2. CASE e \in Live BY <1>2, <1>3, <2>1, <2>2
  <2>3. ASSUME NEW p \in Procs, Publish(p), e = job[p].edge PROVE FALSE
    <3>1. e \notin Upgrades BY <1>1, <1>2 DEF Reviewed, OneUpgrade
    <3>2. marker = {} BY <2>3, <3>1, PublishFacts
    <3>3. PICK q \in Procs : job[q].op = "stage" /\ job[q].edge = u BY <1>4, <3>2
    <3>4. SourceOf[u] = installed /\ SourceOf[e] = installed /\ e \in Edges
      BY <1>1, <2>3, <3>3 DEF Working, Publish
    <3> QED BY <1>1, <1>2, <3>4 DEF Reviewed, OneUpgrade
  <2>4. ASSUME NEW p \in Procs, Supersede(p) PROVE FALSE
    <3>1. /\ job[p].op = "recover" /\ SourceOf[job[p].edge] = installed
          /\ job[p].edge \in Edges \ Upgrades
      BY <1>1, <2>4, SupersedeFacts, RecoverFacts DEF Working
    <3>2. u \notin marker BY <1>1, <3>1 DEF Rebinding
    <3>3. PICK q \in Procs : job[q].op = "stage" /\ job[q].edge = u BY <1>4, <3>2
    <3>4. SourceOf[u] = installed BY <1>1, <3>3 DEF Working
    <3> QED BY <1>1, <3>1, <3>4 DEF Reviewed, OneUpgrade
  <2> QED BY <2>2, <2>3, <2>4, LiveEffect
<1>5. CASE ~(u \in marker \/ \E q \in Procs : job[q].op = "stage" /\ job[q].edge = u)
  <2>1. ASSUME u \in marker' PROVE FALSE
    <3>1. ~UNCHANGED record BY <1>5, <2>1 DEF record
    <3>2. PICK p \in Procs : \/ Publish(p) \/ Announce(p) \/ MarkNew(p) \/ Supersede(p)
                             \/ Consume(p) \/ Complete(p)
      BY <3>1, RecordFrame
    <3>3. CASE Publish(p) BY <1>5, <2>1, <3>3 DEF Publish
    <3>4. CASE MarkNew(p)
      <4>1. marker' = marker \cup {job[p].new} /\ job[p].new \notin Upgrades
        BY <3>4, MarkFacts, RecoverFacts
      <4> QED BY <1>5, <2>1, <4>1
    <3>5. CASE Announce(p) \/ Supersede(p) \/ Consume(p) \/ Complete(p)
      BY <1>5, <2>1, <3>5 DEF Announce, Supersede, Consume, Complete
    <3> QED BY <3>2, <3>3, <3>4, <3>5
  <2>2. PICK q \in Procs : job'[q].op = "stage" /\ job'[q].edge = u BY <1>2, <2>1
  <2>3. ~UNCHANGED job BY <1>5, <2>2
  <2>4. PICK p \in Procs : Step(p) BY <2>3, Cases, OutsideFrame DEF place
  <2>5. p = q BY <1>1, <1>5, <2>2, <2>4, StepFrame
  <2>6. at[p] = "idle"
    <3>1. at'[p] # "idle" BY <2>2, <2>5, WorkingKept DEF Working
    <3> QED BY <1>1, <1>5, <2>2, <2>4, <2>5, <3>1, OpFrame
  <2>7. StageStart(p, u)
    <3>1. job'[p].op = "stage" /\ job \in [Procs -> Job] BY <1>1, <2>2, <2>5 DEF TypeOK
    <3>2. \E x \in Edges : StageStart(p, x)
      <4>1. CASE Transport(p)
        <5>1. ~(\E old, new \in Edges : RecoverStart(p, old, new))
          <6>1. SUFFICES ASSUME NEW old \in Edges, NEW new \in Edges, RecoverStart(p, old, new)
                         PROVE  FALSE
            OBVIOUS
          <6>2. job' = [job EXCEPT ![p] = Work("recover", old, new)] BY <6>1 DEF RecoverStart, Begin
          <6> QED BY <3>1, <6>2 DEF Work
        <5>2. ~(TakeRepo(p) \/ MakeStorage(p) \/ OwnStorage(p) \/ CloneControl(p)
                \/ Allocate(p) \/ Bind(p) \/ Publish(p) \/ Announce(p) \/ MarkNew(p)
                \/ Supersede(p) \/ Leave(p))
          BY <2>6 DEF TakeRepo, MakeStorage, OwnStorage, CloneControl, Allocate, Bind, Publish,
             Announce, MarkNew, Supersede, Leave
        <5> QED BY <4>1, <5>1, <5>2 DEF Transport
      <4>2. CASE Execution(p)
        BY <2>6, <3>1, <4>2 DEF Execution, AcceptStart, PrimaryStart, Consume, Look, MoveControl,
           Admit, WriteRun, EndRun, Complete, Begin, Work
      <4>3. CASE Fail(p) \/ Die(p) BY <2>6, <4>3 DEF Fail, Die
      <4> QED BY <2>4, <4>1, <4>2, <4>3 DEF Step
    <3> QED BY <1>1, <2>2, <2>5, <3>2 DEF StageStart, Begin, Work, TypeOK
  <2>8. Live = {} \/ LinkedTo(SourceOf[u])
    BY <2>7 DEF StageStart, Clear
  <2>9. UNCHANGED record BY <2>7 DEF StageStart
  <2>10. Live' = Live BY <2>9 DEF record, Live, Pending, Replaced
  <2>11. LinkedTo(SourceOf[u]) /\ e \in Live BY <1>2, <2>8, <2>10
  <2> QED BY <1>3, <1>5, <2>11, LegacyIsLast
<1> QED BY <1>4, <1>5

(* A RUN that exists keeps its identity; a fact keeps as well. *)
LEMMA RunKept ==
  ASSUME IInv, [Next]_vars, NEW r \in RunIds, runs[r] # NoRun
  PROVE  /\ runs'[r] # NoRun
         /\ runs'[r].by = runs[r].by /\ runs'[r].base = runs[r].base
         /\ runs'[r].task = runs[r].task
         /\ Verdict(r) => Verdict(r)'
<1>1. runs \in [RunIds -> Run \cup {NoRun}] /\ runs[r] \in Run /\ NoRun \notin Run
  BY RunAssumption DEF IInv, TypeOK
<1>2. CASE UNCHANGED runs BY <1>2 DEF Verdict
<1>3. ASSUME NEW p \in Procs, WriteRun(p) PROVE runs'[r] = runs[r]
  BY <1>1, <1>3 DEF WriteRun
<1>4. ASSUME NEW q \in RunIds, NEW s, runs[q] \in Run, runs[q].status = "ACTIVE",
             s \in {"ACTIVE", "RESULT", "FAILURE"}, runs' = [runs EXCEPT ![q].status = s]
      PROVE  /\ runs'[r] \in Run
             /\ runs'[r].by = runs[r].by /\ runs'[r].base = runs[r].base
             /\ runs'[r].task = runs[r].task
             /\ Verdict(r) => Verdict(r)'
  BY <1>1, <1>4 DEF Run, Verdict
<1>5. ASSUME NEW p \in Procs, EndRun(p)
      PROVE  \E q \in RunIds, s \in {"ACTIVE", "RESULT", "FAILURE"} :
               runs[q] \in Run /\ runs[q].status = "ACTIVE" /\ runs' = [runs EXCEPT ![q].status = s]
  BY <1>1, <1>5 DEF EndRun, IInv, Reserved
<1>6. ASSUME NEW q \in RunIds, Reconcile(q)
      PROVE  \E s \in {"ACTIVE", "RESULT", "FAILURE"} :
               runs[q] \in Run /\ runs[q].status = "ACTIVE" /\ runs' = [runs EXCEPT ![q].status = s]
  BY <1>1, <1>6 DEF Reconcile
<1> QED
  <2>1. CASE UNCHANGED runs \/ \E p \in Procs : WriteRun(p) BY <1>2, <1>3, <2>1 DEF Verdict
  <2>2. CASE (\E p \in Procs : EndRun(p)) \/ (\E q \in RunIds : Reconcile(q))
    BY <1>1, <1>4, <1>5, <1>6, <2>2
  <2> QED BY <2>1, <2>2, RunsFrame

(* Only WriteRun makes a RUN, and it makes one. *)
LEMMA RunMade ==
  ASSUME IInv, [Next]_vars, NEW r \in RunIds, runs[r] = NoRun, runs'[r] # NoRun
  PROVE  \E p \in Procs :
           /\ WriteRun(p) /\ at[p] = "write"
           /\ runs'[r].by = job[p].edge /\ runs'[r].base = job[p].base
           /\ job[p].op = "accept" => runs'[r].task = Task[job[p].edge]
           /\ \A q \in RunIds \ {r} : runs'[q] = runs[q]
<1>1. runs \in [RunIds -> Run \cup {NoRun}] /\ NoRun \notin Run
  BY RunAssumption DEF IInv, TypeOK
<1>2. ASSUME NEW p \in Procs, EndRun(p) PROVE FALSE
  <2>1. job[p].run \in RunIds /\ runs[job[p].run] # NoRun BY <1>2 DEF EndRun, IInv, Reserved
  <2> QED BY <1>1, <1>2, <2>1 DEF EndRun
<1>3. ASSUME NEW q \in RunIds, Reconcile(q) PROVE FALSE BY <1>1, <1>3 DEF Reconcile
<1>4. PICK p \in Procs : WriteRun(p) BY <1>2, <1>3, RunsFrame
<1>5. PICK q \in RunIds, t \in Tasks :
        /\ job[p].op = "accept" => t = Task[job[p].edge]
        /\ runs' = [runs EXCEPT ![q] = [base |-> job[p].base, task |-> t,
                                       by |-> job[p].edge, status |-> "ACTIVE"]]
  BY <1>4 DEF WriteRun
<1>6. q = r BY <1>1, <1>5
<1> QED BY <1>1, <1>4, <1>5, <1>6 DEF WriteRun

(* The handoffs with a RUN grow by the one whose target writes it. *)
LEMMA RanEffect ==
  ASSUME IInv, [Next]_vars
  PROVE  /\ Ran \subseteq Ran'
         /\ \A e \in Ran' \ Ran : \E p \in Procs :
              WriteRun(p) /\ at[p] = "write" /\ job[p].op = "accept" /\ job[p].edge = e
<1>1. Ran \subseteq Ran' BY RunKept DEF Ran, Admitted
<1>2. ASSUME NEW e \in Ran' \ Ran
      PROVE  \E p \in Procs : WriteRun(p) /\ at[p] = "write" /\ job[p].op = "accept" /\ job[p].edge = e
  <2>1. PICK r \in RunIds : runs'[r] # NoRun /\ runs'[r].by # NoEdge /\ runs'[r].by = e
    BY <1>2 DEF Ran, Admitted
  <2>2. runs[r] = NoRun BY <1>2, <2>1, RunKept DEF Ran, Admitted
  <2>3. PICK p \in Procs : WriteRun(p) /\ at[p] = "write" /\ job[p].edge = e
    BY <2>1, <2>2, RunMade
  <2>4. job[p].op = "accept"
    BY <2>1, <2>3 DEF IInv, Working, MakingPlaces, TypeOK, Job, Ops
  <2> QED BY <2>3, <2>4
<1> QED BY <1>1, <1>2

(* A process that is given no new work did not begin one. *)
LEMMA Continues ==
  ASSUME IInv, [Next]_vars, NEW p \in Procs, at[p] # "idle", at'[p] # "idle"
  PROVE  /\ job'[p].op = job[p].op /\ job'[p].edge = job[p].edge /\ job'[p].new = job[p].new
<1>1. TypeOK /\ Working BY DEF IInv
<1>2. CASE Step(p) BY <1>1, <1>2, OpFrame
<1>3. ASSUME NEW q \in Procs, q # p, Step(q) PROVE job'[p] = job[p]
  BY <1>1, <1>3, StepFrame
<1>4. CASE ~(\E q \in Procs : Step(q)) BY <1>4, Cases, OutsideFrame DEF place
<1> QED BY <1>2, <1>3, <1>4

Transfers(p) == Publish(p) \/ Announce(p) \/ MarkNew(p) \/ Supersede(p)

(* Whoever holds operator.lock sees nobody else move the handoffs. *)
LEMMA Undisturbed ==
  ASSUME Reviewed, IInv, [Next]_vars, NEW q \in Procs, at[q] \in RepoPlaces, ~Transfers(q)
  PROVE  UNCHANGED <<marker, predecessor, superseded, Pending, Live>>
<1>1. ASSUME NEW p \in Procs, Transfers(p) PROVE FALSE
  <2>1. at[p] \in RepoPlaces
    BY <1>1 DEF Transfers, Publish, Announce, MarkNew, Supersede, RepoPlaces, MakingPlaces
  <2> QED BY <1>1, <2>1, Exclusive
<1>2. UNCHANGED record \/ \E p \in Procs : Consume(p) \/ Complete(p)
  BY <1>1, RecordFrame DEF Transfers
<1>3. UNCHANGED <<marker, predecessor, superseded>>
  BY <1>2 DEF record, Consume, Complete
<1> QED BY <1>3 DEF Pending, Live, Replaced

(* Between two writes of the record a process stays or makes the transport. *)
LEMMA Moves ==
  ASSUME IInv, [Next]_vars, NEW q \in Procs, at[q] # "idle", at'[q] # "idle", ~Transfers(q),
         job[q].op \in {"stage", "recover"}
  PROVE  at'[q] = at[q] \/ (at[q] \in MakingPlaces \cup {"lock"} /\ at'[q] \in MakingPlaces)
<1>1. TypeOK /\ Working BY DEF IInv
<1>2. at \in [Procs -> Places] BY <1>1 DEF TypeOK
<1>3. CASE Transport(q)
  BY <1>2, <1>3 DEF Transfers, Transport, StageStart, RecoverStart, TakeRepo, MakeStorage,
     OwnStorage, CloneControl, Allocate, Bind, Leave, Goto, Begin, Rest, MakingPlaces
<1>4. CASE Execution(q)
  <2>1. at[q] \notin TakenPlaces BY <1>1 DEF Working, MakingPlaces, TakenPlaces
  <2> QED BY <1>2, <1>4, <2>1 DEF Execution, AcceptStart, PrimaryStart, Consume, Look, MoveControl,
             Admit, WriteRun, EndRun, Complete, Begin, TakenPlaces
<1>5. CASE Fail(q) \/ Die(q) BY <1>2, <1>5 DEF Fail, Die, Rest
<1>6. CASE ~Step(q)
  <2>1. ASSUME NEW p \in Procs, p # q, Step(p) PROVE at'[q] = at[q] BY <1>1, <2>1, StepFrame
  <2> QED BY <1>6, <2>1, Cases, OutsideFrame DEF place
<1> QED BY <1>3, <1>4, <1>5, <1>6 DEF Step

(* What a supersession relies on when it starts. *)
LEMMA RecoverBegins ==
  ASSUME Reviewed, IInv, NEW p \in Procs, NEW old \in Edges, NEW new \in Edges,
         RecoverStart(p, old, new)
  PROVE  /\ Upgrades \cap marker = {}
         /\ old \in Live /\ old \in consumed \ completed /\ old \notin Ran
         /\ new \notin marker /\ predecessor[new] = NoEdge
         /\ \A k \in Edges : predecessor[k] # old
<1>1. TypeOK /\ Behind /\ Reserved /\ Chained /\ NoEdge \notin Edges BY IntentAssumption DEF IInv
<1>2. /\ <<old, new>> \in Rebinds /\ Pending = {}
      /\ marker \ (Replaced \cup completed) = {old}
      /\ old \in consumed /\ Matches(old) = {}
      /\ new \notin marker /\ predecessor[new] = NoEdge
  BY DEF RecoverStart
<1>3. old \notin Upgrades BY <1>2, RebindFacts
<1>4. old \in Live /\ old \notin completed /\ superseded[old] = NoEdge
  BY <1>2 DEF Live, Replaced
<1>5. Upgrades \cap marker = {} BY <1>1, <1>3, <1>4 DEF Behind
<1>6. old \notin Ran
  BY <1>1, <1>2 DEF Ran, Reserved, Admitted, Matches
<1>7. \A k \in Edges : predecessor[k] # old BY <1>1, <1>2, <1>4 DEF Pending
<1> QED BY <1>2, <1>4, <1>5, <1>6, <1>7

(* A supersession keeps what it relies on. *)
LEMMA RebindingKept ==
  ASSUME Reviewed, IInv, [Next]_vars PROVE Rebinding'
<1>1. TypeOK /\ Working /\ Locking /\ Rebinding /\ NoEdge \notin Edges
  BY IntentAssumption DEF IInv
<1>2. at \in [Procs -> Places] /\ job \in [Procs -> Job] BY <1>1 DEF TypeOK
<1>3. Working' BY WorkingKept
<1>4. SUFFICES ASSUME NEW q \in Procs, job'[q].op = "recover" PROVE Rebinding!(q)!2'
  BY DEF Rebinding
<1>5. at'[q] # "idle" BY <1>3, <1>4 DEF Working
<1>6. CASE at[q] = "idle"
  <2>1. PICK old \in Edges, new \in Edges : RecoverStart(q, old, new)
    <3>1. Step(q)
      <4>1. ASSUME NEW p \in Procs, p # q, Step(p) PROVE FALSE BY <1>1, <1>5, <1>6, <4>1, StepFrame
      <4> QED BY <1>5, <1>6, <4>1, Cases, OutsideFrame DEF place
    <3>2. CASE Transport(q)
      <4>1. ~(\E e \in Edges : StageStart(q, e))
        <5>1. SUFFICES ASSUME NEW e \in Edges, StageStart(q, e) PROVE FALSE OBVIOUS
        <5>2. job' = [job EXCEPT ![q] = Work("stage", e, NoEdge)] BY <5>1 DEF StageStart, Begin
        <5> QED BY <1>2, <1>4, <5>2 DEF Work
      <4>2. ~(TakeRepo(q) \/ MakeStorage(q) \/ OwnStorage(q) \/ CloneControl(q)
              \/ Allocate(q) \/ Bind(q) \/ Publish(q) \/ Announce(q) \/ MarkNew(q)
              \/ Supersede(q) \/ Leave(q))
        BY <1>6 DEF TakeRepo, MakeStorage, OwnStorage, CloneControl, Allocate, Bind, Publish,
           Announce, MarkNew, Supersede, Leave
      <4> QED BY <3>2, <4>1, <4>2 DEF Transport
    <3>3. ~Execution(q)
      <4>1. ~(\E e \in Edges : AcceptStart(q, e)) /\ ~PrimaryStart(q)
        BY <1>2, <1>4 DEF AcceptStart, PrimaryStart, Begin, Work
      <4> QED BY <1>6, <4>1 DEF Execution, Consume, Look, MoveControl, Admit, WriteRun, EndRun,
                 Complete
    <3>4. ~(Fail(q) \/ Die(q)) BY <1>6 DEF Fail, Die
    <3> QED BY <3>1, <3>2, <3>3, <3>4 DEF Step
  <2>2. job'[q].edge = old /\ job'[q].new = new /\ at'[q] = "storage"
        /\ UNCHANGED <<record, runs>>
    BY <1>2, <2>1 DEF RecoverStart, Begin, Work
  <2>3. Live' = Live /\ Ran' = Ran /\ UNCHANGED <<marker, consumed, completed, predecessor>>
    BY <2>2 DEF record, Live, Pending, Replaced, Ran, Admitted
  <2> QED BY <2>1, <2>2, <2>3, RecoverBegins DEF MakingPlaces
<1>7. CASE at[q] # "idle"
  <2>1. PICK old \in Edges, new \in Edges :
          /\ job[q].op = "recover" /\ job[q].edge = old /\ job[q].new = new
          /\ job'[q].edge = old /\ job'[q].new = new
    BY <1>1, <1>3, <1>4, <1>5, <1>7, Continues DEF Working
  <2>2. at[q] \in RepoPlaces /\ old # new /\ old \notin Upgrades /\ new \notin Upgrades
    BY <2>1, RecoverFacts
  <2>3. Rebinding!(q)!2 BY <1>1, <2>1 DEF Rebinding
  <2>4. old \notin completed' \ completed
    <3>1. SUFFICES ASSUME old \in completed' \ completed PROVE FALSE OBVIOUS
    <3>2. PICK p \in Procs : job[p].op = "accept" /\ job[p].edge = old BY <3>1, CompletedBy
    <3> QED BY <1>1, <2>1, <3>2 DEF Locking
  <2>5. old \notin Ran' \ Ran
    <3>1. SUFFICES ASSUME old \in Ran' \ Ran PROVE FALSE OBVIOUS
    <3>2. PICK p \in Procs : job[p].op = "accept" /\ job[p].edge = old BY <3>1, RanEffect
    <3> QED BY <1>1, <2>1, <3>2 DEF Locking
  <2>6. consumed \subseteq consumed' BY Grows
  <2>7. CASE ~Transfers(q)
    <3>1. UNCHANGED <<marker, predecessor, superseded, Pending, Live>> BY <2>2, <2>7, Undisturbed
    <3>2. at'[q] = at[q] \/ (at[q] \in MakingPlaces /\ at'[q] \in MakingPlaces)
      <4>1. at[q] # "lock" BY <1>1, <2>1 DEF Working, MakingPlaces
      <4> QED BY <1>5, <1>7, <2>1, <2>7, <4>1, Moves
    <3>3. "leave" \notin MakingPlaces /\ "mark" \notin MakingPlaces /\ "supersede" \notin MakingPlaces
      BY DEF MakingPlaces
    <3> QED BY <2>1, <2>3, <2>4, <2>5, <2>6, <3>1, <3>2, <3>3
  <2>8. CASE Announce(q)
    <3>1. at'[q] = "mark" BY <1>2, <2>8 DEF Announce, Goto
    <3>2. /\ new \notin marker /\ Live' = Live /\ marker' = marker /\ at[q] = "publish"
          /\ predecessor' = [predecessor EXCEPT ![new] = old]
      BY <2>1, <2>8, AnnounceFacts
    <3>3. predecessor'[new] = old BY <1>1, <3>2 DEF TypeOK
    <3> QED BY <2>1, <2>3, <2>4, <2>5, <2>6, <3>1, <3>2, <3>3 DEF MakingPlaces
  <2>9. CASE MarkNew(q)
    <3>1. at'[q] = "supersede" BY <1>2, <2>9 DEF MarkNew, Goto
    <3>2. /\ Live' = Live /\ marker' = marker \cup {new} /\ at[q] = "mark"
          /\ predecessor' = predecessor /\ predecessor[new] = old
      BY <2>1, <2>9, MarkFacts
    <3> QED BY <2>1, <2>2, <2>3, <2>4, <2>5, <2>6, <3>1, <3>2 DEF MakingPlaces
  <2>10. CASE Supersede(q)
    <3>1. at'[q] = "leave" BY <1>2, <2>10 DEF Supersede, Goto
    <3>2. marker' = marker /\ new \in marker BY <2>1, <2>10, SupersedeFacts
    <3> QED BY <2>1, <2>3, <3>1, <3>2 DEF MakingPlaces
  <2>11. ~Publish(q) BY <2>1 DEF Publish
  <2> QED BY <2>7, <2>8, <2>9, <2>10, <2>11 DEF Transfers
<1> QED BY <1>6, <1>7

(* A target goes through its places in order. *)
LEMMA TakeMoves ==
  ASSUME IInv, [Next]_vars, NEW q \in Procs, at[q] # "idle", at'[q] # "idle", job[q].op = "accept"
  PROVE  \/ at'[q] = at[q] /\ job'[q] = job[q]
         \/ Consume(q) \/ Look(q) \/ MoveControl(q) \/ Admit(q) \/ WriteRun(q) \/ EndRun(q)
<1>1. TypeOK /\ Working BY DEF IInv
<1>2. at \in [Procs -> Places] /\ at[q] \in TakenPlaces BY <1>1 DEF TypeOK, Working
<1>3. ~Transport(q)
  BY <1>1, <1>2 DEF Transport, StageStart, RecoverStart, TakeRepo, MakeStorage, OwnStorage,
     CloneControl, Allocate, Bind, Publish, Announce, MarkNew, Supersede, Leave, Begin, TakenPlaces
<1>4. ~(Fail(q) \/ Die(q)) BY <1>2 DEF Fail, Die, Rest
<1>5. CASE Execution(q)
  BY <1>2, <1>5 DEF Execution, AcceptStart, PrimaryStart, Begin, Complete, Rest
<1>6. CASE ~Step(q)
  <2>1. ASSUME NEW p \in Procs, p # q, Step(p) PROVE at'[q] = at[q] /\ job'[q] = job[q]
    BY <1>1, <2>1, StepFrame
  <2> QED BY <1>6, <2>1, Cases, OutsideFrame DEF place
<1> QED BY <1>3, <1>4, <1>5, <1>6 DEF Step

(* A process takes up the work of a target only at its entry. *)
LEMMA TakeBegins ==
  ASSUME IInv, [Next]_vars, NEW q \in Procs, at[q] = "idle", job'[q].op = "accept"
  PROVE  \E e \in Edges : AcceptStart(q, e)
<1>1. TypeOK BY DEF IInv
<1>2. at \in [Procs -> Places] /\ job \in [Procs -> Job] BY <1>1 DEF TypeOK
<1>3. job[q].op # "accept" BY DEF IInv, Working, TakenPlaces
<1>4. Step(q)
  <2>1. ASSUME NEW p \in Procs, p # q, Step(p) PROVE FALSE BY <1>1, <1>3, <2>1, StepFrame
  <2> QED BY <1>3, <2>1, Cases, OutsideFrame DEF place
<1>5. ~Transport(q)
  <2>1. ASSUME NEW e \in Edges, StageStart(q, e) PROVE FALSE
    <3>1. job' = [job EXCEPT ![q] = Work("stage", e, NoEdge)] BY <2>1 DEF StageStart, Begin
    <3> QED BY <1>2, <3>1 DEF Work
  <2>2. ASSUME NEW old \in Edges, NEW new \in Edges, RecoverStart(q, old, new) PROVE FALSE
    <3>1. job' = [job EXCEPT ![q] = Work("recover", old, new)] BY <2>2 DEF RecoverStart, Begin
    <3> QED BY <1>2, <3>1 DEF Work
  <2>3. ~(TakeRepo(q) \/ MakeStorage(q) \/ OwnStorage(q) \/ CloneControl(q)
          \/ Allocate(q) \/ Bind(q) \/ Publish(q) \/ Announce(q) \/ MarkNew(q)
          \/ Supersede(q) \/ Leave(q))
    BY DEF TakeRepo, MakeStorage, OwnStorage, CloneControl, Allocate, Bind, Publish,
       Announce, MarkNew, Supersede, Leave
  <2> QED BY <2>1, <2>2, <2>3 DEF Transport
<1>6. ~(Fail(q) \/ Die(q)) BY DEF Fail, Die
<1>7. ~PrimaryStart(q) BY <1>2 DEF PrimaryStart, Begin, Work
<1> QED BY <1>4, <1>5, <1>6, <1>7 DEF Step, Execution, Consume, Look, MoveControl, Admit, WriteRun,
           EndRun, Complete

(* What a target finds is a live handoff: one of version 1 always is. *)
LEMMA TakenIsLive ==
  ASSUME Reviewed, IInv, NEW q \in Procs, NEW e \in Edges, AcceptStart(q, e)
  PROVE  e \in Live
<1>1. TypeOK /\ Chained /\ NoEdge \notin Edges BY IntentAssumption DEF IInv
<1>2. CASE Version[e] = 2 BY <1>2 DEF AcceptStart, Active
<1>3. CASE Version[e] # 2
  <2>1. e \notin Pending
    <3>1. SUFFICES ASSUME predecessor[e] # NoEdge PROVE FALSE BY DEF Pending
    <3>2. <<predecessor[e], e>> \in Rebinds BY <1>1, <3>1 DEF Chained
    <3> QED BY <1>3, <3>2, RebindFacts
  <2>2. e \notin Replaced
    <3>1. SUFFICES ASSUME superseded[e] # NoEdge PROVE FALSE BY DEF Replaced
    <3>2. superseded[e] \in Edges /\ predecessor[superseded[e]] = e
      BY <1>1, <3>1 DEF Chained, TypeOK
    <3>3. <<e, superseded[e]>> \in Rebinds BY <1>1, <3>2 DEF Chained
    <3> QED BY <1>3, <3>3, RebindFacts
  <2> QED BY <2>1, <2>2 DEF AcceptStart, Live
<1> QED BY <1>2, <1>3

(* The target keeps what it relies on. *)
LEMMA TakingKept ==
  ASSUME Reviewed, IInv, [Next]_vars PROVE Taking'
<1>1. TypeOK /\ Working /\ Locking /\ Taking /\ Reserved /\ NoEdge \notin Edges
  BY IntentAssumption DEF IInv
<1>2. at \in [Procs -> Places] /\ job \in [Procs -> Job] BY <1>1 DEF TypeOK
<1>3. SUFFICES ASSUME NEW q \in Procs, job'[q].op = "accept" PROVE Taking!(q)!2'
  BY DEF Taking
<1>4. at'[q] # "idle" BY <1>3, WorkingKept DEF Working
<1>5. CASE at[q] = "idle"
  <2>1. PICK e \in Edges : AcceptStart(q, e) BY <1>3, <1>5, TakeBegins
  <2>2. e \in Live BY <2>1, TakenIsLive
  <2>3. job'[q].edge = e /\ at'[q] = "consume" BY <1>2, <2>1 DEF AcceptStart, Begin, Work
  <2>4. Live' = Live BY <2>1 DEF AcceptStart, record, Live, Pending, Replaced
  <2> QED BY <2>2, <2>3, <2>4
<1>6. CASE at[q] # "idle"
  <2>1. PICK e \in Edges : job[q].op = "accept" /\ job[q].edge = e /\ job'[q].edge = e
    BY <1>1, <1>3, <1>4, <1>6, Continues DEF Working
  <2>2. Taking!(q)!2 BY <1>1, <2>1 DEF Taking
  <2>3. \A p \in Procs : job[p].op \in {"accept", "recover"} /\ job[p].edge = e => p = q
    BY <1>1, <2>1 DEF Locking
  <2>4. e \in Live'
    <3>1. ASSUME NEW p \in Procs, Supersede(p) PROVE job[p].edge # e
      BY <2>1, <2>3, <3>1, SupersedeFacts
    <3> QED BY <2>1, <2>2, <3>1, StaysLive
  <2>5. e \in Ran' \ Ran => at'[q] = "run"
    <3>1. SUFFICES ASSUME e \in Ran' \ Ran PROVE at'[q] = "run" OBVIOUS
    <3>2. PICK p \in Procs : WriteRun(p) /\ job[p].op = "accept" /\ job[p].edge = e
      BY <3>1, RanEffect
    <3> QED BY <1>2, <2>3, <3>2 DEF WriteRun
  <2>6. e \notin completed' \ completed
    <3>1. SUFFICES ASSUME e \in completed' \ completed PROVE FALSE OBVIOUS
    <3>2. PICK p \in Procs : Complete(p) /\ job[p].op = "accept" /\ job[p].edge = e
      BY <3>1, CompletedBy
    <3> QED BY <1>2, <1>4, <2>3, <3>2 DEF Complete, Rest
  <2>7. consumed \subseteq consumed' BY Grows
  <2>8. CASE at'[q] = at[q] /\ job'[q] = job[q]
    BY <2>1, <2>2, <2>4, <2>5, <2>6, <2>7, <2>8
  <2>9. CASE Consume(q)
    <3>1. e \in consumed' /\ at'[q] = "look" BY <1>2, <2>1, <2>9 DEF Consume, Goto
    <3> QED BY <2>1, <2>4, <3>1
  <2>10. CASE Look(q)
    <3>1. e \in Ran => Matches(e) # {}
      BY <1>1, <2>1 DEF Ran, Reserved, Admitted, Matches
    <3>2. at[q] = "look" /\ at'[q] \in {"control", "complete"}
          /\ (at'[q] = "control" => Matches(e) = {})
      BY <1>2, <2>1, <2>10 DEF Look, Goto
    <3> QED BY <2>1, <2>2, <2>4, <2>5, <2>7, <3>1, <3>2
  <2>11. CASE MoveControl(q)
    <3>1. at[q] = "control" /\ at'[q] = "admit" BY <1>2, <2>11 DEF MoveControl, Goto
    <3> QED BY <2>1, <2>2, <2>4, <2>5, <2>7, <3>1
  <2>12. CASE Admit(q)
    <3>1. /\ at[q] = "admit" /\ at'[q] = "write" /\ e \notin completed
          /\ job'[q].base = Control[e]
      BY <1>2, <2>1, <2>12 DEF Admit, Entitled, Job
    <3> QED BY <2>1, <2>2, <2>4, <2>5, <2>6, <2>7, <3>1
  <2>13. CASE WriteRun(q) \/ EndRun(q)
    <3>1. at[q] \in {"write", "run"} /\ at'[q] \in {"run", "complete"}
      BY <1>2, <2>1, <2>13 DEF WriteRun, EndRun, Goto
    <3> QED BY <2>1, <2>2, <2>4, <2>7, <3>1
  <2> QED BY <1>4, <1>6, <2>1, <2>8, <2>9, <2>10, <2>11, <2>12, <2>13, TakeMoves
<1> QED BY <1>5, <1>6

(* The RUNs of handoffs stay the RUNs of live ones, one for each. *)
LEMMA ReservedKept ==
  ASSUME Reviewed, IInv, [Next]_vars PROVE Reserved'
<1>1. TypeOK /\ Working /\ Taking /\ Reserved /\ NoEdge \notin Edges
  BY IntentAssumption DEF IInv
<1>2. at \in [Procs -> Places] /\ job \in [Procs -> Job]
      /\ runs \in [RunIds -> Run \cup {NoRun}] /\ NoRun \notin Run
  BY <1>1, RunAssumption DEF TypeOK
<1>3. ASSUME NEW e \in Live \cap Ran PROVE e \in Live'
  <2>1. ASSUME NEW p \in Procs, Supersede(p) PROVE job[p].edge # e
    <3>1. job[p].op = "recover" /\ at[p] = "supersede" BY <2>1, SupersedeFacts
    <3>2. job[p].edge \notin Ran BY <3>1, RecoverFacts
    <3> QED BY <1>3, <3>2
  <2> QED BY <1>3, <2>1, StaysLive
<1>4. consumed \subseteq consumed' BY Grows
<1>5. ASSUME NEW r \in RunIds, runs[r] = NoRun, runs'[r] # NoRun, runs'[r].by # NoEdge
      PROVE  /\ runs'[r].by \in Live' /\ runs'[r].by \in consumed'
             /\ runs'[r].base = Control[runs'[r].by] /\ runs'[r].task = Task[runs'[r].by]
             /\ runs'[r].by \notin Ran
             /\ \A q \in RunIds \ {r} : runs'[q] = runs[q]
  <2>1. PICK p \in Procs :
          /\ WriteRun(p) /\ at[p] = "write"
          /\ runs'[r].by = job[p].edge /\ runs'[r].base = job[p].base
          /\ job[p].op = "accept" => runs'[r].task = Task[job[p].edge]
          /\ \A q \in RunIds \ {r} : runs'[q] = runs[q]
    BY <1>5, RunMade
  <2>2. job[p].op = "accept"
    BY <1>1, <1>5, <2>1 DEF Working, MakingPlaces, TypeOK, Job, Ops
  <2>3. /\ job[p].edge \in Live /\ job[p].edge \in consumed /\ job[p].edge \notin Ran
        /\ job[p].base = Control[job[p].edge]
    BY <1>1, <2>1, <2>2 DEF Taking
  <2>4. Live' = Live
    <3>1. UNCHANGED record BY <2>1 DEF WriteRun
    <3> QED BY <3>1 DEF record, Live, Pending, Replaced
  <2> QED BY <1>4, <2>1, <2>2, <2>3, <2>4
<1>6. \A r \in Admitted' : /\ runs'[r].by \in Live' /\ runs'[r].by \in consumed'
                           /\ runs'[r].base = Control[runs'[r].by]
                           /\ runs'[r].task = Task[runs'[r].by]
  <2>1. SUFFICES ASSUME NEW r \in RunIds, runs'[r] # NoRun, runs'[r].by # NoEdge
                 PROVE  /\ runs'[r].by \in Live' /\ runs'[r].by \in consumed'
                        /\ runs'[r].base = Control[runs'[r].by]
                        /\ runs'[r].task = Task[runs'[r].by]
    BY DEF Admitted
  <2>2. CASE runs[r] = NoRun BY <1>5, <2>1, <2>2
  <2>3. CASE runs[r] # NoRun
    <3>1. /\ runs'[r].by = runs[r].by /\ runs'[r].base = runs[r].base
          /\ runs'[r].task = runs[r].task
      BY <2>3, RunKept
    <3>2. r \in Admitted /\ runs[r].by \in Ran BY <2>1, <2>3, <3>1 DEF Ran, Admitted
    <3> QED BY <1>1, <1>3, <1>4, <3>1, <3>2 DEF Reserved
  <2> QED BY <2>2, <2>3
<1>7. \A q, r \in Admitted' : runs'[q].by = runs'[r].by => q = r
  <2>1. SUFFICES ASSUME NEW q \in RunIds, NEW r \in RunIds, q # r,
                        runs'[q] # NoRun, runs'[q].by # NoEdge,
                        runs'[r] # NoRun, runs'[r].by = runs'[q].by
                 PROVE  FALSE
    BY DEF Admitted
  <2>2. ASSUME NEW x \in {q, r}, runs[x] # NoRun
        PROVE  x \in Admitted /\ runs[x].by = runs'[x].by /\ runs'[x].by \in Ran
    BY <2>1, <2>2, RunKept DEF Ran, Admitted
  <2>3. runs[q] # NoRun \/ runs[r] # NoRun BY <1>5, <2>1
  <2>4. CASE runs[q] = NoRun BY <1>5, <2>1, <2>2, <2>3, <2>4
  <2>5. CASE runs[r] = NoRun BY <1>5, <2>1, <2>2, <2>3, <2>5
  <2>6. CASE runs[q] # NoRun /\ runs[r] # NoRun BY <1>1, <2>1, <2>2, <2>6 DEF Reserved
  <2> QED BY <2>4, <2>5, <2>6
<1>8. ASSUME NEW p \in Procs, at'[p] = "run"
      PROVE  /\ job'[p].run \in RunIds /\ runs'[job'[p].run] # NoRun
             /\ runs'[job'[p].run].status = "ACTIVE"
  <2>1. CASE WriteRun(p) BY <1>2, <2>1 DEF WriteRun, Run, Job
  <2>2. CASE ~WriteRun(p)
    <3>1. at[p] = "run" /\ job'[p] = job[p]
      <4>1. CASE Step(p)
        BY <1>2, <1>8, <2>2, <4>1
        DEF Step, Transport, StageStart, RecoverStart, TakeRepo, MakeStorage, OwnStorage,
            CloneControl, Allocate, Bind, Publish, Announce, MarkNew, Supersede, Leave, Goto, Begin,
            Rest, Execution, AcceptStart, PrimaryStart, Consume, Look, MoveControl, Admit,
            EndRun, Complete, Fail, Die
      <4>2. ASSUME NEW q \in Procs, q # p, Step(q) PROVE at'[p] = at[p] /\ job'[p] = job[p]
        BY <1>1, <4>2, StepFrame
      <4> QED BY <1>8, <4>1, <4>2, Cases, OutsideFrame DEF place
    <3>2. job[p].run \in RunIds /\ runs[job[p].run] # NoRun /\ runs[job[p].run].status = "ACTIVE"
      BY <1>1, <3>1 DEF Reserved
    <3>3. ASSUME NEW q \in Procs, EndRun(q) PROVE FALSE
      <4>1. q = p BY <3>1, <3>3, Exclusive DEF EndRun, RepoPlaces
      <4> QED BY <1>2, <1>8, <3>3, <4>1 DEF EndRun, Goto, Rest
    <3>4. ASSUME NEW r \in RunIds, Reconcile(r) PROVE FALSE
      <4>1. repo = p BY <3>1 DEF IInv, Locking, RepoPlaces
      <4> QED BY <3>4, <4>1, IntentAssumption DEF Reconcile
    <3>5. ASSUME NEW q \in Procs, WriteRun(q) PROVE FALSE
      <4>1. q = p BY <3>1, <3>5, Exclusive DEF WriteRun, RepoPlaces
      <4> QED BY <2>2, <3>5, <4>1
    <3> QED BY <3>1, <3>2, <3>3, <3>4, <3>5, RunsFrame
  <2> QED BY <2>1, <2>2
<1> QED BY <1>6, <1>7, <1>8 DEF Reserved

(* The transports of what is published stay bound. *)
LEMMA BoundKept ==
  ASSUME Reviewed, IInv, [Next]_vars PROVE Bound'
<1>1. TypeOK /\ Working /\ Bound /\ Rebinding /\ NoEdge \notin Edges
  BY IntentAssumption DEF IInv
<1>2. /\ at \in [Procs -> Places] /\ job \in [Procs -> Job] /\ marker \subseteq Edges
      /\ transport \in [Edges -> {"none", "partial", "bound"}]
  BY <1>1 DEF TypeOK
<1>3. \A q \in Procs : at[q] \in {"bind", "publish", "mark"} =>
        at[q] \in RepoPlaces /\ job[q].op \in {"stage", "recover"}
  BY <1>1 DEF RepoPlaces, MakingPlaces, Working, TakenPlaces, TypeOK, Job, Ops
<1>4. ASSUME UNCHANGED <<marker, transport>>,
             NEW q \in Procs, at'[q] \in {"publish", "mark", "bind"},
             at'[q] = at[q], job'[q] = job[q]
      PROVE  /\ at'[q] \in {"publish", "mark"} => transport'[Subject(q)'] = "bound"
             /\ at'[q] = "bind" => Subject(q)' \notin marker'
  BY <1>1, <1>4 DEF Bound, Subject
<1>5. CASE ~(\E p \in Procs : Step(p))
  BY <1>1, <1>5, Cases, OutsideFrame DEF Bound, Subject, place, record, storage
<1>6. ASSUME NEW p \in Procs, Step(p),
             /\ UNCHANGED <<marker, transport>>
             /\ at'[p] \notin {"publish", "mark", "bind"}
             /\ at'[p] = "leave" => at[p] = "leave" /\ job'[p] = job[p]
      PROVE  Bound'
  <2>1. \A q \in Procs : q # p => at'[q] = at[q] /\ job'[q] = job[q] BY <1>1, <1>6, StepFrame
  <2> QED BY <1>1, <1>6, <2>1 DEF Bound, Subject
<1>7. ASSUME NEW p \in Procs, Transport(p) PROVE Bound'
  <2>1. CASE Allocate(p)
    <3>1. /\ Subject(p) \in Edges /\ transport[Subject(p)] = "none"
          /\ transport' = [transport EXCEPT ![Subject(p)] = "partial"]
          /\ at'[p] = "bind" /\ UNCHANGED <<marker, job>> /\ at[p] = "bundle"
          /\ \A q \in Procs : q # p => at'[q] = at[q]
      BY <1>1, <1>2, <2>1 DEF Allocate, Goto, record, Subject, Working, TypeOK, Job, Ops,
         TakenPlaces
    <3>2. \A q \in Procs : q # p => at'[q] \notin {"bind", "publish", "mark"}
      BY <1>3, <3>1, Exclusive DEF RepoPlaces, MakingPlaces
    <3>3. Subject(p) \notin marker BY <1>1, <3>1 DEF Bound
    <3>4. Subject(p)' = Subject(p) BY <3>1 DEF Subject
    <3> QED BY <1>1, <1>2, <3>1, <3>2, <3>3, <3>4 DEF Bound
  <2>2. CASE Bind(p)
    <3>1. /\ Subject(p) \in Edges /\ transport' = [transport EXCEPT ![Subject(p)] = "bound"]
          /\ at'[p] = "publish" /\ UNCHANGED <<marker, job>> /\ at[p] = "bind"
          /\ \A q \in Procs : q # p => at'[q] = at[q]
      BY <1>1, <1>2, <2>2 DEF Bind, Goto, record, Subject, Working, TypeOK, Job, Ops, TakenPlaces
    <3>2. \A q \in Procs : q # p => at'[q] \notin {"bind", "publish", "mark"}
      BY <1>3, <3>1, Exclusive DEF RepoPlaces, MakingPlaces
    <3>3. Subject(p)' = Subject(p) BY <3>1 DEF Subject
    <3> QED BY <1>1, <1>2, <3>1, <3>2, <3>3 DEF Bound
  <2>3. CASE Publish(p)
    <3>1. /\ job[p].op = "stage" /\ marker' = marker \cup {job[p].edge} /\ at[p] = "publish"
          /\ at'[p] = "leave" /\ UNCHANGED <<transport, job>>
          /\ \A q \in Procs : q # p => at'[q] = at[q]
      BY <1>2, <2>3 DEF Publish, Goto, storage
    <3>2. transport[job[p].edge] = "bound" BY <1>1, <3>1 DEF Bound, Subject
    <3>3. \A q \in Procs : at'[q] \notin {"bind", "publish", "mark"}
      BY <1>3, <3>1, Exclusive DEF RepoPlaces, MakingPlaces
    <3> QED BY <1>1, <3>1, <3>2, <3>3 DEF Bound
  <2>4. CASE Announce(p)
    <3>1. /\ at[p] = "publish" /\ at'[p] = "mark" /\ UNCHANGED <<transport, marker, job>>
          /\ \A q \in Procs : q # p => at'[q] = at[q]
      BY <1>2, <2>4 DEF Announce, Goto, storage
    <3> QED BY <1>1, <3>1 DEF Bound, Subject
  <2>5. CASE MarkNew(p)
    <3>1. /\ job[p].op = "recover" /\ marker' = marker \cup {job[p].new} /\ at[p] = "mark"
          /\ at'[p] = "supersede" /\ UNCHANGED <<transport, job>>
          /\ \A q \in Procs : q # p => at'[q] = at[q]
      BY <1>2, <2>5, MarkFacts DEF MarkNew, Goto, storage
    <3>2. transport[job[p].new] = "bound" BY <1>1, <3>1 DEF Bound, Subject
    <3>3. \A q \in Procs : at'[q] \notin {"bind", "publish", "mark"}
      BY <1>3, <3>1, Exclusive DEF RepoPlaces, MakingPlaces
    <3> QED BY <1>1, <3>1, <3>2, <3>3 DEF Bound
  <2>6. CASE Supersede(p)
    <3>1. /\ job[p].op = "recover" /\ at'[p] = "leave" /\ UNCHANGED <<transport, marker, job>>
          /\ \A q \in Procs : q # p => at'[q] = at[q]
      BY <1>2, <2>6, SupersedeFacts DEF Supersede, Goto, storage
    <3> QED BY <1>1, <3>1 DEF Bound, Subject
  <2>7. CASE \/ \E e \in Edges : StageStart(p, e)
             \/ \E old, new \in Edges : RecoverStart(p, old, new)
             \/ TakeRepo(p) \/ MakeStorage(p) \/ OwnStorage(p) \/ CloneControl(p) \/ Leave(p)
    <3>1. /\ UNCHANGED <<marker, transport>> /\ at'[p] \notin {"publish", "mark", "bind", "leave"}
      BY <1>2, <2>7 DEF StageStart, RecoverStart, TakeRepo, MakeStorage, OwnStorage, CloneControl,
         Leave, Goto, Begin, Rest, record, storage
    <3> QED BY <1>6, <1>7, <3>1 DEF Step
  <2> QED BY <1>7, <2>1, <2>2, <2>3, <2>4, <2>5, <2>6, <2>7 DEF Transport
<1>8. ASSUME NEW p \in Procs, Execution(p) PROVE Bound'
  <2>1. /\ UNCHANGED <<marker, transport>> /\ at'[p] \notin {"publish", "mark", "bind", "leave"}
    BY <1>2, <1>8 DEF Execution, AcceptStart, PrimaryStart, Consume, Look, MoveControl, Admit,
       WriteRun, EndRun, Complete, Goto, Begin, Rest, record, storage
  <2> QED BY <1>6, <1>8, <2>1 DEF Step
<1>9. ASSUME NEW p \in Procs, Fail(p) \/ Die(p) PROVE Bound'
  <2>1. marker' = marker /\ at'[p] = "idle" /\ \A q \in Procs : q # p => at'[q] = at[q] /\ job'[q] = job[q]
    BY <1>2, <1>9 DEF Fail, Die, Rest, record
  <2>2. CASE transport' = transport BY <1>6, <1>9, <2>1, <2>2 DEF Step
  <2>3. CASE transport' # transport
    <3>1. /\ at[p] \in {"bind", "publish", "mark", "supersede"} /\ Subject(p) \notin marker
          /\ transport' = [transport EXCEPT ![Subject(p)] = "none"]
      BY <1>9, <2>3 DEF Fail, Die, storage
    <3>2. \A q \in Procs : at'[q] \notin {"bind", "publish", "mark"}
      BY <1>3, <2>1, <3>1, Exclusive DEF RepoPlaces, MakingPlaces
    <3>3. \A e \in marker : transport'[e] = transport[e] BY <1>2, <3>1
    <3>4. \A q \in Procs : (job'[q].op = "stage" /\ at'[q] = "leave") => job'[q].edge \in marker
      BY <1>1, <2>1 DEF Bound
    <3> QED BY <1>1, <2>1, <3>2, <3>3, <3>4 DEF Bound
  <2> QED BY <2>2, <2>3
<1> QED BY <1>5, <1>7, <1>8, <1>9 DEF Step

Cloned == {"bundle", "bind", "publish", "mark", "supersede", "leave"}

(* The control clone is there while its maker works, and is removed by it. *)
LEMMA CloneKept ==
  ASSUME Reviewed, IInv, [Next]_vars, faults' = 0, control'
  PROVE  \E p \in Procs : at'[p] \in Cloned
<1>1. TypeOK /\ Working /\ MaxFaults \in Nat BY IntentAssumption DEF IInv
<1>2. /\ at \in [Procs -> Places] /\ control \in BOOLEAN /\ faults \in 0 .. MaxFaults
  BY <1>1 DEF TypeOK
<1>3. CASE control
  <2>1. ASSUME NEW p \in Procs, Die(p) PROVE FALSE BY <1>1, <1>2, <2>1 DEF Die
  <2>2. faults = 0
    <3>1. CASE UNCHANGED faults BY <3>1
    <3>2. CASE ~UNCHANGED faults
      <4>1. PICK p \in Procs : Step(p) BY <3>2, Cases, OutsideFrame
      <4> QED BY <2>1, <3>2, <4>1
              DEF Step, Transport, StageStart, RecoverStart, TakeRepo, MakeStorage, OwnStorage,
                  CloneControl, Allocate, Bind, Publish, Announce, MarkNew, Supersede, Leave,
                  Execution, AcceptStart, PrimaryStart, Consume, Look, MoveControl, Admit, WriteRun,
                  EndRun, Complete, Fail
    <3> QED BY <3>1, <3>2
  <2>3. PICK q \in Procs : at[q] \in Cloned BY <1>3, <2>2 DEF IInv, Tidy, Cloned
  <2>4. at[q] \in RepoPlaces BY <2>3 DEF Cloned, RepoPlaces, MakingPlaces
  <2>5. CASE Step(q)
    <3>1. CASE Leave(q) BY <3>1 DEF Leave
    <3>2. CASE Fail(q) BY <2>3, <3>2 DEF Fail, Cloned
    <3>3. CASE Publish(q) \/ Announce(q) \/ MarkNew(q) \/ Supersede(q) \/ Allocate(q) \/ Bind(q)
      BY <1>2, <3>3 DEF Publish, Announce, MarkNew, Supersede, Allocate, Bind, Goto, Cloned
    <3>4. CASE \/ \E e \in Edges : StageStart(q, e)
               \/ \E old, new \in Edges : RecoverStart(q, old, new)
               \/ TakeRepo(q) \/ MakeStorage(q) \/ OwnStorage(q) \/ CloneControl(q)
      BY <2>3, <3>4 DEF StageStart, RecoverStart, TakeRepo, MakeStorage, OwnStorage,
         CloneControl, Begin, Cloned
    <3>5. CASE Execution(q)
      BY <2>3, <3>5 DEF Execution, AcceptStart, PrimaryStart, Consume, Look, MoveControl, Admit,
         WriteRun, EndRun, Complete, Begin, Cloned
    <3> QED BY <2>1, <2>5, <3>1, <3>2, <3>3, <3>4, <3>5 DEF Step, Transport
  <2>6. CASE ~Step(q)
    <3>1. ASSUME NEW p \in Procs, p # q, Step(p) PROVE at'[q] = at[q] BY <1>1, <3>1, StepFrame
    <3>2. at'[q] = at[q] BY <2>6, <3>1, Cases, OutsideFrame DEF place
    <3> QED BY <2>3, <3>2
  <2> QED BY <2>5, <2>6
<1>4. CASE ~control
  <2>1. ~UNCHANGED control BY <1>4
  <2>2. PICK p \in Procs : Step(p) BY <2>1, Cases, OutsideFrame DEF storage
  <2>3. CASE Transport(p)
    <3>1. CloneControl(p)
      BY <1>4, <2>1, <2>3 DEF Transport, StageStart, RecoverStart, TakeRepo, MakeStorage, OwnStorage,
         Allocate, Bind, Publish, Announce, MarkNew, Supersede, Leave, storage
    <3> QED BY <1>2, <3>1 DEF CloneControl, Goto, Cloned
  <2>4. CASE Execution(p)
    BY <2>1, <2>4 DEF Execution, AcceptStart, PrimaryStart, Consume, Look, MoveControl, Admit,
       WriteRun, EndRun, Complete, storage
  <2>5. CASE Fail(p) \/ Die(p) BY <1>4, <2>1, <2>5 DEF Fail, Die, storage
  <2> QED BY <2>2, <2>3, <2>4, <2>5 DEF Step
<1> QED BY <1>3, <1>4

(* A transport is published, announced, or in the making. *)
LEMMA TransportKept ==
  ASSUME Reviewed, IInv, [Next]_vars, faults' = 0, NEW e \in Edges, transport'[e] # "none"
  PROVE  \/ e \in marker' \/ predecessor'[e] # NoEdge
         \/ \E p \in Procs : at'[p] \in {"bind", "publish"} /\ Subject(p)' = e
<1>1. TypeOK /\ Working /\ Rebinding /\ MaxFaults \in Nat /\ NoEdge \notin Edges
  BY IntentAssumption DEF IInv
<1>2. /\ at \in [Procs -> Places] /\ job \in [Procs -> Job] /\ faults \in 0 .. MaxFaults
      /\ transport \in [Edges -> {"none", "partial", "bound"}]
      /\ predecessor \in [Edges -> Edges \cup {NoEdge}]
  BY <1>1 DEF TypeOK
<1>3. ASSUME NEW p \in Procs, Die(p) PROVE FALSE BY <1>1, <1>2, <1>3 DEF Die
<1>4. faults = 0
  <2>1. CASE ~UNCHANGED faults
    <3>1. PICK p \in Procs : Step(p) BY <2>1, Cases, OutsideFrame
    <3> QED BY <1>3, <2>1, <3>1
            DEF Step, Transport, StageStart, RecoverStart, TakeRepo, MakeStorage, OwnStorage,
                CloneControl, Allocate, Bind, Publish, Announce, MarkNew, Supersede, Leave,
                Execution, AcceptStart, PrimaryStart, Consume, Look, MoveControl, Admit, WriteRun,
                EndRun, Complete, Fail
  <2> QED BY <2>1
<1>5. e \in marker => e \in marker' BY Grows
<1>6. predecessor[e] # NoEdge => predecessor'[e] # NoEdge
  <2>1. CASE UNCHANGED predecessor BY <2>1
  <2>2. ASSUME NEW p \in Procs, Announce(p) PROVE predecessor'[e] = predecessor[e] \/ predecessor'[e] # NoEdge
    <3>1. job[p].edge # NoEdge BY <1>1, <2>2, RecoverFacts, AnnounceFacts
    <3> QED BY <1>2, <2>2, <3>1 DEF Announce
  <2> QED BY <2>1, <2>2, RecordFrame DEF record, Publish, MarkNew, Supersede, Consume, Complete
<1>7. CASE transport[e] = "none"
  <2>1. ~UNCHANGED transport BY <1>7
  <2>2. PICK p \in Procs : Step(p) BY <2>1, Cases, OutsideFrame DEF storage
  <2>3. CASE Allocate(p)
    <3>1. Subject(p) = e BY <1>2, <1>7, <2>3 DEF Allocate
    <3>2. at'[p] = "bind" /\ job' = job BY <1>2, <2>3 DEF Allocate, Goto
    <3> QED BY <3>1, <3>2 DEF Subject
  <2>4. CASE Bind(p)
    <3>1. Subject(p) = e BY <1>2, <1>7, <2>4 DEF Bind
    <3>2. at'[p] = "publish" /\ job' = job BY <1>2, <2>4 DEF Bind, Goto
    <3> QED BY <3>1, <3>2 DEF Subject
  <2>5. CASE Fail(p) BY <1>2, <1>7, <2>5 DEF Fail
  <2>6. ~Transport(p) \/ Allocate(p) \/ Bind(p)
    BY <2>1 DEF Transport, StageStart, RecoverStart, TakeRepo, MakeStorage, OwnStorage,
       CloneControl, Publish, Announce, MarkNew, Supersede, Leave, storage
  <2>7. ~Execution(p)
    BY <2>1 DEF Execution, AcceptStart, PrimaryStart, Consume, Look, MoveControl, Admit,
       WriteRun, EndRun, Complete, storage
  <2> QED BY <1>3, <2>2, <2>3, <2>4, <2>5, <2>6, <2>7 DEF Step
<1>8. CASE transport[e] # "none" /\ e \notin marker /\ predecessor[e] = NoEdge
  <2>1. PICK q \in Procs : at[q] \in {"bind", "publish"} /\ Subject(q) = e
    BY <1>4, <1>8 DEF IInv, Tidy
  <2>2. job[q].op \in {"stage", "recover"}
    BY <1>1, <2>1 DEF Working, TakenPlaces, TypeOK, Job, Ops
  <2>3. CASE Bind(q)
    <3>1. at'[q] = "publish" /\ job' = job BY <1>2, <2>3 DEF Bind, Goto
    <3> QED BY <2>1, <3>1 DEF Subject
  <2>4. CASE Publish(q)
    BY <2>1, <2>4, PublishFacts DEF Publish, Subject
  <2>5. CASE Announce(q)
    <3>1. job[q].edge # NoEdge /\ job[q].new = e BY <1>1, <2>1, <2>5, RecoverFacts DEF Announce, Subject
    <3> QED BY <1>2, <2>5, <3>1 DEF Announce
  <2>6. CASE Fail(q) BY <1>2, <1>8, <2>1, <2>6 DEF Fail
  <2>7. CASE Step(q) /\ ~(Bind(q) \/ Publish(q) \/ Announce(q) \/ Fail(q))
    <3>1. ~Transport(q)
      BY <2>1, <2>7 DEF Transport, StageStart, RecoverStart, TakeRepo, MakeStorage, OwnStorage,
         CloneControl, Allocate, MarkNew, Supersede, Leave, Begin
    <3>2. ~Execution(q)
      BY <2>1 DEF Execution, AcceptStart, PrimaryStart, Consume, Look, MoveControl, Admit,
         WriteRun, EndRun, Complete, Begin
    <3> QED BY <1>3, <2>7, <3>1, <3>2 DEF Step
  <2>8. CASE ~Step(q)
    <3>1. ASSUME NEW p \in Procs, p # q, Step(p) PROVE at'[q] = at[q] /\ job'[q] = job[q]
      BY <1>1, <3>1, StepFrame
    <3>2. at'[q] = at[q] /\ job'[q] = job[q] BY <2>8, <3>1, Cases, OutsideFrame DEF place
    <3> QED BY <2>1, <3>2 DEF Subject
  <2> QED BY <2>3, <2>4, <2>5, <2>6, <2>7, <2>8
<1> QED BY <1>5, <1>6, <1>7, <1>8

(* Without deaths nothing is left behind. *)
LEMMA TidyKept ==
  ASSUME Reviewed, IInv, [Next]_vars PROVE Tidy'
BY CloneKept, TransportKept DEF Tidy, Cloned

(* An ordinary PRIMARY is not overtaken by a handoff. *)
LEMMA BarredKept ==
  ASSUME Reviewed, IInv, [Next]_vars PROVE BarredWhileOpen'
<1>1. TypeOK /\ Working /\ Behind /\ BarredWhileOpen /\ NoEdge \notin Edges /\ Upgrades \subseteq Edges
  BY IntentAssumption DEF IInv
<1>2. at \in [Procs -> Places] /\ job \in [Procs -> Job] BY <1>1 DEF TypeOK
<1>3. SUFFICES ASSUME NEW q \in Procs, at'[q] \in {"write", "run"}, job'[q].op = "primary",
                      NEW e \in Live'
               PROVE  e \in completed' /\ SourceOf[e] # installed'
  BY DEF BarredWhileOpen
<1>4. CASE at[q] \in {"write", "run"} /\ job[q].op = "primary"
  <2>1. at[q] \in RepoPlaces /\ ~Transfers(q)
    BY <1>4 DEF RepoPlaces, Transfers, Publish, Announce, MarkNew, Supersede
  <2>2. Live' = Live BY <2>1, Undisturbed
  <2>3. UNCHANGED installed
    <3>1. ASSUME NEW p \in Procs, Step(p) PROVE UNCHANGED installed
      BY <3>1 DEF Step, Transport, StageStart, RecoverStart, TakeRepo, MakeStorage, OwnStorage,
         CloneControl, Allocate, Bind, Publish, Announce, MarkNew, Supersede, Leave, env, Execution,
         AcceptStart, PrimaryStart, Consume, Look, MoveControl, Admit, WriteRun, EndRun, Complete,
         Fail, Die
    <3> QED BY <1>4, <3>1, Cases DEF Reconcile, Install, Pull, vars, env
  <2>4. completed \subseteq completed' BY Grows
  <2> QED BY <1>1, <1>3, <1>4, <2>2, <2>3, <2>4 DEF BarredWhileOpen
<1>5. CASE ~(at[q] \in {"write", "run"} /\ job[q].op = "primary")
  <2>1. PrimaryStart(q)
    <3>1. at[q] = "idle"
      <4>1. ASSUME at[q] # "idle" PROVE FALSE
        <5>1. job[q].op = "primary" BY <1>3, <4>1, Continues
        <5> QED BY <1>1, <1>5, <5>1 DEF Working
      <4> QED BY <4>1
    <3>2. Step(q)
      <4>1. ASSUME NEW p \in Procs, p # q, Step(p) PROVE at'[q] = at[q] BY <1>1, <4>1, StepFrame
      <4> QED BY <1>3, <3>1, <4>1, Cases, OutsideFrame DEF place
    <3>3. ~Transport(q)
      BY <1>2, <1>3, <3>1 DEF Transport, StageStart, RecoverStart, TakeRepo, MakeStorage, OwnStorage,
         CloneControl, Allocate, Bind, Publish, Announce, MarkNew, Supersede, Leave, Begin
    <3>4. ~(Fail(q) \/ Die(q)) BY <3>1 DEF Fail, Die
    <3>5. ~(\E x \in Edges : AcceptStart(q, x)) BY <1>2, <1>3 DEF AcceptStart, Begin
    <3> QED BY <3>1, <3>2, <3>3, <3>4, <3>5 DEF Step, Execution, Consume, Look, MoveControl, Admit,
               WriteRun, EndRun, Complete
  <2>2. Clear(installed) /\ UNCHANGED <<record, installed>> BY <2>1 DEF PrimaryStart
  <2>3. Live' = Live /\ completed' = completed BY <2>2 DEF record, Live, Pending, Replaced
  <2>4. LinkedTo(installed) /\ e \in Live BY <1>3, <2>2, <2>3 DEF Clear
  <2>5. SourceOf[e] # installed BY <2>4 DEF LinkedTo
  <2>6. PICK x \in Live : TargetOf[x] = installed /\ x \in completed BY <2>4 DEF LinkedTo
  <2>7. e \in completed
    <3>1. CASE e \notin Upgrades /\ x \notin Upgrades
      BY <2>4, <2>6, <3>1, OneLegacy
    <3>2. CASE e \in Upgrades
      <4>1. e \in marker BY <2>4 DEF Live
      <4>2. x = e \/ TargetOf[x] = SourceOf[e] BY <1>1, <2>6, <3>2, <4>1 DEF Behind
      <4> QED BY <2>5, <2>6, <4>2
    <3>3. CASE x \in Upgrades
      <4>1. x \in marker BY <2>6 DEF Live
      <4> QED BY <1>1, <2>4, <2>6, <3>3, <4>1 DEF Behind
    <3> QED BY <3>1, <3>2, <3>3
  <2> QED BY <2>2, <2>3, <2>5, <2>7
<1> QED BY <1>4, <1>5

(* A completed handoff keeps its consumption and its fact. *)
LEMMA VerdictKept ==
  ASSUME Reviewed, IInv, [Next]_vars PROVE CompletedHasVerdict'
<1>1. Chained' BY ChainedKept
<1>2. SUFFICES ASSUME NEW e \in completed' PROVE \E r \in Matches(e)' : Verdict(r)'
  BY <1>1 DEF CompletedHasVerdict, Chained
<1>3. ASSUME NEW r \in Matches(e), Verdict(r) PROVE r \in Matches(e)' /\ Verdict(r)'
  BY <1>3, RunKept DEF Matches
<1>4. CASE e \in completed BY <1>3, <1>4 DEF IInv, CompletedHasVerdict
<1>5. CASE e \notin completed
  <2>1. PICK p \in Procs : Complete(p) /\ job[p].edge = e BY <1>5, CompletedBy
  <2> QED BY <1>3, <2>1 DEF Complete
<1> QED BY <1>4, <1>5

-----------------------------------------------------------------------------
(* Theorems *)

(* Every step of the operator keeps the invariant. *)
THEOREM Invariance ==
  ASSUME Reviewed PROVE Spec => []IInv
<1>1. Init => IInv BY Initially
<1>2. IInv /\ [Next]_vars => IInv'
  BY Typing, WorkingKept, LockingKept, ChainedKept, LineageKept, BehindKept, RebindingKept,
     TakingKept, ReservedKept, BoundKept, TidyKept, BarredKept, VerdictKept DEF IInv
<1> QED BY <1>1, <1>2, PTL DEF Spec

(* What the files, locks and processes hold has its type. *)
THEOREM TypeCorrect == ASSUME Reviewed PROVE Spec => []TypeOK
<1>1. IInv => TypeOK BY DEF IInv
<1> QED BY <1>1, Invariance, PTL

(* Live handoffs leave different generations for different generations. *)
LEMMA LiveDistinct ==
  ASSUME Reviewed, IInv, NEW e \in Live, NEW f \in Live, e # f
  PROVE  SourceOf[e] # SourceOf[f] /\ TargetOf[e] # TargetOf[f]
<1>1. TypeOK /\ Behind BY DEF IInv
<1>2. /\ \A x \in Edges : SourceOf[x] # TargetOf[x]
      /\ Upgrades \subseteq Edges
  BY IntentAssumption
<1>3. e \in Edges /\ f \in Edges /\ e \in marker /\ f \in marker BY <1>1 DEF Live, TypeOK
<1>4. e \in Upgrades \/ f \in Upgrades BY OneLegacy
<1>5. ASSUME NEW x \in Live, NEW u \in Live, u \in Upgrades, x # u, x \in Edges, u \in marker
      PROVE  TargetOf[x] = SourceOf[u] /\ SourceOf[x] # SourceOf[u]
  BY <1>1, <1>5 DEF Behind, Reviewed, OneUpgrade
<1>6. CASE f \in Upgrades
  <2>1. TargetOf[e] = SourceOf[f] /\ SourceOf[e] # SourceOf[f] BY <1>3, <1>5, <1>6
  <2> QED BY <1>2, <1>3, <2>1
<1>7. CASE e \in Upgrades
  <2>1. TargetOf[f] = SourceOf[e] /\ SourceOf[f] # SourceOf[e] BY <1>3, <1>5, <1>7
  <2> QED BY <1>2, <1>3, <2>1
<1> QED BY <1>4, <1>6, <1>7

(* Every operation accepts the history on disk, whatever died and whatever
   ran beside it. *)
THEOREM ReadableAlways == ASSUME Reviewed PROVE Spec => []HistoryReadable
<1>1. IInv => HistoryReadable
  <2>1. SUFFICES ASSUME IInv PROVE Readable BY DEF HistoryReadable
  <2>2. TypeOK /\ Chained /\ Bound /\ NoEdge \notin Edges
    BY <2>1, IntentAssumption DEF IInv
  <2>3. ASSUME NEW n \in Edges, predecessor[n] # NoEdge
        PROVE  /\ <<predecessor[n], n>> \in Rebinds /\ predecessor[n] \in Edges
               /\ predecessor[n] \in marker \cap consumed
               /\ \A k \in Edges : predecessor[k] = predecessor[n] => k = n
               /\ n \in Pending => n \notin consumed \cup completed
    BY <2>2, <2>3 DEF Chained, TypeOK
  <2>4. ASSUME NEW e \in Edges, superseded[e] # NoEdge
        PROVE  /\ superseded[e] \in marker /\ superseded[e] \in Edges
               /\ predecessor[superseded[e]] = e /\ e \notin completed
               /\ <<e, superseded[e]>> \in Rebinds /\ e \in marker \cap consumed
    <3>1. /\ superseded[e] \in marker /\ superseded[e] \in Edges
          /\ predecessor[superseded[e]] = e /\ e \notin completed
      BY <2>2, <2>4 DEF Chained, TypeOK
    <3> QED BY <2>2, <2>3, <3>1
  <2>5. \A n \in Edges : predecessor[n] # NoEdge => Announced(n, predecessor[n])
    <3>1. SUFFICES ASSUME NEW n \in Edges, predecessor[n] # NoEdge
                   PROVE  Announced(n, predecessor[n])
      OBVIOUS
    <3>2. predecessor[n] # n /\ Version[predecessor[n]] = 2
      BY <2>3, <3>1, RebindFacts
    <3>3. superseded[predecessor[n]] = NoEdge => n \in Pending BY <3>1 DEF Pending
    <3> QED BY <2>3, <3>1, <3>2, <3>3 DEF Announced
  <2>6. \A e \in Replaced : Committed(e, superseded[e])
    <3>1. SUFFICES ASSUME NEW e \in Edges, superseded[e] # NoEdge, e \in marker
                   PROVE  Committed(e, superseded[e])
      BY <2>2 DEF Replaced, TypeOK
    <3>2. PICK new \in Edges : /\ superseded[e] = new /\ new \in marker /\ predecessor[new] = e
                               /\ <<e, new>> \in Rebinds /\ e \in consumed \ completed
      BY <2>4, <3>1
    <3>3. predecessor[e] = NoEdge
      <4>1. \A x : <<x, e>> \notin Rebinds BY <3>2, RebindFacts
      <4> QED BY <2>3, <3>1, <4>1
    <3>4. superseded[new] = NoEdge
      <4>1. \A x : <<new, x>> \notin Rebinds BY <3>2, RebindFacts
      <4> QED BY <2>4, <4>1
    <3>5. new # e BY <3>2, RebindFacts
    <3>6. \A m \in marker : superseded[m] = new => m = e
      <4>1. \A m \in Edges : superseded[m] = new => predecessor[new] = m BY <2>2, <2>4
      <4> QED BY <2>2, <3>2, <4>1 DEF TypeOK
    <3> QED BY <3>2, <3>3, <3>4, <3>5, <3>6 DEF Committed
  <2>7. ASSUME NEW n \in Edges, predecessor[n] # NoEdge, n \notin Pending
        PROVE  predecessor[n] \in Replaced /\ superseded[predecessor[n]] = n
    <3>1. PICK o \in Edges : o = predecessor[n] /\ o \in marker /\ superseded[o] # NoEdge
      BY <2>3, <2>7 DEF Pending
    <3>2. predecessor[superseded[o]] = o /\ superseded[o] \in Edges BY <2>4, <3>1
    <3>3. superseded[o] = n BY <2>3, <2>7, <3>1, <3>2
    <3> QED BY <3>1, <3>3 DEF Replaced
  <2>8. {e \in marker : predecessor[e] # NoEdge}
          = {superseded[e] : e \in Replaced} \cup (Pending \cap marker)
    <3>1. marker \subseteq Edges BY <2>2 DEF TypeOK
    <3>2. ASSUME NEW e \in marker, predecessor[e] # NoEdge, e \notin Pending
          PROVE  \E x \in Replaced : superseded[x] = e
      BY <2>7, <3>1, <3>2
    <3>3. ASSUME NEW e \in Replaced
          PROVE  superseded[e] \in marker /\ predecessor[superseded[e]] # NoEdge
      BY <2>2, <2>4, <3>1 DEF Replaced
    <3>4. \A e \in Pending : predecessor[e] # NoEdge BY DEF Pending
    <3> QED BY <3>2, <3>3, <3>4
  <2>9. \A e \in Edges : /\ superseded[e] # NoEdge => e \in marker
                         /\ predecessor[e] # NoEdge => e \in marker \cup Pending
    <3>1. ASSUME NEW e \in Edges, predecessor[e] # NoEdge, e \notin Pending PROVE e \in marker
      <4>1. superseded[predecessor[e]] = e /\ predecessor[e] \in Replaced BY <2>7, <3>1
      <4>2. predecessor[e] \in Edges /\ superseded[predecessor[e]] # NoEdge
        BY <2>3, <3>1, <4>1 DEF Replaced
      <4> QED BY <2>4, <4>1, <4>2
    <3> QED BY <2>4, <3>1
  <2>10. \A e, f \in Live : e # f => SourceOf[e] # SourceOf[f] /\ TargetOf[e] # TargetOf[f]
    BY <2>1, LiveDistinct
  <2>11. /\ \A e \in marker : transport[e] = "bound"
         /\ consumed \cup completed \subseteq marker
    BY <2>2 DEF Bound, Chained
  <2> QED BY <2>5, <2>6, <2>8, <2>9, <2>10, <2>11 DEF Readable
<1> QED BY <1>1, Invariance, PTL

(* Of the handoffs that leave one generation one RUN is admitted, however
   often their targets are entered and whatever supersedes what. *)
THEOREM OneRunAlways == ASSUME Reviewed PROVE Spec => []OneRunPerGeneration
<1>1. IInv => OneRunPerGeneration
  <2>1. SUFFICES ASSUME IInv, NEW q \in Admitted, NEW r \in Admitted,
                        SourceOf[runs[q].by] = SourceOf[runs[r].by]
                 PROVE  q = r
    BY DEF OneRunPerGeneration
  <2>2. runs[q].by \in Live /\ runs[r].by \in Live BY <2>1 DEF IInv, Reserved
  <2>3. runs[q].by = runs[r].by BY <2>1, <2>2, LiveDistinct
  <2> QED BY <2>1, <2>3 DEF IInv, Reserved
<1> QED BY <1>1, Invariance, PTL

(* While an ordinary PRIMARY works no handoff is open. *)
THEOREM BarredAlways == ASSUME Reviewed PROVE Spec => []BarredWhileOpen
<1>1. IInv => BarredWhileOpen BY DEF IInv
<1> QED BY <1>1, Invariance, PTL

(* A completed handoff was consumed and its RUN has its fact. *)
THEOREM VerdictAlways == ASSUME Reviewed PROVE Spec => []CompletedHasVerdict
<1>1. IInv => CompletedHasVerdict BY DEF IInv
<1> QED BY <1>1, Invariance, PTL

(* Without deaths a refused staging leaves nothing behind. *)
THEOREM CleanAlways == ASSUME Reviewed PROVE Spec => []RefusalIsClean
<1>1. IInv => RefusalIsClean
  <2>1. SUFFICES ASSUME IInv, faults = 0, repo = NoProc
                 PROVE  /\ ~control
                        /\ \A e \in Edges : transport[e] # "none" =>
                             e \in marker \/ predecessor[e] # NoEdge
    BY DEF RefusalIsClean
  <2>2. \A p \in Procs : at[p] \notin RepoPlaces
    BY <2>1, IntentAssumption DEF IInv, Locking
  <2> QED BY <2>1, <2>2 DEF IInv, Tidy, TypeOK, RepoPlaces, MakingPlaces
<1> QED BY <1>1, Invariance, PTL

-----------------------------------------------------------------------------
(* Refinement *)

(* What the files say of one handoff. *)
LEMMA PhaseOf ==
  ASSUME IInv, NEW e \in Edges
  PROVE  /\ Phase[e] = "none" <=> e \notin marker \ Pending
         /\ Phase[e] = "replaced" <=> e \in marker \ Pending /\ superseded[e] # NoEdge
         /\ Phase[e] = "done" <=> e \in Live /\ e \in completed
         /\ Phase[e] = "taken" <=> e \in Live /\ e \in consumed \ completed
         /\ Phase[e] = "offered" <=> e \in Live /\ e \notin consumed
BY DEF Phase, Live, Replaced, IInv, Chained

(* Nothing of it changes while the files do not. *)
LEMMA PhaseStays ==
  ASSUME UNCHANGED <<marker, consumed, completed, Pending>>, superseded' = superseded
  PROVE  Phase' = Phase
BY DEF Phase, Replaced

(* The files implement the succession of generations: a handoff is offered
   when nothing is open, is taken and finished by its target, admits one RUN,
   and is replaced in one step. *)
THEOREM Implements == ASSUME Reviewed PROVE Spec => ImplementsSuccession
<1>1. Init => Handoffs!Init
  <2>1. SUFFICES ASSUME Init PROVE Handoffs!Init OBVIOUS
  <2>2. Phase = [e \in Edges |-> "none"] BY <2>1 DEF Init, Phase
  <2>3. Ran = {} BY <2>1 DEF Init, Ran, Admitted
  <2> QED BY <2>2, <2>3 DEF Handoffs!Init
<1>2. IInv /\ [Next]_vars => [Handoffs!Next]_(Handoffs!vars)
  <2> SUFFICES ASSUME IInv, [Next]_vars
               PROVE  Handoffs!Next \/ (Phase' = Phase /\ Ran' = Ran)
    BY DEF Handoffs!vars
  <2>1. TypeOK /\ NoEdge \notin Edges BY IntentAssumption DEF IInv
  <2>2. \A p \in Procs : Transfers(p) \/ Consume(p) \/ Complete(p) => Ran' = Ran
    BY DEF Transfers, Publish, Announce, MarkNew, Supersede, Consume, Complete, Ran, Admitted
  <2>3. CASE UNCHANGED record
    <3>1. Phase' = Phase BY <2>3 DEF record, Phase, Pending, Replaced
    <3>2. CASE Ran' = Ran BY <3>1, <3>2
    <3>3. CASE Ran' # Ran
      <4>1. PICK e \in Ran' \ Ran : TRUE BY <3>3, RanEffect
      <4>2. PICK p \in Procs : WriteRun(p) /\ at[p] = "write" /\ job[p].op = "accept"
                               /\ job[p].edge = e
        BY <4>1, RanEffect
      <4>3. e \in Live /\ e \in consumed \ completed /\ e \in Edges
        BY <2>1, <4>2 DEF IInv, Taking, Live, TypeOK
      <4>4. \A x \in Ran' \ Ran : x = e
        <5>1. SUFFICES ASSUME NEW x \in Ran' \ Ran PROVE x = e OBVIOUS
        <5>2. PICK q \in Procs : at[q] = "write" /\ job[q].edge = x BY RanEffect
        <5>3. q = p BY <4>2, <5>2, Exclusive DEF RepoPlaces
        <5> QED BY <4>2, <5>2, <5>3
      <4>5. Ran' = Ran \cup {e} BY <4>1, <4>4, RanEffect
      <4>6. Phase[e] = "taken" BY <4>3, PhaseOf
      <4> QED BY <3>1, <4>1, <4>3, <4>5, <4>6 DEF Handoffs!Next, Handoffs!Admit
    <3> QED BY <3>2, <3>3
  <2>4. ASSUME NEW p \in Procs, Publish(p)
        PROVE  Handoffs!Next \/ (Phase' = Phase /\ Ran' = Ran)
    <3>1. PICK e \in Edges \ marker :
            /\ marker' = marker \cup {e} /\ superseded[e] = NoEdge /\ predecessor[e] = NoEdge
            /\ e \notin consumed \cup completed
            /\ UNCHANGED <<consumed, completed, superseded, Pending>>
            /\ \A f \in Live : f \in completed
      BY <2>4, PublishFacts
    <3>2. e \notin Pending BY <3>1 DEF Pending
    <3>3. Phase' = [Phase EXCEPT ![e] = "offered"] /\ Phase[e] = "none"
      BY <3>1, <3>2 DEF Phase, Replaced
    <3>4. Handoffs!Open = {}
      <4>1. ASSUME NEW f \in Edges PROVE Phase[f] \notin {"offered", "taken"}
        BY <3>1, <4>1, PhaseOf DEF IInv, Chained
      <4> QED BY <4>1 DEF Handoffs!Open
    <3> QED BY <2>2, <2>4, <3>3, <3>4 DEF Handoffs!Next, Handoffs!Offer, Transfers
  <2>5. ASSUME NEW p \in Procs, Announce(p) PROVE Phase' = Phase /\ Ran' = Ran
    <3>1. PICK new \in Edges : /\ new \notin marker /\ Pending' = Pending \cup {new}
                               /\ UNCHANGED <<marker, consumed, completed, superseded>>
      BY <2>5, AnnounceFacts, RecoverFacts
    <3>2. Phase' = Phase BY <3>1 DEF Phase, Replaced
    <3> QED BY <2>2, <2>5, <3>2 DEF Transfers
  <2>6. ASSUME NEW p \in Procs, MarkNew(p) PROVE Phase' = Phase /\ Ran' = Ran
    <3>1. PICK new \in Edges : /\ new \in Pending /\ marker' = marker \cup {new}
                               /\ UNCHANGED <<consumed, completed, superseded, Pending>>
      BY <2>6, MarkFacts, RecoverFacts
    <3>2. Phase' = Phase BY <3>1 DEF Phase, Replaced
    <3> QED BY <2>2, <2>6, <3>2 DEF Transfers
  <2>7. ASSUME NEW p \in Procs, Supersede(p)
        PROVE  Handoffs!Next \/ (Phase' = Phase /\ Ran' = Ran)
    <3>1. PICK old \in Edges, new \in Edges :
            /\ job[p].edge = old /\ job[p].new = new
            /\ job[p].op = "recover" /\ at[p] = "supersede"
      BY <2>7, SupersedeFacts, RecoverFacts
    <3>2. /\ new \in marker /\ new \in Pending /\ new \notin consumed \cup completed
          /\ superseded[new] = NoEdge
          /\ superseded' = [superseded EXCEPT ![old] = new]
          /\ UNCHANGED <<marker, consumed, completed>> /\ Pending' = Pending \ {new}
      BY <2>7, <3>1, SupersedeFacts
    <3>3. old \in Live /\ old \in consumed \ completed /\ old \notin Ran /\ old # new
          /\ old \in marker
      BY <3>1, RecoverFacts
    <3>4. Phase[old] = "taken" /\ Phase[new] = "none" BY <3>2, <3>3, PhaseOf
    <3>5. /\ superseded'[old] = new /\ new # NoEdge
          /\ \A x \in Edges \ {old} : superseded'[x] = superseded[x]
      BY <2>1, <3>2 DEF TypeOK
    <3>6. Replaced' = Replaced \cup {old} BY <2>1, <3>2, <3>3, <3>5 DEF Replaced, TypeOK
    <3>7. old \notin Pending BY <3>3 DEF Live
    <3>8. new \notin Replaced BY <3>2 DEF Replaced
    <3>9. Phase' = [Phase EXCEPT ![old] = "replaced", ![new] = "offered"]
      <4>1. ASSUME NEW x \in Edges, x # old, x # new PROVE Phase'[x] = Phase[x]
        BY <3>2, <3>6, <4>1 DEF Phase
      <4>2. Phase'[old] = "replaced" BY <3>2, <3>3, <3>6, <3>7 DEF Phase
      <4>3. Phase'[new] = "offered" BY <3>2, <3>3, <3>6, <3>8 DEF Phase
      <4>4. Phase = [x \in Edges |-> Phase[x]] /\ Phase' = [x \in Edges |-> Phase'[x]]
        BY DEF Phase
      <4> HIDE DEF Phase
      <4> QED BY <3>3, <4>1, <4>2, <4>3, <4>4
    <3> QED BY <2>2, <2>7, <3>3, <3>4, <3>9 DEF Handoffs!Next, Handoffs!Replace, Transfers
  <2>8. ASSUME NEW p \in Procs, Consume(p)
        PROVE  Handoffs!Next \/ (Phase' = Phase /\ Ran' = Ran)
    <3>1. PICK e \in Edges : /\ e \in Live /\ consumed' = consumed \cup {e}
                             /\ UNCHANGED <<marker, completed, superseded, Pending>>
      BY <2>1, <2>8, TargetFacts DEF Live, TypeOK, Consume
    <3>2. e \in marker \ Pending /\ e \notin Replaced BY <3>1 DEF Live
    <3>3. CASE e \in consumed
      <4>1. Phase' = Phase BY <3>1, <3>3, PhaseStays
      <4> QED BY <2>2, <2>8, <4>1
    <3>4. CASE e \notin consumed
      <4>1. e \notin completed BY <3>4 DEF IInv, Chained
      <4>2. Phase' = [Phase EXCEPT ![e] = "taken"] /\ Phase[e] = "offered"
        BY <3>1, <3>2, <3>4, <4>1 DEF Phase, Replaced
      <4> QED BY <2>2, <2>8, <4>2 DEF Handoffs!Next, Handoffs!Take
    <3> QED BY <3>3, <3>4
  <2>9. ASSUME NEW p \in Procs, Complete(p)
        PROVE  Handoffs!Next \/ (Phase' = Phase /\ Ran' = Ran)
    <3>1. PICK e \in Edges : /\ e \in Live /\ completed' = completed \cup {e} /\ e \in consumed
                             /\ UNCHANGED <<marker, consumed, superseded, Pending>>
      BY <2>1, <2>9, TargetFacts DEF Live, TypeOK, Complete
    <3>2. e \in marker \ Pending /\ e \notin Replaced BY <3>1 DEF Live
    <3>3. CASE e \in completed
      <4>1. Phase' = Phase BY <3>1, <3>3, PhaseStays
      <4> QED BY <2>2, <2>9, <4>1
    <3>4. CASE e \notin completed
      <4>1. Phase' = [Phase EXCEPT ![e] = "done"] /\ Phase[e] = "taken"
        BY <3>1, <3>2, <3>4 DEF Phase, Replaced
      <4> QED BY <2>2, <2>9, <4>1 DEF Handoffs!Next, Handoffs!Finish
    <3> QED BY <3>3, <3>4
  <2> QED BY <2>3, <2>4, <2>5, <2>6, <2>7, <2>8, <2>9, RecordFrame
<1> QED BY <1>1, <1>2, Invariance, PTL DEF Spec, ImplementsSuccession, Handoffs!Spec

=============================================================================
