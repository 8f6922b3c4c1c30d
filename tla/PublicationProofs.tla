-------------------------- MODULE PublicationProofs --------------------------
(* Safety of PublicationGate for any jobs, RUNs, TASKs and lifetimes. *)
EXTENDS PublicationGate, TLAPS

-----------------------------------------------------------------------------
(* The inductive invariant, in named parts; most are about one job. *)

AboutRun == {"submit", "replay", "publish", "recover"}
Moving == {"publish", "author"}
Stages == {"admit", "source", "verify", "record", "transport"}
Waiting == {"reserve", "recheck", "check"}

(* What a job is about fits where it is. *)
Working(j) ==
  /\ pc[j] = "new" => op[j] = "none"
  /\ op[j] \in AboutRun => on[j] \in Runs /\ candidate[on[j]] # Missing
  /\ op[j] \in {"replay", "publish", "recover"} => on[j] \in passed
  /\ op[j] = "author" => on[j] \in Tasks
  /\ pc[j] \in Waiting => op[j] # "none"
  /\ pc[j] \in {"confirm", "decide"} => op[j] = "submit"
  /\ pc[j] = "push" => op[j] \in Moving
  /\ pc[j] \in Stages => op[j] = "recover"
  /\ pc[j] = "recheck" => op[j] \in Moving \cup {"recover"}
  /\ pc[j] = "check" => op[j] # "replay"
  /\ pc[j] \in {"settle", "release"} => op[j] \in Moving \cup {"recover"}
  /\ pc[j] \in Waiting /\ op[j] = "submit" => todo[j] = "confirm"
  /\ pc[j] \in Waiting /\ op[j] \in Moving => todo[j] = "push"
  /\ pc[j] \in Waiting /\ op[j] = "recover" => todo[j] \in Stages

(* What a job read of main, and how its source stands to it. *)
Moves(j) == op[j] \in Moving /\ pc[j] \in Waiting \cup {"push"}
Based(j) ==
  /\ base[j] \subseteq main
  /\ j \in main => pc[j] \in {"release", "done"}
  /\ Moves(j) => base[j] \subseteq Goal(j) /\ ~(Goal(j) \subseteq base[j])
  /\ pc[j] = "release" /\ op[j] \in Moving => Goal(j) \subseteq main
  /\ op[j] = "recover" /\ pc[j] \in Waiting \cup Stages \cup {"release"}
       => ~(base[j] \subseteq candidate[on[j]])
  /\ op[j] \in {"publish", "recover"} /\ pc[j] = "settle"
       => candidate[on[j]] \subseteq base[j] \/ ~(base[j] \subseteq candidate[on[j]])

(* A reservation is what its owner wants, for the time it was taken. *)
Reserved(j) ==
  /\ token[j] # NoToken => token[j] = Wanted(j, token[j].at)
  /\ pc[j] \in {"recheck", "check", "confirm", "decide", "push"} \cup Stages => token[j] # NoToken
  /\ pc[j] \in {"new", "reserve"} \/ op[j] = "none" => token[j] = NoToken

(* What was decided stays decided, and the job that decided is through. *)
Known(j) ==
  /\ \A r \in Runs : decision[r] = j => pc[j] = "done"
  /\ \A r \in Runs : known[j][r] # NoJob => decision[r] = known[j][r]

(* The move of a job strands no PASS it knows of ... *)
Guarded(j) == Moves(j) =>
  \A o \in passed :
    known[j][o] # NoJob /\ o # on[j] /\ base[j] \subseteq candidate[o] /\ ~(candidate[o] \subseteq base[j])
      => candidate[o] \subseteq Goal(j)

(* ... and as long as the move can happen there is no other PASS. *)
Complete(j) ==
  op[j] \in Moving /\ pc[j] \in {"check", "push"} /\ main = base[j] => \A o \in passed : known[j][o] # NoJob

(* Nobody takes a reservation away from a review that is not written, or from
   a move that can still happen. *)
Holding(j) ==
  /\ op[j] = "submit" /\ pc[j] \in {"check", "confirm", "decide"} => tip = token[j]
  /\ op[j] \in Moving /\ pc[j] \in {"recheck", "check", "push"} /\ main = base[j] => tip = token[j]

(* A review is written for the main it was confirmed for. *)
Deciding(j) == pc[j] = "decide" => main = base[j]

(* A PASS is a decision about a candidate. *)
Decided == \A r \in passed : decision[r] # NoJob /\ candidate[r] # Missing

(* Commits of authored TASKs are on main before they are anywhere else, and a
   recovery is admitted for a PASS that main has diverged from. *)
Lineage ==
  \A r \in Runs :
    /\ \A k \in Jobs : k \in candidate[r] \cup source[r] => k \in main
    /\ admitted[r] # NoPlan =>
         r \in passed /\ admitted[r].main \subseteq main /\ ~(admitted[r].main \subseteq candidate[r])

Facts == Decided /\ Lineage /\ \A j \in Jobs : Working(j) /\ Based(j) /\ Reserved(j) /\ Known(j)
Locks == \A j \in Jobs : Guarded(j) /\ Complete(j) /\ Holding(j) /\ Deciding(j)
IInv == TypeOK /\ Facts /\ Locks

(* The TASK of an author is new on the main it read. *)
NewTask ==
  /\ TaskOnce
  /\ \A j \in Jobs : op[j] = "author" /\ Moves(j) => ~TaskIn(base[j], on[j])

(* The recovery of a RUN between its admission and its RESULT is the only one. *)
Stage(j) == IF pc[j] \in Waiting THEN todo[j] ELSE pc[j]
At(j, r, stages) == op[j] = "recover" /\ on[j] = r /\ Stage(j) \in stages
Single(r) ==
  /\ admitted[r] = NoPlan => source[r] = Missing /\ executed[r] = {} /\ r \notin result
  /\ \A j \in Jobs : At(j, r, {"source", "verify", "record", "transport"}) =>
       admitted[r] # NoPlan /\ admitted[r].main = base[j]
  /\ \A j \in Jobs : At(j, r, {"verify", "record", "transport"}) => source[r] # Missing
  /\ \A j \in Jobs : At(j, r, {"transport"}) => r \in result
  /\ r \in result => \A j \in Jobs : ~At(j, r, {"verify", "record"})
  /\ r \notin result =>
       \A j, k \in Jobs :
         At(j, r, {"source", "verify", "record"}) /\ At(k, r, {"source", "verify", "record"}) => j = k
  /\ r \notin result /\ executed[r] # {} => \A j \in Jobs : ~At(j, r, {"source", "verify"})
  /\ \A j, k \in executed[r] : j = k
  /\ source[r] # Missing => source[r] = admitted[r].main \cup candidate[r] \cup {Merge(r)}
OneRecovery == \A r \in Runs : Single(r)

-----------------------------------------------------------------------------
(* Types *)

(* The source a job wants on main is a commit, and what it wants is a
   reservation. *)
LEMMA WantedType ==
  ASSUME TypeOK, NEW j \in Jobs, Working(j), op[j] # "none", NEW t \in 0..MaxClock
  PROVE  Goal(j) \in Commits /\ Wanted(j, t) \in Token /\ Wanted(j, t) # NoToken
<1>1. on[j] \in Subjects /\ (op[j] # "author" => on[j] \in Runs)
  BY DEF TypeOK, Working, AboutRun, Subjects
<1>2. Goal(j) \in Commits BY <1>1 DEF Goal, TypeOK, Commits, Changes
<1>3. DecisionOf(j) \in Writers BY <1>1 DEF DecisionOf, TypeOK, Writers
<1>4. base[j] \in Commits BY DEF TypeOK
<1>5. Wanted(j, t) \in Token BY <1>1, <1>2, <1>3, <1>4 DEF Wanted, Token
<1> QED BY <1>2, <1>5, NullAssumption

(* The initial state is well typed. *)
LEMMA TypeInit == Init => TypeOK
<1> SUFFICES ASSUME Init PROVE TypeOK OBVIOUS
<1>1. Legacy \subseteq Runs /\ 0 \in 0..MaxClock BY BoundAssumption
<1>2. main \in Commits BY <1>1 DEF Init, Commits, Changes
<1>3. candidate \in [Runs -> Commits] /\ source \in [Runs -> Commits]
  BY <1>1 DEF Init, Commits, Changes, Missing
<1>4. decision \in [Runs -> Writers] /\ known \in [Jobs -> [Runs -> Writers]] BY DEF Init, Writers
<1>5. base \in [Jobs -> Commits] BY DEF Init, Commits, Missing
<1>6. token \in [Jobs -> Token \cup {NoToken}] /\ tip \in Token \cup {NoToken} BY DEF Init
<1>7. admitted \in [Runs -> Plan \cup {NoPlan}] /\ executed \in [Runs -> SUBSET Jobs]
  BY DEF Init
<1> QED BY <1>1, <1>2, <1>3, <1>4, <1>5, <1>6, <1>7 DEF Init, TypeOK

(* A beginning job is well typed. *)
LEMMA TypeBegin ==
  ASSUME TypeOK, NEW j \in Jobs,
         NEW what \in {"submit", "replay", "publish", "author", "recover"},
         NEW subject \in Subjects, NEW step \in {"reserve", "settle"},
         NEW then \in {"none", "confirm", "push", "admit", "source"},
         Begin(j, what, subject, step, then)
  PROVE  TypeOK'
BY DEF Begin, Proceed, Goto, TypeOK, refs, recovery

(* Every step keeps the types. *)
LEMMA TypeStep ==
  ASSUME TypeOK, \A j \in Jobs : Working(j), Next
  PROVE  TypeOK'
<1>1. ASSUME NEW j \in Jobs, Step(j) PROVE TypeOK'
  <2> Working(j) OBVIOUS
  <2>1. CASE Reviewing(j)
    <3>1. CASE SubmitOther(j) BY <3>1 DEF SubmitOther, Goto, TypeOK, Writers, job, recovery
    <3>2. CASE BeginSubmit(j) BY <3>2, TypeBegin DEF BeginSubmit, Subjects
    <3>3. CASE BeginReplay(j) BY <3>3, TypeBegin DEF BeginReplay, Subjects, TypeOK
    <3>4. CASE Confirm(j) BY <3>4 DEF Confirm, Goto, TypeOK, refs, recovery
    <3>5. CASE Decide(j)
      <4>1. on[j] \in Runs BY <3>5 DEF Decide, Working, AboutRun
      <4> QED BY <3>5, <4>1 DEF Decide, Goto, TypeOK, Writers, recovery
    <3> QED BY <2>1, <3>1, <3>2, <3>3, <3>4, <3>5 DEF Reviewing
  <2>2. CASE Publishing(j)
    <3>1. CASE BeginSettle(j) BY <3>1, TypeBegin DEF BeginSettle, Subjects, TypeOK
    <3>2. CASE BeginPublish(j) BY <3>2, TypeBegin DEF BeginPublish, Subjects, TypeOK
    <3>3. CASE Push(j)
      <4>1. op[j] # "none" BY <3>3 DEF Push, Working, Moving
      <4>2. Goal(j) \in Commits BY <4>1, WantedType, BoundAssumption
      <4> QED BY <3>3, <4>2 DEF Push, Goto, TypeOK, recovery
    <3> QED BY <2>2, <3>1, <3>2, <3>3 DEF Publishing
  <2>3. CASE Authoring(j)
    BY <2>3, TypeBegin DEF Authoring, BeginAuthor, BeginReauthor, Subjects
  <2>4. CASE Recovering(j)
    <3>1. CASE BeginRecover(j) BY <3>1, TypeBegin DEF BeginRecover, Subjects, TypeOK
    <3>2. CASE BeginResume(j) BY <3>2, TypeBegin DEF BeginResume, Subjects, TypeOK
    <3>3. CASE BeginRecovered(j) BY <3>3, TypeBegin DEF BeginRecovered, Subjects, TypeOK
    <3>4. pc[j] \in Stages => on[j] \in Runs BY DEF Working, AboutRun
    <3>5. CASE Admit(j)
      <4>1. PICK q \in Runs : admitted' = [admitted EXCEPT ![on[j]] = [run |-> q, main |-> base[j]]]
        BY <3>5 DEF Admit
      <4>2. [run |-> q, main |-> base[j]] \in Plan BY DEF TypeOK, Plan
      <4> QED BY <3>5, <4>1, <4>2 DEF Admit, Doing, ThenCheck, Proceed, Goto, TypeOK, recovery
    <3>6. CASE Source(j)
      <4>1. on[j] \in Runs BY <3>4, <3>6 DEF Source, Doing, Stages
      <4>2. base[j] \cup candidate[on[j]] \cup {Merge(on[j])} \in Commits
        BY <4>1 DEF TypeOK, Commits, Changes
      <4> QED BY <3>6, <4>1, <4>2 DEF Source, Doing, ThenCheck, Proceed, Goto, TypeOK, recovery
    <3>7. CASE Verify(j)
      BY <3>4, <3>7 DEF Verify, Doing, ThenCheck, Proceed, Goto, TypeOK, Stages
    <3>8. CASE Record(j)
      BY <3>4, <3>8 DEF Record, Doing, ThenCheck, Proceed, Goto, TypeOK, Stages
    <3>9. CASE Transport(j)
      BY <3>4, <3>9 DEF Transport, Doing, Goto, TypeOK, Stages, recovery
    <3> QED BY <2>4, <3>1, <3>2, <3>3, <3>5, <3>6, <3>7, <3>8, <3>9 DEF Recovering
  <2>5. CASE Reserving(j)
    <3>1. CASE Reserve(j)
      <4>1. op[j] # "none" BY <3>1 DEF Reserve, Working, Waiting
      <4>2. clock \in 0..MaxClock BY DEF TypeOK
      <4>3. tip' \in Token \cup {NoToken} BY <3>1, <4>1, <4>2, WantedType DEF Reserve, TypeOK
      <4>4. pc' \in [Jobs -> {"new", "reserve", "recheck", "check", "confirm", "decide", "push",
                "admit", "source", "verify", "record", "transport", "release", "settle", "done"}]
        BY <3>1 DEF Reserve, Goto, TypeOK
      <4> QED BY <3>1, <4>3, <4>4 DEF Reserve, TypeOK, refs, recovery
    <3>2. CASE Recheck(j) BY <3>2 DEF Recheck, Goto, TypeOK, refs, recovery
    <3>3. CASE Check(j)
      <4>1. todo[j] # "none" BY <3>3 DEF Check, Working, Waiting, Stages, Moving, TypeOK
      <4> QED BY <3>3, <4>1 DEF Check, Goto, TypeOK, refs, recovery
    <3>4. CASE Release(j) BY <3>4 DEF Release, Goto, TypeOK, refs, recovery
    <3>5. CASE Settle(j) BY <3>5 DEF Settle, Goto, TypeOK, refs, recovery
    <3> QED BY <2>5, <3>1, <3>2, <3>3, <3>4, <3>5 DEF Reserving
  <2>6. CASE Stop(j) BY <2>6 DEF Stop, Goto, TypeOK, refs, recovery
  <2> QED BY <1>1, <2>1, <2>2, <2>3, <2>4, <2>5, <2>6 DEF Step
<1>2. ASSUME NEW r \in Runs, Produce(r) PROVE TypeOK'
  <2>1. PICK parent \in {main} \cup {candidate[o] : o \in {x \in Runs : candidate[x] # Missing}} :
          candidate' = [candidate EXCEPT ![r] = parent \cup {r}]
    BY <1>2 DEF Produce
  <2>2. parent \cup {r} \in Commits BY DEF TypeOK, Commits, Changes
  <2> QED BY <1>2, <2>1, <2>2 DEF Produce, TypeOK, recovery, job
<1>3. CASE Tick BY <1>3, BoundAssumption DEF Tick, TypeOK, refs, recovery, job
<1>4. CASE Clear BY <1>4 DEF Clear, TypeOK, refs, recovery, job
<1> QED BY <1>1, <1>2, <1>3, <1>4 DEF Next

-----------------------------------------------------------------------------
(* What a step leaves alone *)

(* A job that does not move. *)
Idle(k) ==
  /\ pc'[k] = pc[k] /\ op'[k] = op[k] /\ on'[k] = on[k] /\ todo'[k] = todo[k]
  /\ base'[k] = base[k] /\ known'[k] = known[k] /\ token'[k] = token[k]

(* What a job is about is settled when it begins. *)
Settled(k) ==
  pc[k] # "new" =>
    pc'[k] # "new" /\ op'[k] = op[k] /\ on'[k] = on[k] /\ base'[k] = base[k] /\ known'[k] = known[k]

(* What is on the remote stays there: main only grows, and a candidate, a
   decision, a PASS and an admission are for good. *)
Durable ==
  /\ main \subseteq main'
  /\ passed \subseteq passed'
  /\ \A r \in Runs :
       /\ candidate[r] # Missing => candidate'[r] = candidate[r]
       /\ decision[r] # NoJob => decision'[r] = decision[r]
       /\ admitted[r] # NoPlan => admitted'[r] = admitted[r]

(* A step of one job leaves the others alone. *)
LEMMA OthersIdle ==
  ASSUME TypeOK, NEW j \in Jobs, Step(j)
  PROVE  Settled(j) /\ \A k \in Jobs \ {j} : Idle(k)
<1>1. CASE Reviewing(j)
  BY <1>1 DEF Reviewing, SubmitOther, BeginSubmit, BeginReplay, Confirm, Decide, Begin, Proceed,
              Goto, TypeOK, Idle, Settled
<1>2. CASE Publishing(j)
  BY <1>2 DEF Publishing, BeginSettle, BeginPublish, Push, Begin, Proceed, Goto, TypeOK, Idle, Settled
<1>3. CASE Authoring(j)
  BY <1>3 DEF Authoring, BeginAuthor, BeginReauthor, Begin, Proceed, Goto, TypeOK, Idle, Settled
<1>4. CASE Recovering(j)
  <2>1. CASE BeginRecover(j) \/ BeginResume(j) \/ BeginRecovered(j)
    BY <2>1 DEF BeginRecover, BeginResume, BeginRecovered, Begin, Proceed, Goto, TypeOK, Idle, Settled
  <2>2. CASE Admit(j) \/ Source(j) \/ Verify(j) \/ Record(j) \/ Transport(j)
    BY <2>2 DEF Admit, Source, Verify, Record, Transport, Doing, ThenCheck, Proceed, Goto,
                TypeOK, Idle, Settled
  <2> QED BY <1>4, <2>1, <2>2 DEF Recovering
<1>5. CASE Reserving(j)
  BY <1>5 DEF Reserving, Reserve, Recheck, Check, Release, Settle, Goto, TypeOK, Idle, Settled
<1>6. CASE Stop(j) BY <1>6 DEF Stop, Goto, TypeOK, Idle, Settled
<1> QED BY <1>1, <1>2, <1>3, <1>4, <1>5, <1>6 DEF Step

(* The environment leaves all jobs alone. *)
LEMMA EnvironmentIdle ==
  ASSUME (\E r \in Runs : Produce(r)) \/ Tick \/ Clear
  PROVE  \A k \in Jobs : Idle(k)
BY DEF Produce, Tick, Clear, Idle, job

(* In a step a job is idle or it is the one that moves. *)
LEMMA Turn ==
  ASSUME TypeOK, Next, NEW k \in Jobs
  PROVE  Settled(k) /\ (Idle(k) \/ Step(k))
<1>1. Idle(k) => Settled(k) BY DEF Idle, Settled
<1> QED BY <1>1, OthersIdle, EnvironmentIdle DEF Next

(* Whatever is durable is not disturbed by any step. *)
LEMMA DurableStep ==
  ASSUME TypeOK, Decided, \A j \in Jobs : Working(j) /\ Based(j), Next
  PROVE  Durable
<1>1. ASSUME NEW j \in Jobs, Step(j) PROVE Durable
  <2> Working(j) /\ Based(j) OBVIOUS
  <2>1. CASE Reviewing(j)
    <3>1. CASE SubmitOther(j) BY <3>1 DEF SubmitOther, TypeOK, Durable
    <3>2. CASE BeginSubmit(j) \/ BeginReplay(j) \/ Confirm(j)
      BY <3>2 DEF BeginSubmit, BeginReplay, Confirm, Begin, refs, Durable
    <3>3. CASE Decide(j) BY <3>3 DEF Decide, TypeOK, Durable
    <3> QED BY <2>1, <3>1, <3>2, <3>3 DEF Reviewing
  <2>2. CASE Publishing(j)
    <3>1. CASE BeginSettle(j) \/ BeginPublish(j)
      BY <3>1 DEF BeginSettle, BeginPublish, Begin, refs, Durable
    <3>2. CASE Push(j) BY <3>2 DEF Push, Working, Based, Moves, Durable
    <3> QED BY <2>2, <3>1, <3>2 DEF Publishing
  <2>3. CASE Authoring(j) BY <2>3 DEF Authoring, BeginAuthor, BeginReauthor, Begin, refs, Durable
  <2>4. CASE Recovering(j)
    <3>1. CASE BeginRecover(j) \/ BeginResume(j) \/ BeginRecovered(j)
      BY <3>1 DEF BeginRecover, BeginResume, BeginRecovered, Begin, refs, Durable
    <3>2. CASE Admit(j) BY <3>2 DEF Admit, Doing, TypeOK, Durable
    <3>3. CASE Source(j) \/ Verify(j) \/ Record(j)
      BY <3>3 DEF Source, Verify, Record, Doing, Durable
    <3>4. CASE Transport(j) BY <3>4 DEF Transport, Doing, TypeOK, Durable
    <3> QED BY <2>4, <3>1, <3>2, <3>3, <3>4 DEF Recovering
  <2>5. CASE Reserving(j)
    BY <2>5 DEF Reserving, Reserve, Recheck, Check, Release, Settle, refs, Durable
  <2>6. CASE Stop(j) BY <2>6 DEF Stop, refs, Durable
  <2> QED BY <1>1, <2>1, <2>2, <2>3, <2>4, <2>5, <2>6 DEF Step
<1>2. ASSUME NEW r \in Runs, Produce(r) PROVE Durable BY <1>2 DEF Produce, TypeOK, Durable
<1>3. CASE Tick \/ Clear BY <1>3 DEF Tick, Clear, refs, Durable
<1> QED BY <1>1, <1>2, <1>3 DEF Next

(* Where a job goes that got its reservation. *)
LEMMA ReserveGoes ==
  ASSUME TypeOK, NEW j \in Jobs, Reserve(j)
  PROVE  /\ op[j] = "submit" => pc'[j] = "check"
         /\ op[j] = "replay" => pc'[j] = "done"
         /\ op[j] \notin {"submit", "replay"} => pc'[j] = "recheck"
<1> DEFINE step == CASE op[j] = "submit" -> "check" [] op[j] = "replay" -> "done" [] OTHER -> "recheck"
<1>1. pc' = [pc EXCEPT ![j] = step] BY DEF Reserve, Goto
<1>2. op[j] = "submit" => step = "check" OBVIOUS
<1>3. op[j] = "replay" => step = "done" OBVIOUS
<1>4. op[j] \notin {"submit", "replay"} => step = "recheck" OBVIOUS
<1> HIDE DEF step
<1> QED BY <1>1, <1>2, <1>3, <1>4 DEF TypeOK

(* The decision a job relies on. *)
LEMMA DecisionIs ==
  ASSUME NEW j \in Jobs
  PROVE  /\ op[j] = "submit" => DecisionOf(j) = j
         /\ op[j] = "author" => DecisionOf(j) = NoJob
         /\ op[j] \notin {"submit", "author"} => DecisionOf(j) = decision[on[j]]
BY DEF DecisionOf

(* What a job wants does not change under its hands. *)
LEMMA WantedStays ==
  ASSUME TypeOK, Decided, Durable, NEW k \in Jobs, Working(k), Settled(k), op[k] # "none"
  PROVE  /\ pc'[k] # "new" /\ op'[k] = op[k] /\ on'[k] = on[k] /\ base'[k] = base[k] /\ known'[k] = known[k]
         /\ op[k] # "author" => candidate'[on[k]] = candidate[on[k]]
         /\ Goal(k)' = Goal(k) /\ DecisionOf(k)' = DecisionOf(k)
         /\ \A t : Wanted(k, t)' = Wanted(k, t)
<1>1. /\ pc'[k] # "new" /\ op'[k] = op[k] /\ on'[k] = on[k]
      /\ base'[k] = base[k] /\ known'[k] = known[k]
  BY DEF Working, Settled
<1>2. op[k] \in AboutRun \cup {"author"} BY DEF TypeOK, AboutRun
<1>3. op[k] # "author" => on[k] \in Runs /\ candidate'[on[k]] = candidate[on[k]]
  BY <1>2 DEF Working, Durable
<1>4. Goal(k)' = Goal(k) BY <1>1, <1>3 DEF Goal
<1>5. op[k] \notin {"submit", "author"} => decision'[on[k]] = decision[on[k]]
  <2> SUFFICES ASSUME op[k] \notin {"submit", "author"} PROVE decision'[on[k]] = decision[on[k]]
    OBVIOUS
  <2>1. on[k] \in passed BY <1>2 DEF Working, AboutRun
  <2> QED BY <2>1, <1>2, <1>3 DEF Decided, Durable
<1>6. DecisionOf(k)' = DecisionOf(k) BY <1>1, <1>5 DEF DecisionOf
<1>7. ASSUME NEW t PROVE Wanted(k, t)' = Wanted(k, t) BY <1>1, <1>4, <1>6 DEF Wanted
<1> QED BY <1>1, <1>3, <1>4, <1>6, <1>7

-----------------------------------------------------------------------------
(* The facts that hold of every job and RUN *)

(* Facts about a job that does not move. *)
LEMMA IdleFacts ==
  ASSUME TypeOK, Decided, Durable, NEW k \in Jobs, Working(k), Based(k), Reserved(k), Known(k),
         Idle(k), k \in main' => k \in main
  PROVE  Working(k)' /\ Based(k)' /\ Reserved(k)' 
<1>1. Settled(k) BY DEF Idle, Settled
<1>2. CASE op[k] = "none"
  BY <1>2 DEF Working, Based, Reserved, Idle, AboutRun, Moves, Moving, Durable, Waiting, Stages
<1>3. CASE op[k] # "none"
  <2>1. /\ Goal(k)' = Goal(k)
        /\ \A t : Wanted(k, t)' = Wanted(k, t)
        /\ op[k] # "author" => candidate'[on[k]] = candidate[on[k]]
    BY <1>1, <1>3, WantedStays
  <2>2. Working(k)' BY <2>1 DEF Working, Idle, Durable, AboutRun
  <2>3. Based(k)'
    <3>1. Moves(k)' = Moves(k) BY DEF Moves, Idle
    <3>2. base'[k] \subseteq main' BY DEF Idle, Durable, Based
    <3>3. k \in main' => pc'[k] \in {"release", "done"} BY DEF Idle, Based
    <3>4. pc'[k] = "release" /\ op'[k] \in Moving => Goal(k)' \subseteq main'
      BY <2>1 DEF Idle, Durable, Based
    <3> QED BY <2>1, <3>1, <3>2, <3>3, <3>4 DEF Based, Idle, Moving
  <2>4. Reserved(k)' BY <2>1 DEF Reserved, Idle
  <2> QED BY <2>2, <2>3, <2>4
<1> QED BY <1>2, <1>3

(* Only its author brings a TASK's commit to main. *)
LEMMA OnlyAuthors ==
  ASSUME TypeOK, Facts, NEW j \in Jobs, Step(j), NEW k \in Jobs, k \in main', k # j
  PROVE  k \in main
<1> Working(j) /\ Based(j) BY DEF Facts
<1>1. CASE Push(j)
  <2>1. main' = Goal(j) /\ op[j] \in Moving BY <1>1 DEF Push, Working
  <2>2. CASE op[j] = "author" BY <2>1, <2>2 DEF Goal, Based
  <2>3. CASE op[j] = "publish"
    <3>1. on[j] \in Runs BY <2>3 DEF Working, AboutRun
    <3> QED BY <2>1, <2>3, <3>1 DEF Goal, Facts, Lineage
  <2> QED BY <2>1, <2>2, <2>3 DEF Moving
<1>2. CASE ~Push(j)
  BY <1>2 DEF Step, Reviewing, SubmitOther, BeginSubmit, BeginReplay, Confirm, Decide, Publishing,
     BeginSettle, BeginPublish, Authoring, BeginAuthor, BeginReauthor, Recovering, BeginRecover,
     BeginResume, BeginRecovered, Admit, Source, Verify, Record, Transport, Doing, Reserving,
     Reserve, Recheck, Check, Release, Settle, Stop, Begin, refs
<1> QED BY <1>1, <1>2

(* Main stays diverged from a PASS that was admitted for recovery. *)
LEMMA Diverged ==
  ASSUME Lineage, NEW r \in Runs, admitted[r] # NoPlan
  PROVE  ~(main \subseteq candidate[r])
BY DEF Lineage

(* Facts about a job that begins. *)
LEMMA BeginFacts ==
  ASSUME TypeOK, Facts, NEW j \in Jobs,
         BeginSubmit(j) \/ BeginReplay(j) \/ BeginSettle(j) \/ BeginPublish(j) \/ Authoring(j)
           \/ BeginRecover(j) \/ BeginResume(j) \/ BeginRecovered(j)
  PROVE  Working(j)' /\ Based(j)' /\ Reserved(j)'
<1> Decided /\ Lineage BY DEF Facts
<1> USE DEF Begin, Proceed, Goto, TypeOK, refs
<1>1. /\ pc[j] = "new" /\ base'[j] = main /\ main' = main /\ candidate' = candidate
      /\ passed' = passed /\ token' = token /\ pc'[j] \in {"reserve", "settle"}
  BY DEF BeginSubmit, BeginReplay, BeginSettle, BeginPublish, Authoring, BeginAuthor, BeginReauthor,
         BeginRecover, BeginResume, BeginRecovered
<1>2. token'[j] = NoToken /\ j \notin main BY <1>1 DEF Facts, Reserved, Based
<1>3. Reserved(j)' BY <1>1, <1>2 DEF Reserved, Stages
<1>4. CASE BeginSubmit(j)
  <2>1. PICK r \in Runs : candidate[r] # Missing /\ Begin(j, "submit", r, "reserve", "confirm")
    BY <1>4 DEF BeginSubmit
  <2> QED BY <1>1, <1>2, <1>3, <2>1 DEF Working, Based, Moves, AboutRun, Moving, Waiting, Stages
<1>5. CASE BeginReplay(j)
  <2>1. PICK r \in passed : Begin(j, "replay", r, "reserve", "none") BY <1>5 DEF BeginReplay
  <2> QED BY <1>1, <1>2, <1>3, <2>1 DEF Decided, Working, Based, Moves, AboutRun, Moving, Waiting, Stages
<1>6. CASE BeginSettle(j)
  <2>1. PICK r \in passed : (Contained(r) \/ Divergent(r)) /\ Begin(j, "publish", r, "settle", "none")
    BY <1>6 DEF BeginSettle
  <2> QED BY <1>1, <1>2, <1>3, <2>1
          DEF Decided, Contained, Divergent, Working, Based, Moves, AboutRun, Moving, Waiting, Stages
<1>7. CASE BeginPublish(j)
  <2>1. PICK r \in passed : Eligible(r) /\ Begin(j, "publish", r, "reserve", "push")
    BY <1>7 DEF BeginPublish
  <2>2. Goal(j)' = candidate[r] BY <1>1, <2>1 DEF Goal
  <2> QED BY <1>1, <1>2, <1>3, <2>1, <2>2
          DEF Decided, Eligible, Contained, Working, Based, Moves, AboutRun, Moving, Waiting, Stages
<1>8. CASE BeginAuthor(j)
  <2>1. PICK t \in Tasks : Begin(j, "author", t, "reserve", "push") BY <1>8 DEF BeginAuthor
  <2>2. Goal(j)' = main \cup {j} BY <1>1, <2>1 DEF Goal
  <2> QED BY <1>1, <1>2, <1>3, <2>1, <2>2 DEF Working, Based, Moves, AboutRun, Moving, Waiting, Stages
<1>9. CASE BeginReauthor(j)
  <2>1. PICK t \in Tasks : Begin(j, "author", t, "settle", "none") BY <1>9 DEF BeginReauthor
  <2> QED BY <1>1, <1>2, <1>3, <2>1 DEF Working, Based, Moves, AboutRun, Moving, Waiting, Stages
<1>10. CASE BeginRecover(j) \/ BeginResume(j)
  <2>1. PICK r \in passed, then \in Stages :
          Divergent(r) /\ Begin(j, "recover", r, "reserve", then)
    BY <1>10 DEF BeginRecover, BeginResume, Recoverable, Stages
  <2> QED BY <1>1, <1>2, <1>3, <2>1
          DEF Decided, Divergent, Working, Based, Moves, AboutRun, Moving, Waiting, Stages
<1>11. CASE BeginRecovered(j)
  <2>1. PICK r \in passed : admitted[r] # NoPlan /\ Begin(j, "recover", r, "settle", "none")
    BY <1>11 DEF BeginRecovered
  <2>2. ~(main \subseteq candidate[r]) BY <2>1, Diverged
  <2> QED BY <1>1, <1>2, <1>3, <2>1, <2>2
          DEF Decided, Working, Based, Moves, AboutRun, Moving, Waiting, Stages
<1> QED BY <1>4, <1>5, <1>6, <1>7, <1>8, <1>9, <1>10, <1>11 DEF Authoring

(* Facts about a job that goes on. *)
LEMMA MovingFacts ==
  ASSUME TypeOK, Facts, Durable, NEW j \in Jobs, Step(j)
  PROVE  Working(j)' /\ Based(j)' /\ Reserved(j)'
<1> Decided /\ Lineage /\ Working(j) /\ Based(j) /\ Reserved(j) BY DEF Facts
<1>1. CASE \/ BeginSubmit(j) \/ BeginReplay(j) \/ BeginSettle(j) \/ BeginPublish(j) \/ Authoring(j)
           \/ BeginRecover(j) \/ BeginResume(j) \/ BeginRecovered(j)
  BY <1>1, BeginFacts
<1>2. CASE SubmitOther(j)
  <2>1. /\ pc[j] = "new" /\ pc'[j] = "done" /\ op'[j] = op[j] /\ on'[j] = on[j] /\ base'[j] = base[j]
        /\ token'[j] = token[j]
    BY <1>2 DEF SubmitOther, Goto, TypeOK
  <2> QED BY <2>1 DEF Working, Based, Reserved, Moves, AboutRun, Moving, Waiting, Stages, Durable
<1>3. ASSUME op[j] # "none", op'[j] = op[j], on'[j] = on[j], base'[j] = base[j], pc[j] # "new"
      PROVE  /\ Goal(j)' = Goal(j) /\ DecisionOf(j)' = DecisionOf(j)
             /\ \A t : Wanted(j, t)' = Wanted(j, t)
             /\ op[j] # "author" => candidate'[on[j]] = candidate[on[j]]
             /\ op[j] \in AboutRun => on[j] \in Runs /\ candidate'[on[j]] # Missing
             /\ op[j] \in {"replay", "publish", "recover"} => on[j] \in passed'
             /\ base[j] \subseteq main'
  <2>1. Settled(j) BY OthersIdle
  <2>2. on[j] \in passed => on[j] \in passed' BY DEF Durable
  <2> QED BY <1>3, <2>1, <2>2, WantedStays DEF Working, AboutRun, Based, Durable
<1>4. CASE Confirm(j)
  BY <1>3, <1>4 DEF Confirm, Goto, TypeOK, refs, Working, Based, Reserved, Moves, AboutRun, Moving,
                    Waiting, Stages
<1>5. CASE Decide(j)
  BY <1>3, <1>5 DEF Decide, Goto, TypeOK, Working, Based, Reserved, Moves, AboutRun, Moving,
                    Waiting, Stages
<1>6. CASE Push(j)
  BY <1>3, <1>6 DEF Push, Goto, TypeOK, Working, Based, Reserved, Moves, AboutRun, Moving,
                    Waiting, Stages
<1>7. CASE Admit(j) \/ Source(j) \/ Verify(j) \/ Record(j)
  <2>1. /\ pc[j] \in Stages /\ pc'[j] = "recheck" /\ todo'[j] \in Stages
        /\ main' = main /\ op' = op /\ on' = on /\ base' = base /\ token' = token
    BY <1>7 DEF Admit, Source, Verify, Record, Doing, ThenCheck, Proceed, Goto, TypeOK, Stages
  <2>2. op[j] = "recover" BY <2>1 DEF Working
  <2> QED BY <1>3, <2>1, <2>2 DEF Working, Based, Reserved, Moves, AboutRun, Moving, Waiting, Stages
<1>8. CASE Transport(j)
  BY <1>3, <1>8 DEF Transport, Doing, Goto, TypeOK, Working, Based, Reserved, Moves, AboutRun,
                    Moving, Waiting, Stages
<1>9. CASE Reserve(j)
  <2>1. op[j] # "none" BY <1>9 DEF Reserve, Working, Waiting
  <2>2. tip' # NoToken /\ tip' = Wanted(j, tip'.at)
    <3>1. CASE tip' = Wanted(j, clock)
      <4>1. tip' # NoToken BY <2>1, <3>1, WantedType DEF TypeOK
      <4> QED BY <3>1, <4>1 DEF Wanted
    <3>2. CASE Same(j, tip) /\ tip' = tip BY <3>2 DEF Same
    <3> QED BY <1>9, <3>1, <3>2 DEF Reserve
  <2>3. token'[j] = tip' BY <1>9 DEF Reserve, TypeOK
  <2>4. /\ pc[j] = "reserve" /\ main' = main /\ op' = op /\ on' = on /\ base' = base /\ todo' = todo
    BY <1>9 DEF Reserve, refs
  <2>5. (token[j] = Wanted(j, token[j].at))' BY <1>3, <2>1, <2>2, <2>3, <2>4 DEF Wanted
  <2>6. pc'[j] \in {"check", "done", "recheck"} BY <1>9, ReserveGoes
  <2>7. pc'[j] = "recheck" => op[j] \notin {"submit", "replay"} BY <1>9, ReserveGoes
  <2>8. pc'[j] = "check" => op[j] # "replay" BY <1>9, ReserveGoes
  <2>9. Working(j)'
    BY <1>3, <2>1, <2>4, <2>6, <2>7, <2>8 DEF Working, AboutRun, Moving, Waiting, Stages, TypeOK
  <2>10. Based(j)' BY <1>3, <2>1, <2>4, <2>6 DEF Based, Moves, Moving, Waiting, Stages
  <2>11. Reserved(j)'
    <3>1. token'[j] # NoToken BY <2>2, <2>3
    <3> QED BY <2>1, <2>4, <2>5, <2>6, <3>1 DEF Reserved
  <2> QED BY <2>9, <2>10, <2>11
<1>10. CASE Recheck(j) \/ Check(j) \/ Release(j) \/ Settle(j) \/ Stop(j)
  <2>1. /\ main' = main /\ op' = op /\ on' = on /\ base' = base /\ todo' = todo /\ token' = token
        /\ pc[j] # "new"
    BY <1>10 DEF Recheck, Check, Release, Settle, Stop, refs
  <2>2. \/ pc[j] = "recheck" /\ pc'[j] = "check"
        \/ pc[j] = "check" /\ pc'[j] = todo[j]
        \/ pc'[j] = "done"
    BY <1>10 DEF Recheck, Check, Release, Settle, Stop, Goto, TypeOK
  <2>3. CASE op[j] = "none"
    BY <2>1, <2>2, <2>3 DEF Working, Based, Reserved, Moves, AboutRun, Moving, Waiting, Stages, Durable
  <2>4. CASE op[j] # "none"
    <3>1. Working(j)' BY <1>3, <2>1, <2>2, <2>4 DEF Working, AboutRun, Moving, Waiting, Stages, TypeOK
    <3>2. Based(j)' BY <1>3, <2>1, <2>2, <2>4 DEF Working, Based, Moves, AboutRun, Moving, Waiting, Stages, TypeOK
    <3>3. Reserved(j)' BY <1>3, <2>1, <2>2, <2>4 DEF Working, Reserved, Moving, Waiting, Stages, TypeOK
    <3> QED BY <3>1, <3>2, <3>3
  <2> QED BY <2>3, <2>4
<1> QED BY <1>1, <1>2, <1>4, <1>5, <1>6, <1>7, <1>8, <1>9, <1>10
        DEF Step, Reviewing, Publishing, Recovering, Reserving

(* A job that is through stays so. *)
LEMMA DoneStays ==
  ASSUME TypeOK, Facts, Next, NEW k \in Jobs, pc[k] = "done"
  PROVE  pc'[k] = "done"
<1>1. ASSUME Step(k) PROVE FALSE
  <2>1. /\ pc[k] # "check"
        /\ pc[k] \notin {"new", "reserve", "recheck", "confirm", "decide", "push", "admit", "source",
                          "verify", "record", "transport", "release", "settle"}
    OBVIOUS
  <2> QED
    BY <1>1, <2>1 DEF Step, Reviewing, SubmitOther, BeginSubmit, BeginReplay, Confirm, Decide,
       Publishing, BeginSettle, BeginPublish, Push, Authoring, BeginAuthor, BeginReauthor, Recovering,
       BeginRecover, BeginResume, BeginRecovered, Admit, Source, Verify, Record, Transport, Doing,
       Reserving, Reserve, Recheck, Check, Release, Settle, Stop, Begin
<1> QED BY <1>1, Turn DEF Idle

(* Each ref, and each record of a recovery, is written by one kind of step. *)
SoleWriter(j) ==
  /\ main' = main \/ Push(j)
  /\ passed' = passed \/ Decide(j)
  /\ decision' = decision \/ SubmitOther(j) \/ Decide(j)
  /\ admitted' = admitted \/ Admit(j)
  /\ source' = source \/ Source(j)
  /\ executed' = executed \/ Verify(j)
  /\ result' = result \/ Record(j)

LEMMA SoleWriterStep ==
  ASSUME NEW j \in Jobs, Step(j)
  PROVE  SoleWriter(j)
<1>1. CASE Reviewing(j)
  BY <1>1 DEF Reviewing, SubmitOther, BeginSubmit, BeginReplay, Confirm, Begin, SoleWriter, refs, recovery,
     Decide
<1>2. CASE Publishing(j)
  BY <1>2 DEF Publishing, BeginSettle, BeginPublish, Push, Begin, SoleWriter, refs, recovery
<1>3. CASE Authoring(j)
  BY <1>3 DEF Authoring, BeginAuthor, BeginReauthor, Begin, SoleWriter, refs, recovery
<1>4. CASE Recovering(j)
  <2>1. CASE BeginRecover(j) \/ BeginResume(j) \/ BeginRecovered(j)
    BY <2>1 DEF BeginRecover, BeginResume, BeginRecovered, Begin, SoleWriter, refs, recovery
  <2>2. CASE Admit(j) \/ Source(j) \/ Transport(j)
    BY <2>2 DEF Admit, Source, Transport, Doing, SoleWriter, recovery
  <2>3. CASE Verify(j) \/ Record(j)
    BY <2>3 DEF Verify, Record, Doing, SoleWriter
  <2> QED BY <1>4, <2>1, <2>2, <2>3 DEF Recovering
<1>5. CASE Reserving(j)
  BY <1>5 DEF Reserving, Reserve, Recheck, Check, Release, Settle, SoleWriter, refs, recovery
<1>6. CASE Stop(j)
  BY <1>6 DEF Stop, SoleWriter, refs, recovery
<1> QED BY <1>1, <1>2, <1>3, <1>4, <1>5, <1>6 DEF Step

LEMMA SoleWriterAlways ==
  ASSUME Next
  PROVE  \/ \E j \in Jobs : Step(j) /\ SoleWriter(j)
         \/ UNCHANGED <<main, passed, decision, admitted, source, recovery>>
<1>1. CASE \E j \in Jobs : Step(j) BY <1>1, SoleWriterStep
<1>2. CASE (\E r \in Runs : Produce(r)) \/ Tick \/ Clear
  BY <1>2 DEF Produce, Tick, Clear, refs
<1> QED BY <1>1, <1>2 DEF Next

(* Who writes a decision, writes it for a RUN that has none. *)
LEMMA DecisionStep ==
  ASSUME TypeOK, Facts, Next, NEW r \in Runs, decision'[r] # decision[r]
  PROVE  \E j \in Jobs :
           decision[r] = NoJob /\ decision'[r] = j /\ pc'[j] = "done" /\ candidate[r] # Missing
<1>1. ASSUME NEW j \in Jobs, SubmitOther(j) \/ Decide(j)
      PROVE  decision[r] = NoJob /\ decision'[r] = j /\ pc'[j] = "done" /\ candidate[r] # Missing
  <2> Working(j) BY DEF Facts
  <2> QED BY <1>1 DEF SubmitOther, Decide, Goto, TypeOK, Working, AboutRun
<1>2. PICK j \in Jobs : SubmitOther(j) \/ Decide(j)
  BY SoleWriterAlways DEF SoleWriter
<1> QED BY <1>1, <1>2

(* The decisions a job knows of are the ones that stand. *)
LEMMA KnownStep ==
  ASSUME TypeOK, Facts, Durable, Next, NEW k \in Jobs
  PROVE  Known(k)'
<1> Known(k) BY DEF Facts
<1>1. ASSUME NEW r \in Runs, decision'[r] = k PROVE pc'[k] = "done"
  <2>1. CASE decision'[r] = decision[r] BY <1>1, <2>1, DoneStays DEF Known
  <2>2. CASE decision'[r] # decision[r] BY <1>1, <2>2, DecisionStep
  <2> QED BY <2>1, <2>2
<1>2. ASSUME NEW r \in Runs, known'[k][r] # NoJob PROVE decision'[r] = known'[k][r]
  <2>1. CASE known'[k] = known[k] BY <1>2, <2>1 DEF Known, Durable
  <2>2. CASE known'[k] # known[k]
    <3>1. pc[k] = "new" /\ Step(k) BY <2>2, Turn DEF Settled, Idle
    <3>2. known'[k] = decision /\ decision' = decision
      BY <2>2, <3>1 DEF TypeOK, Step, Reviewing, SubmitOther, BeginSubmit, BeginReplay, Confirm,
         Decide, Publishing, BeginSettle, BeginPublish, Push, Authoring, BeginAuthor, BeginReauthor,
         Recovering, BeginRecover, BeginResume, BeginRecovered, Admit, Source, Verify, Record,
         Transport, Doing, Reserving, Reserve, Recheck, Check, Release, Settle, Stop, Begin, refs
    <3> QED BY <3>2
  <2> QED BY <2>1, <2>2
<1> QED BY <1>1, <1>2 DEF Known

(* A new PASS comes with its decision. *)
LEMMA PassStep ==
  ASSUME TypeOK, Facts, Next, NEW r \in passed', r \notin passed
  PROVE  \E j \in Jobs : Decide(j) /\ on[j] = r /\ r \in Runs /\ decision[r] = NoJob
<1>1. PICK j \in Jobs : Decide(j)
  BY SoleWriterAlways DEF SoleWriter
<1>2. Working(j) BY DEF Facts
<1> QED BY <1>1, <1>2 DEF Decide, Working, AboutRun

(* A PASS is a decision about a candidate, always. *)
LEMMA DecidedStep ==
  ASSUME TypeOK, Facts, Durable, Next
  PROVE  Decided'
<1> Decided BY DEF Facts
<1> SUFFICES ASSUME NEW r \in passed' PROVE decision'[r] # NoJob /\ candidate'[r] # Missing
  BY DEF Decided
<1>1. CASE r \in passed BY <1>1 DEF Decided, Durable, TypeOK
<1>2. CASE r \notin passed
  <2>1. PICK j \in Jobs : Decide(j) /\ on[j] = r /\ r \in Runs BY <1>2, PassStep
  <2>2. candidate[r] # Missing /\ decision'[r] = j
    BY <2>1 DEF Decide, TypeOK, Facts, Working, AboutRun
  <2> QED BY <2>1, <2>2, NameAssumption DEF Durable
<1> QED BY <1>1, <1>2

(* The changes in a candidate or a source come from main, from other
   candidates, or are new. *)
LEMMA CandidateStep ==
  ASSUME TypeOK, Facts, Next, NEW r \in Runs, NEW k \in Jobs,
         k \in candidate'[r] \cup source'[r]
  PROVE  k \in main
<1> Lineage BY DEF Facts
<1>1. CASE k \in candidate[r] \cup source[r] BY <1>1 DEF Lineage
<1>2. CASE k \notin candidate[r] \cup source[r]
  <2>1. ASSUME NEW q \in Runs, Produce(q) PROVE k \in main
    <3>1. PICK parent \in {main} \cup {candidate[o] : o \in {x \in Runs : candidate[x] # Missing}} :
            candidate' = [candidate EXCEPT ![q] = parent \cup {q}]
      BY <2>1 DEF Produce
    <3>2. k \in parent BY <1>2, <2>1, <3>1, NameAssumption DEF Produce, TypeOK
    <3> QED BY <3>2 DEF Lineage
  <2>2. ASSUME NEW j \in Jobs, Source(j) PROVE k \in main
    <3>1. Based(j) /\ Working(j) BY DEF Facts
    <3>2. on[j] \in Runs /\ on[j] = r BY <1>2, <2>2, <3>1 DEF Source, Doing, Working, Stages, AboutRun, TypeOK
    <3>3. k \in base[j] \cup candidate[r] \cup {Merge(r)} BY <1>2, <2>2, <3>2 DEF Source, Doing, TypeOK
    <3> QED BY <3>1, <3>3, NameAssumption DEF Lineage, Based, Merge
  <2>3. ASSUME NEW j \in Jobs, Transport(j) PROVE k \in main
    <3>1. Working(j) BY DEF Facts
    <3>2. on[j] \in Runs BY <2>3, <3>1 DEF Transport, Doing, Working, Stages, AboutRun
    <3>3. k \in source[on[j]] BY <1>2, <2>3, <3>2 DEF Transport, TypeOK
    <3> QED BY <3>2, <3>3 DEF Lineage
  <2>4. CASE candidate' = candidate /\ source' = source BY <1>2, <2>4
  <2>5. ASSUME NEW j \in Jobs, Step(j), ~Source(j), ~Transport(j)
        PROVE  candidate' = candidate /\ source' = source
    BY <2>5 DEF Step, Reviewing, SubmitOther, BeginSubmit, BeginReplay, Confirm, Decide, Publishing,
       BeginSettle, BeginPublish, Push, Authoring, BeginAuthor, BeginReauthor, Recovering,
       BeginRecover, BeginResume, BeginRecovered, Admit, Verify, Record, Doing, Reserving, Reserve,
       Recheck, Check, Release, Settle, Stop, Begin, refs
  <2> QED BY <2>1, <2>2, <2>3, <2>4, <2>5 DEF Next, Tick, Clear, refs
<1> QED BY <1>1, <1>2

(* A recovery is admitted for a PASS that main has diverged from. *)
LEMMA AdmittedStep ==
  ASSUME TypeOK, Facts, Next, NEW r \in Runs, admitted'[r] # NoPlan, admitted[r] = NoPlan
  PROVE  \E j \in Jobs :
           /\ Admit(j) /\ on[j] = r /\ r \in passed /\ admitted'[r].main = base[j]
           /\ base[j] \subseteq main /\ ~(base[j] \subseteq candidate[r])
<1>1. PICK j \in Jobs : Admit(j)
  BY SoleWriterAlways DEF SoleWriter
<1>2. Working(j) /\ Based(j) BY DEF Facts
<1>3. op[j] = "recover" /\ on[j] \in passed /\ pc[j] \in Stages
  BY <1>1, <1>2 DEF Admit, Doing, Working, Stages
<1>4. on[j] = r /\ admitted'[r].main = base[j] BY <1>1, <1>3 DEF Admit, TypeOK
<1> QED BY <1>1, <1>2, <1>3, <1>4 DEF Based

(* Every step keeps the facts. *)
LEMMA FactsStep ==
  ASSUME TypeOK, Facts, Next
  PROVE  Durable /\ Facts'
<1>1. Durable BY DurableStep DEF Facts
<1>2. ASSUME NEW k \in Jobs PROVE Working(k)' /\ Based(k)' /\ Reserved(k)' /\ Known(k)'
  <2>1. Known(k)' BY <1>1, KnownStep
  <2>2. CASE Step(k) BY <1>1, <2>1, <2>2, MovingFacts
  <2>3. CASE ~Step(k)
    <3>1. Idle(k) BY <2>3, Turn
    <3>2. k \in main' => k \in main
      BY <2>3, OnlyAuthors DEF Next, Produce, Tick, Clear, refs
    <3> QED BY <1>1, <2>1, <3>1, <3>2, IdleFacts DEF Facts
  <2> QED BY <2>2, <2>3
<1>3. Decided' BY <1>1, DecidedStep
<1>4. Lineage'
  <2> SUFFICES ASSUME NEW r \in Runs
               PROVE  /\ \A k \in Jobs : k \in candidate'[r] \cup source'[r] => k \in main'
                      /\ admitted'[r] # NoPlan => r \in passed' /\ admitted'[r].main \subseteq main'
                           /\ ~(admitted'[r].main \subseteq candidate'[r])
    BY DEF Lineage
  <2>1. \A k \in Jobs : k \in candidate'[r] \cup source'[r] => k \in main'
    BY <1>1, CandidateStep DEF Durable
  <2>2. ASSUME admitted[r] # NoPlan
        PROVE  r \in passed' /\ admitted'[r].main \subseteq main' /\ ~(admitted'[r].main \subseteq candidate'[r])
    <3>1. r \in passed /\ admitted[r].main \subseteq main /\ ~(admitted[r].main \subseteq candidate[r])
      BY <2>2 DEF Facts, Lineage
    <3>2. candidate'[r] = candidate[r] /\ admitted'[r] = admitted[r]
      BY <1>1, <2>2, <3>1 DEF Durable, Facts, Decided
    <3> QED BY <1>1, <3>1, <3>2 DEF Durable
  <2>3. ASSUME admitted[r] = NoPlan, admitted'[r] # NoPlan
        PROVE  r \in passed' /\ admitted'[r].main \subseteq main' /\ ~(admitted'[r].main \subseteq candidate'[r])
    <3>1. PICK j \in Jobs :
            /\ r \in passed /\ admitted'[r].main = base[j]
            /\ base[j] \subseteq main /\ ~(base[j] \subseteq candidate[r])
      BY <2>3, AdmittedStep
    <3>2. candidate'[r] = candidate[r] BY <1>1, <3>1 DEF Durable, Facts, Decided
    <3> QED BY <1>1, <3>1, <3>2 DEF Durable
  <2> QED BY <2>1, <2>2, <2>3
<1> QED BY <1>1, <1>2, <1>3, <1>4 DEF Facts

(* They hold initially. *)
LEMMA FactsInit == Init => Facts
<1> SUFFICES ASSUME Init PROVE Facts OBVIOUS
<1>1. Decided
  <2>1. \A r \in Legacy : decision[r] = Before /\ candidate[r] # Missing
    BY BoundAssumption DEF Init, Missing
  <2> QED BY <2>1, NameAssumption DEF Init, Decided
<1>2. Lineage
  <2>1. \A r \in Runs : admitted[r] = NoPlan /\ source[r] = {} /\ candidate[r] \subseteq {Root, r}
    BY DEF Init, Missing
  <2> QED BY <2>1, NameAssumption DEF Lineage
<1>3. ASSUME NEW j \in Jobs PROVE Working(j) /\ Based(j) /\ Reserved(j) /\ Known(j)
  <2>1. pc[j] = "new" /\ op[j] = "none" /\ base[j] = {} /\ token[j] = NoToken
    BY DEF Init, Missing
  <2>2. j \notin main
    <3>1. main \subseteq {Root} \cup Runs BY BoundAssumption DEF Init
    <3> QED BY <3>1, NameAssumption
  <2>3. \A r \in Runs : decision[r] \in {Before, NoJob} /\ known[j][r] = NoJob BY DEF Init
  <2>4. Working(j) BY <2>1 DEF Working, AboutRun, Waiting, Stages, Moving
  <2>5. Based(j) BY <2>1, <2>2 DEF Based, Moves, AboutRun, Waiting, Stages, Moving
  <2>6. Reserved(j) BY <2>1 DEF Reserved, Stages
  <2>7. Known(j) BY <2>3, NameAssumption DEF Known
  <2> QED BY <2>4, <2>5, <2>6, <2>7
<1> QED BY <1>1, <1>2, <1>3 DEF Facts

-----------------------------------------------------------------------------
(* The reservation *)

(* A reservation tells what its owner wants. *)
LEMMA TokenTells ==
  ASSUME Facts, NEW j \in Jobs, token[j] # NoToken
  PROVE  /\ token[j].subject = on[j] /\ token[j].source = Goal(j)
         /\ token[j].main = base[j] /\ token[j].decision = DecisionOf(j)
<1>1. token[j] = Wanted(j, token[j].at) BY DEF Facts, Reserved
<1> QED BY <1>1 DEF Wanted

(* Two jobs with the same reservation want the same. *)
LEMMA SharedWant ==
  ASSUME Facts, NEW j \in Jobs, NEW k \in Jobs, token[j] = token[k], token[k] # NoToken
  PROVE  on[j] = on[k] /\ Goal(j) = Goal(k) /\ base[j] = base[k] /\ DecisionOf(j) = DecisionOf(k)
BY TokenTells

(* Nobody else works under the reservation of a review that is not written. *)
LEMMA ReviewIsAlone ==
  ASSUME TypeOK, Facts, NEW j \in Jobs, NEW k \in Jobs, token[j] = token[k], token[k] # NoToken,
         op[k] = "submit", pc[k] # "done"
  PROVE  j = k
<1>1. on[j] = on[k] /\ DecisionOf(j) = DecisionOf(k) BY SharedWant
<1>2. DecisionOf(k) = k BY DecisionIs
<1>3. CASE op[j] = "submit" BY <1>1, <1>2, <1>3, DecisionIs
<1>4. CASE op[j] = "author" BY <1>1, <1>2, <1>4, DecisionIs, NameAssumption
<1>5. CASE op[j] \notin {"submit", "author"}
  <2>1. decision[on[j]] = k BY <1>1, <1>2, <1>5, DecisionIs
  <2>2. on[j] \in Runs BY <1>1 DEF Facts, Working, AboutRun
  <2> QED BY <2>1, <2>2 DEF Facts, Known
<1> QED BY <1>3, <1>4, <1>5

(* What a waiting review or a move that can happen holds is not released. *)
LEMMA NotReleased ==
  ASSUME TypeOK, Facts, NEW j \in Jobs, NEW k \in Jobs, Release(j) \/ Settle(j),
         tip = token[k], token[k] # NoToken,
         \/ op[k] = "submit" /\ pc[k] # "done" /\ pc[k] # "release" /\ pc[k] # "settle"
         \/ Moves(k) /\ main = base[k]
  PROVE  tip' = tip
<1> Working(j) /\ Based(j) /\ Known(k) /\ Working(k) /\ Based(k) BY DEF Facts
<1>1. /\ tip.subject = on[k] /\ tip.source = Goal(k) /\ tip.main = base[k] /\ tip.decision = DecisionOf(k)
  BY TokenTells
<1>2. op[j] \in Moving \cup {"recover"} /\ (op[j] # "author" => on[j] \in Runs /\ Goal(j) = candidate[on[j]])
  BY DEF Release, Settle, Working, Moving, AboutRun, Goal
<1>3. CASE Release(j) /\ tip = token[j]
  <2>1. Goal(j) = Goal(k) /\ base[j] = base[k] BY <1>3, SharedWant
  <2>2. CASE op[k] = "submit" /\ pc[k] # "done" /\ pc[k] # "release"
    <3>1. j = k BY <1>3, <2>2, ReviewIsAlone
    <3> QED BY <1>2, <2>2, <3>1 DEF Moving
  <2>3. CASE Moves(k) /\ main = base[k]
    <3>1. base[k] \subseteq Goal(k) /\ ~(Goal(k) \subseteq main) BY <2>3 DEF Based
    <3>2. op[j] \in Moving => Goal(j) \subseteq main BY <1>3 DEF Release, Based
    <3>3. op[j] = "recover" => ~(base[j] \subseteq Goal(j)) BY <1>2, <1>3 DEF Release, Based
    <3> QED BY <1>2, <2>1, <3>1, <3>2, <3>3
  <2> QED BY <1>3, <2>2, <2>3 DEF Settle, Release
<1>4. CASE Settle(j) /\ Finished(j)
  <2>1. CASE op[k] = "submit" /\ pc[k] # "done"
    <3>1. tip.decision = k /\ on[k] \in Runs BY <1>1, <2>1, DecisionIs DEF Working, AboutRun
    <3>2. CASE op[j] = "author"
      <4>1. on[j] \in Tasks /\ tip.subject = on[j] BY <1>4, <3>2 DEF Finished, Working
      <4> QED BY <1>1, <3>1, <4>1, NameAssumption
    <3>3. CASE op[j] # "author"
      <4>1. decision[on[j]] = k BY <1>4, <3>1, <3>3 DEF Finished
      <4> QED BY <1>2, <2>1, <3>3, <4>1 DEF Known
    <3> QED BY <3>2, <3>3
  <2>2. CASE Moves(k) /\ main = base[k]
    <3>1. base[k] \subseteq Goal(k) /\ ~(Goal(k) \subseteq main) BY <2>2 DEF Based
    <3>2. base[j] \subseteq main BY DEF Based
    <3>3. CASE op[j] = "author" BY <1>1, <1>4, <3>1, <3>2, <3>3 DEF Finished
    <3>4. CASE op[j] # "author"
      <4>1. Goal(k) = candidate[on[j]] /\ (base[k] = base[j] \/ candidate[on[j]] \subseteq base[j])
        BY <1>1, <1>4, <3>4 DEF Finished
      <4>2. candidate[on[j]] \subseteq base[j] \/ ~(base[j] \subseteq candidate[on[j]])
        BY <1>2, <1>4, <3>4 DEF Settle, Based, Moving
      <4> QED BY <3>1, <3>2, <4>1, <4>2
    <3> QED BY <3>3, <3>4
  <2> QED BY <2>1, <2>2
<1>5. ~(Release(j) /\ tip = token[j]) /\ ~(Settle(j) /\ Finished(j)) => tip' = tip
  BY DEF Release, Settle, Held
<1> QED BY <1>3, <1>4, <1>5

(* Whoever works under the reservation keeps it, as long as it may write. *)
LEMMA TipStays ==
  ASSUME TypeOK, Facts, Next, NEW k \in Jobs, tip = token[k], token[k] # NoToken,
         \/ op[k] = "submit" /\ pc[k] \in {"check", "confirm", "decide"}
         \/ Moves(k) /\ main = base[k]
  PROVE  tip' = tip
<1>1. ASSUME NEW j \in Jobs, Reserve(j) PROVE tip' = tip BY <1>1 DEF Reserve
<1>2. ASSUME NEW j \in Jobs, Release(j) \/ Settle(j) PROVE tip' = tip BY <1>2, NotReleased
<1>3. ASSUME NEW j \in Jobs, Step(j), ~Reserve(j), ~Release(j), ~Settle(j) PROVE tip' = tip
  BY <1>3 DEF Step, Reviewing, SubmitOther, BeginSubmit, BeginReplay, Confirm, Decide, Publishing,
     BeginSettle, BeginPublish, Push, Authoring, BeginAuthor, BeginReauthor, Recovering, BeginRecover,
     BeginResume, BeginRecovered, Admit, Source, Verify, Record, Transport, Doing, Reserving, Recheck,
     Check, Stop, Begin
<1>4. ~Clear
  <2>1. pc[k] # "done" BY DEF Moves, Waiting
  <2> QED BY <2>1 DEF Clear
<1> QED BY <1>1, <1>2, <1>3, <1>4 DEF Next, Produce, Tick

(* When main stays at what a job read, it was there before. *)
LEMMA MainStays ==
  ASSUME Facts, Durable, NEW k \in Jobs, base'[k] = base[k], main' = base'[k]
  PROVE  main' = main
BY DEF Facts, Based, Durable

(* A job that comes closer to its write under a reservation it had. *)
LEMMA Onward ==
  ASSUME TypeOK, Facts, NEW k \in Jobs, Step(k), ~Reserve(k),
         pc'[k] \in {"recheck", "check", "confirm", "decide", "push"},
         op'[k] \in Moving \cup {"submit"}
  PROVE  /\ tip' = tip /\ main' = main /\ token' = token /\ base' = base /\ op' = op /\ on' = on
         /\ known' = known /\ passed' = passed /\ candidate' = candidate
         /\ \/ Recheck(k) /\ pc[k] = "recheck" /\ pc'[k] = "check" /\ op[k] \in Moving
            \/ Check(k) /\ pc[k] = "check" /\ op[k] \in Moving /\ pc'[k] = "push"
            \/ Check(k) /\ pc[k] = "check" /\ op[k] = "submit" /\ pc'[k] = "confirm"
            \/ Confirm(k) /\ pc[k] = "confirm" /\ op[k] = "submit" /\ pc'[k] = "decide"
<1> Working(k) BY DEF Facts
<1> USE DEF TypeOK, Goto
<1>1. CASE Recheck(k) BY <1>1 DEF Recheck, refs, Working, Moving
<1>2. CASE Check(k) BY <1>2 DEF Check, refs, Working, Moving, Waiting
<1>3. CASE Confirm(k) BY <1>3 DEF Confirm, refs, Working
<1>4. CASE ~Recheck(k) /\ ~Check(k) /\ ~Confirm(k)
  <2>1. CASE Admit(k) \/ Source(k) \/ Verify(k) \/ Record(k) \/ Transport(k)
    <3>1. op'[k] = "recover"
      BY <2>1 DEF Admit, Source, Verify, Record, Transport, Doing, Working, Stages
    <3> QED BY <3>1 DEF Moving
  <2>2. CASE ~(Admit(k) \/ Source(k) \/ Verify(k) \/ Record(k) \/ Transport(k))
    BY <1>4, <2>2 DEF Step, Reviewing, SubmitOther, BeginSubmit, BeginReplay, Decide, Publishing,
       BeginSettle, BeginPublish, Push, Authoring, BeginAuthor, BeginReauthor, Recovering,
       BeginRecover, BeginResume, BeginRecovered, Reserving, Release, Settle, Stop, Begin, Proceed
  <2> QED BY <2>1, <2>2
<1> QED BY <1>1, <1>2, <1>3, <1>4

(* Nobody takes the reservation from a job that may still write. *)
LEMMA HoldingStep ==
  ASSUME TypeOK, Facts, Durable, Locks, Next, NEW k \in Jobs
  PROVE  Holding(k)'
<1> Holding(k) /\ Reserved(k) BY DEF Locks, Facts
<1>1. CASE Idle(k)
  <2>1. ASSUME op'[k] = "submit", pc'[k] \in {"check", "confirm", "decide"} PROVE tip' = token'[k]
    <3>1. tip = token[k] /\ token[k] # NoToken BY <1>1, <2>1 DEF Idle, Holding, Reserved
    <3>2. tip' = tip BY <1>1, <2>1, <3>1, TipStays DEF Idle
    <3> QED BY <1>1, <3>1, <3>2 DEF Idle
  <2>2. ASSUME op'[k] \in Moving, pc'[k] \in {"recheck", "check", "push"}, main' = base'[k]
        PROVE  tip' = token'[k]
    <3>1. main = base[k] BY <1>1, <2>2, MainStays DEF Idle
    <3>2. tip = token[k] /\ token[k] # NoToken BY <1>1, <2>2, <3>1 DEF Idle, Holding, Reserved
    <3>3. tip' = tip BY <1>1, <2>2, <3>1, <3>2, TipStays DEF Idle, Moves, Waiting
    <3> QED BY <1>1, <3>2, <3>3 DEF Idle
  <2> QED BY <2>1, <2>2 DEF Holding
<1>2. CASE Reserve(k)
  <2>1. token'[k] = tip' BY <1>2 DEF Reserve, TypeOK
  <2> QED BY <2>1 DEF Holding
<1>3. CASE Step(k) /\ ~Reserve(k)
  <2> SUFFICES ASSUME pc'[k] \in {"recheck", "check", "confirm", "decide", "push"},
                      op'[k] \in Moving \cup {"submit"}
               PROVE  Holding(k)'
    BY DEF Holding
  <2> QED BY <1>3, Onward DEF Holding, Moving
<1> QED BY <1>1, <1>2, <1>3, Turn

(* Two jobs cannot both write while main is what they read, unless they
   share one reservation; a review shares with nobody. *)
LEMMA ReviewExcludesMove ==
  ASSUME TypeOK, Facts, Locks, NEW j \in Jobs, NEW k \in Jobs,
         op[j] = "submit", pc[j] \in {"check", "confirm", "decide"},
         op[k] \in Moving, pc[k] \in {"recheck", "check", "push"}
  PROVE  main # base[k]
<1> SUFFICES ASSUME main = base[k] PROVE FALSE OBVIOUS
<1>1. tip = token[j] /\ tip = token[k] /\ token[j] # NoToken BY DEF Locks, Holding, Facts, Reserved
<1>2. j = k BY <1>1, ReviewIsAlone
<1> QED BY <1>2 DEF Moving

(* A review stays confirmed until it is written. *)
LEMMA DecidingStep ==
  ASSUME TypeOK, Facts, Locks, Next, NEW k \in Jobs
  PROVE  Deciding(k)'
<1> SUFFICES ASSUME pc'[k] = "decide" PROVE main' = base'[k] BY DEF Deciding
<1>1. CASE Idle(k)
  <2>1. op[k] = "submit" /\ pc[k] = "decide" /\ main = base[k]
    BY <1>1 DEF Idle, Facts, Working, Locks, Deciding
  <2>2. ASSUME NEW j \in Jobs, Push(j) PROVE FALSE
    <3>1. op[j] \in Moving /\ pc[j] = "push" /\ main = base[j]
      BY <2>2 DEF Push, Facts, Working
    <3> QED BY <2>1, <3>1, ReviewExcludesMove
  <2>3. main' = main
    BY <2>2, SoleWriterAlways DEF SoleWriter
  <2> QED BY <1>1, <2>1, <2>3 DEF Idle
<1>2. CASE Reserve(k)
  <2>1. pc'[k] \in {"check", "done", "recheck"} BY <1>2, ReserveGoes
  <2> QED BY <2>1
<1>3. CASE Step(k) /\ ~Reserve(k)
  <2>1. CASE Confirm(k) BY <2>1 DEF Confirm, refs
  <2>2. CASE ~Confirm(k)
    <3>1. Working(k) /\ TypeOK BY DEF Facts
    <3> QED
      BY <1>3, <2>2, <3>1 DEF Step, Reviewing, SubmitOther, BeginSubmit, BeginReplay, Decide,
         Publishing, BeginSettle, BeginPublish, Push, Authoring, BeginAuthor, BeginReauthor,
         Recovering, BeginRecover, BeginResume, BeginRecovered, Admit, Source, Verify, Record,
         Transport, Doing, ThenCheck, Reserving, Recheck, Check, Release, Settle, Stop, Begin,
         Proceed, Goto, TypeOK, Working, Waiting, Stages, Moving
  <2> QED BY <2>1, <2>2
<1> QED BY <1>1, <1>2, <1>3, Turn

(* A job that can move main either begins, or could do so before. *)
LEMMA MovesBefore ==
  ASSUME TypeOK, Facts, Durable, Next, NEW k \in Jobs, Moves(k)'
  PROVE  \/ BeginPublish(k) \/ BeginAuthor(k)
         \/ Moves(k) /\ Goal(k)' = Goal(k) /\ on'[k] = on[k] /\ base'[k] = base[k] /\ known'[k] = known[k]
<1> Working(k) /\ Decided BY DEF Facts
<1> USE DEF Moves
<1>1. CASE Idle(k)
  <2>1. op[k] # "none" /\ Settled(k) BY <1>1 DEF Idle, Moving, Settled, Waiting
  <2> QED BY <1>1, <2>1, WantedStays DEF Idle
<1>2. CASE Step(k) /\ pc[k] = "new"
  BY <1>2 DEF Step, Reviewing, SubmitOther, BeginSubmit, BeginReplay, Confirm, Decide, Publishing,
     BeginSettle, Push, Authoring, BeginReauthor, Recovering, BeginRecover, BeginResume,
     BeginRecovered, Admit, Source, Verify, Record, Transport, Doing, Reserving, Reserve, Recheck,
     Check, Release, Settle, Stop, Begin, Proceed, Goto, TypeOK, Moving, Waiting
<1>3. CASE Step(k) /\ pc[k] # "new"
  <2>1. Settled(k) /\ op[k] \in Moving BY <1>3, Turn DEF Settled
  <2>2. pc[k] \in Waiting \cup {"push"}
    <3>1. CASE Reserve(k) BY <3>1 DEF Reserve, Waiting
    <3>2. CASE ~Reserve(k) /\ pc'[k] \in {"recheck", "check", "push"}
      BY <1>3, <3>2, Onward DEF Waiting, Moving
    <3>3. CASE pc'[k] = "reserve"
      BY <1>3, <3>3 DEF Step, Reviewing, SubmitOther, BeginSubmit, BeginReplay, Confirm, Decide,
         Publishing, BeginSettle, BeginPublish, Push, Authoring, BeginAuthor, BeginReauthor,
         Recovering, BeginRecover, BeginResume, BeginRecovered, Admit, Source, Verify, Record,
         Transport, Doing, ThenCheck, Reserving, Reserve, Recheck, Check, Release, Settle, Stop,
         Begin, Proceed, Goto, TypeOK, Working, Waiting, Stages, Moving
    <3> QED BY <3>1, <3>2, <3>3 DEF Waiting
  <2>3. op[k] # "none" BY <2>1 DEF Moving
  <2> QED BY <2>1, <2>2, <2>3, WantedStays
<1> QED BY <1>1, <1>2, <1>3, Turn

(* The guard of a move covers every PASS its job knows of. *)
LEMMA GuardedStep ==
  ASSUME TypeOK, Facts, Durable, Locks, Next, NEW k \in Jobs
  PROVE  Guarded(k)'
<1> SUFFICES ASSUME Moves(k)', NEW o \in passed', known'[k][o] # NoJob, o # on'[k],
                    base'[k] \subseteq candidate'[o], ~(candidate'[o] \subseteq base'[k])
             PROVE  candidate'[o] \subseteq Goal(k)'
  BY DEF Guarded
<1>1. CASE BeginPublish(k)
  <2>1. PICK r \in passed : ~Competing(r, candidate[r]) /\ Begin(k, "publish", r, "reserve", "push")
    BY <1>1 DEF BeginPublish
  <2>2. on'[k] = r /\ base'[k] = main /\ candidate' = candidate /\ passed' = passed /\ op'[k] = "publish"
    BY <2>1 DEF Begin, TypeOK, refs
  <2>3. Goal(k)' = candidate[r] BY <2>2 DEF Goal
  <2> QED BY <2>1, <2>2, <2>3 DEF Competing, Eligible, Contained
<1>2. CASE BeginAuthor(k)
  <2>1. PICK t \in Tasks : ~Competing(NoJob, main \cup {k}) /\ Begin(k, "author", t, "reserve", "push")
    BY <1>2 DEF BeginAuthor
  <2>2. base'[k] = main /\ candidate' = candidate /\ passed' = passed /\ op'[k] = "author"
    BY <2>1 DEF Begin, TypeOK, refs
  <2>3. Goal(k)' = main \cup {k} BY <2>2 DEF Goal
  <2>4. o \in passed \ {NoJob} BY <2>2, NameAssumption DEF TypeOK
  <2> QED BY <2>1, <2>2, <2>3, <2>4 DEF Competing, Eligible, Contained
<1>3. CASE Moves(k) /\ Goal(k)' = Goal(k) /\ on'[k] = on[k] /\ base'[k] = base[k] /\ known'[k] = known[k]
  <2>1. o \in passed
    <3> SUFFICES ASSUME o \notin passed PROVE FALSE OBVIOUS
    <3>1. o \in Runs /\ decision[o] = NoJob BY PassStep
    <3> QED BY <1>3, <3>1 DEF Facts, Known
  <2>2. candidate'[o] = candidate[o] BY <2>1 DEF Facts, Decided, Durable, TypeOK
  <2> QED BY <1>3, <2>1, <2>2 DEF Locks, Guarded
<1> QED BY <1>1, <1>2, <1>3, MovesBefore

(* While a move can happen its job knows of every PASS. *)
LEMMA CompleteStep ==
  ASSUME TypeOK, Facts, Durable, Locks, Next, NEW k \in Jobs
  PROVE  Complete(k)'
<1> Working(k) /\ Complete(k) BY DEF Facts, Locks
<1> SUFFICES ASSUME op'[k] \in Moving, pc'[k] \in {"check", "push"}, main' = base'[k], NEW o \in passed'
             PROVE  known'[k][o] # NoJob
  BY DEF Complete
<1>1. CASE Idle(k)
  <2>1. op[k] \in Moving /\ pc[k] \in {"check", "push"} /\ main = base[k]
    BY <1>1, MainStays DEF Idle
  <2>2. o \in passed
    <3> SUFFICES ASSUME o \notin passed PROVE FALSE OBVIOUS
    <3>1. PICK j \in Jobs : Decide(j) BY PassStep
    <3>2. op[j] = "submit" /\ pc[j] = "decide" BY <3>1 DEF Decide, Facts, Working
    <3> QED BY <2>1, <3>2, ReviewExcludesMove
  <2> QED BY <1>1, <2>1, <2>2 DEF Complete, Idle
<1>2. CASE Reserve(k)
  <2>1. op'[k] = op[k] BY <1>2 DEF Reserve
  <2>2. pc'[k] = "recheck" BY <1>2, <2>1, ReserveGoes DEF Moving
  <2> QED BY <2>2
<1>3. CASE Step(k) /\ ~Reserve(k)
  <2>1. /\ main' = main /\ base' = base /\ known' = known /\ passed' = passed
        /\ \/ Recheck(k)
           \/ pc[k] = "check" /\ op[k] \in Moving
    BY <1>3, Onward DEF Moving
  <2>2. CASE Recheck(k) BY <2>1, <2>2 DEF Recheck, Facts, Decided
  <2>3. CASE pc[k] = "check" /\ op[k] \in Moving BY <2>1, <2>3 DEF Complete
  <2> QED BY <2>1, <2>2, <2>3
<1> QED BY <1>1, <1>2, <1>3, Turn

-----------------------------------------------------------------------------
(* The inductive invariant holds *)

(* It holds initially, *)
LEMMA Initially == Init => IInv
<1> SUFFICES ASSUME Init PROVE IInv OBVIOUS
<1>1. TypeOK /\ Facts BY TypeInit, FactsInit
<1>2. Locks
  <2>1. \A j \in Jobs : pc[j] = "new" BY DEF Init
  <2> QED BY <2>1 DEF Locks, Guarded, Moves, Waiting, Complete, Holding, Deciding
<1> QED BY <1>1, <1>2 DEF IInv

(* every step keeps it and what is durable, *)
LEMMA Stepwise == IInv /\ Next => Durable /\ IInv'
<1> SUFFICES ASSUME IInv, Next PROVE Durable /\ IInv' OBVIOUS
<1> TypeOK /\ Facts /\ Locks BY DEF IInv
<1>1. TypeOK' BY TypeStep DEF Facts
<1>2. Durable /\ Facts' BY FactsStep
<1>3. Locks' BY <1>2, GuardedStep, CompleteStep, HoldingStep, DecidingStep DEF Locks
<1> QED BY <1>1, <1>2, <1>3 DEF IInv

(* and so does a step that changes nothing. *)
LEMMA Stutter == IInv /\ UNCHANGED vars => IInv'
<1> SUFFICES ASSUME IInv, UNCHANGED vars PROVE IInv' OBVIOUS
<1> USE DEF vars, refs, recovery, job
<1>1. TypeOK' BY DEF IInv, TypeOK
<1>2. Facts'
  BY DEF IInv, Facts, Decided, Lineage, Working, Based, Moves, Goal, Reserved, Wanted, DecisionOf, Known
<1>3. Locks' BY DEF IInv, Locks, Guarded, Moves, Goal, Complete, Holding, Deciding
<1> QED BY <1>1, <1>2, <1>3 DEF IInv

(* The invariant holds in every reachable state. *)
THEOREM Invariance == Spec => []IInv
<1>1. IInv /\ [Next]_vars => IInv' BY Stepwise, Stutter
<1> QED BY Initially, <1>1, PTL DEF Spec

(* Every variable has its type, in every instance. *)
THEOREM TypeCorrect == Spec => []TypeOK
<1>1. IInv => TypeOK BY DEF IInv
<1> QED BY Invariance, <1>1, PTL

-----------------------------------------------------------------------------
(* What the writers of main and of PASSes may do *)

(* Only a push moves main. *)
LEMMA OnlyPushMoves ==
  ASSUME Next, main' # main
  PROVE  \E j \in Jobs : Push(j)
BY SoleWriterAlways DEF SoleWriter

(* Who pushes holds the reservation for it, and leaves no PASS behind. *)
LEMMA PushIsOwned ==
  ASSUME IInv, NEW j \in Jobs, Push(j)
  PROVE  /\ op[j] \in Moving /\ main = base[j] /\ main' = Goal(j)
         /\ main \subseteq main' /\ ~(main' \subseteq main)
         /\ tip # NoToken /\ tip.main = main /\ tip.source = main'
         /\ \A o \in passed : o # on[j] /\ Eligible(o) => candidate[o] \subseteq main'
         /\ candidate' = candidate /\ passed' = passed
<1> TypeOK /\ Facts /\ Locks BY DEF IInv
<1>1. op[j] \in Moving /\ main = base[j] /\ main' = Goal(j) /\ pc[j] = "push"
  BY DEF Push, Facts, Working
<1>2. Moves(j) BY <1>1 DEF Moves
<1>3. base[j] \subseteq Goal(j) /\ ~(Goal(j) \subseteq base[j]) BY <1>2 DEF Facts, Based
<1>4. tip = token[j] /\ token[j] # NoToken BY <1>1 DEF Locks, Holding, Facts, Reserved
<1>5. tip.main = base[j] /\ tip.source = Goal(j) BY <1>4, TokenTells
<1>6. ASSUME NEW o \in passed, o # on[j], Eligible(o) PROVE candidate[o] \subseteq main'
  <2>1. known[j][o] # NoJob BY <1>1 DEF Locks, Complete
  <2> QED BY <1>1, <1>2, <1>6, <2>1 DEF Locks, Guarded, Eligible, Contained
<1> QED BY <1>1, <1>3, <1>4, <1>5, <1>6 DEF Push

(* main moves forward only, and only under a reservation for this move. *)
THEOREM MovesAreOwned == Spec => MoveIsOwned
<1>1. IInv /\ [Next]_vars =>
        [main' # main => main \subseteq main' /\ tip # NoToken /\ tip.main = main /\ tip.source = main']_vars
  <2> SUFFICES ASSUME IInv, Next, main' # main
               PROVE  main \subseteq main' /\ tip # NoToken /\ tip.main = main /\ tip.source = main'
    OBVIOUS
  <2> QED BY OnlyPushMoves, PushIsOwned
<1> QED BY Invariance, <1>1, PTL DEF Spec, MoveIsOwned

(* A PASS becomes durable under its own reservation, for the main it is
   about. *)
THEOREM PassesAreOwned == Spec => PassIsOwned
<1> DEFINE Owned == \A r \in passed' \ passed :
                      /\ tip # NoToken /\ tip.subject = r /\ tip.source = candidate[r]
                      /\ tip.main = main /\ tip.decision = decision'[r]
<1>1. IInv /\ [Next]_vars => [Owned]_vars
  <2> SUFFICES ASSUME IInv, Next, NEW r \in passed', r \notin passed
               PROVE  /\ tip # NoToken /\ tip.subject = r /\ tip.source = candidate[r]
                      /\ tip.main = main /\ tip.decision = decision'[r]
    OBVIOUS
  <2> TypeOK /\ Facts /\ Locks BY DEF IInv
  <2>1. PICK j \in Jobs : Decide(j) /\ on[j] = r /\ r \in Runs BY PassStep
  <2>2. op[j] = "submit" /\ pc[j] = "decide" BY <2>1 DEF Decide, Facts, Working
  <2>3. tip = token[j] /\ token[j] # NoToken /\ main = base[j]
    BY <2>2 DEF Locks, Holding, Deciding, Facts, Reserved
  <2>4. tip.subject = r /\ tip.source = Goal(j) /\ tip.main = main /\ tip.decision = DecisionOf(j)
    BY <2>1, <2>3, TokenTells
  <2>5. Goal(j) = candidate[r] BY <2>1, <2>2 DEF Goal
  <2>6. DecisionOf(j) = j BY <2>2, DecisionIs
  <2>7. decision'[r] = j BY <2>1 DEF Decide, TypeOK
  <2> QED BY <2>3, <2>4, <2>5, <2>6, <2>7
<1> QED BY Invariance, <1>1, PTL DEF Spec, PassIsOwned

(* A PASS that can be published stays publishable until it is published. *)
THEOREM NoPassIsStranded == Spec => NoPassStranded
<1> DEFINE Kept == \A r \in Runs : Eligible(r) => Eligible(r)' \/ Contained(r)'
<1>1. IInv /\ [Next]_vars => [Kept]_vars
  <2> SUFFICES ASSUME IInv, Next, NEW r \in Runs, Eligible(r) PROVE Eligible(r)' \/ Contained(r)'
    OBVIOUS
  <2>1. r \in passed' /\ candidate'[r] = candidate[r]
    BY Stepwise DEF IInv, Facts, Decided, Durable, Eligible
  <2>2. CASE main' = main BY <2>1, <2>2 DEF Eligible, Contained
  <2>3. CASE main' # main
    <3>1. PICK j \in Jobs : Push(j) BY <2>3, OnlyPushMoves
    <3>2. candidate[r] \subseteq main'
      <4>1. CASE on[j] = r
        <5>1. op[j] # "author" BY <4>1, NameAssumption DEF IInv, Facts, Working
        <5> QED BY <3>1, <4>1, <5>1, PushIsOwned DEF Goal
      <4>2. CASE on[j] # r BY <3>1, <4>2, PushIsOwned DEF Eligible
      <4> QED BY <4>1, <4>2
    <3> QED BY <2>1, <3>2 DEF Contained
  <2> QED BY <2>2, <2>3
<1> QED BY Invariance, <1>1, PTL DEF Spec, NoPassStranded

-----------------------------------------------------------------------------
(* One TASK revision is on main at most once *)

(* Whose commit is on main is settled. *)
LEMMA AuthorSettled ==
  ASSUME IInv, Next, NEW k \in Jobs, k \in main
  PROVE  on'[k] = on[k] /\ op'[k] = op[k]
<1>1. pc[k] # "new" BY DEF IInv, Facts, Based
<1> QED BY <1>1, Turn DEF IInv, Settled

(* A TASK stays new to its author until the author's own push. *)
LEMMA NewTaskStep == IInv /\ NewTask /\ Next => NewTask'
<1> SUFFICES ASSUME IInv, NewTask, Next PROVE NewTask' OBVIOUS
<1> TypeOK /\ Facts /\ Locks BY DEF IInv
<1>1. Durable BY FactsStep
<1>2. ASSUME NEW j \in Jobs, NEW k \in Jobs, j \in main', k \in main', on'[j] = on'[k] PROVE j = k
  <2>1. CASE main' = main BY <1>2, <2>1, AuthorSettled DEF NewTask, TaskOnce
  <2>2. CASE main' # main
    <3>1. PICK m \in Jobs : Push(m) BY <2>2, OnlyPushMoves
    <3>2. op[m] \in Moving /\ Moves(m) /\ main = base[m] /\ on' = on
      BY <3>1, PushIsOwned DEF Push, Moves
    <3>3. \A n \in Jobs : n \in main' /\ n # m => n \in main
      BY <3>1, OnlyAuthors DEF Step, Publishing
    <3>4. m \in main' => op[m] = "author"
      <4>1. m \notin main BY <3>1 DEF Push, Facts, Based
      <4>2. CASE op[m] = "publish"
        <5>1. on[m] \in Runs /\ main' = candidate[on[m]]
          BY <3>1, <4>2, PushIsOwned DEF Goal, Facts, Working, AboutRun
        <5> QED BY <4>1, <5>1 DEF Facts, Lineage
      <4> QED BY <3>2, <4>2 DEF Moving
    <3>5. ASSUME m \in main', NEW n \in Jobs, n \in main, on[n] = on[m] PROVE FALSE
      <4>1. TaskIn(base[m], on[m]) BY <3>2, <3>5 DEF TaskIn
      <4> QED BY <3>2, <3>4, <3>5, <4>1 DEF NewTask
    <3>6. CASE j = m \/ k = m BY <1>2, <3>2, <3>3, <3>5, <3>6
    <3>7. CASE j # m /\ k # m BY <1>2, <3>2, <3>3, <3>7 DEF NewTask, TaskOnce
    <3> QED BY <3>6, <3>7
  <2> QED BY <2>1, <2>2
<1>3. ASSUME NEW j \in Jobs, op'[j] = "author", Moves(j)' PROVE ~TaskIn(base[j], on[j])'
  <2>1. CASE BeginPublish(j) BY <1>3, <2>1 DEF BeginPublish, Begin, TypeOK
  <2>2. CASE BeginAuthor(j)
    <3>1. PICK t \in Tasks : ~TaskIn(main, t) /\ Begin(j, "author", t, "reserve", "push")
      BY <2>2 DEF BeginAuthor
    <3>2. on'[j] = t /\ base'[j] = main BY <3>1 DEF Begin, TypeOK
    <3>3. \A k \in Jobs : k \in main => on'[k] = on[k] BY AuthorSettled
    <3> QED BY <3>1, <3>2, <3>3 DEF TaskIn
  <2>3. CASE Moves(j) /\ on'[j] = on[j] /\ base'[j] = base[j] /\ pc[j] # "new"
    <3>1. op[j] = "author" BY <1>3, <2>3, Turn DEF Settled
    <3>2. \A k \in Jobs : k \in base[j] => on'[k] = on[k] BY AuthorSettled DEF Facts, Based
    <3> QED BY <2>3, <3>1, <3>2 DEF NewTask, TaskIn
  <2> QED BY <1>1, <1>3, <2>1, <2>2, <2>3, MovesBefore DEF Moves, Waiting
<1> QED BY <1>2, <1>3 DEF NewTask, TaskOnce

(* However many deliveries of a TASK race, one lands. *)
THEOREM TaskOnMainOnce == Spec => []TaskOnce
<1>1. Init => NewTask
  <2> SUFFICES ASSUME Init PROVE NewTask OBVIOUS
  <2>1. main \subseteq {Root} \cup Runs BY BoundAssumption DEF Init
  <2>2. \A j \in Jobs : j \notin main BY <2>1, NameAssumption
  <2>3. \A j \in Jobs : op[j] = "none" BY DEF Init
  <2> QED BY <2>2, <2>3 DEF NewTask, TaskOnce
<1>2. IInv /\ NewTask /\ [Next]_vars => NewTask'
  <2>1. NewTask /\ UNCHANGED vars => NewTask'
    BY DEF NewTask, TaskOnce, TaskIn, Moves, vars, refs, recovery, job
  <2> QED BY <2>1, NewTaskStep
<1>3. NewTask => TaskOnce BY DEF NewTask
<1> QED BY Invariance, <1>1, <1>2, <1>3, PTL DEF Spec

-----------------------------------------------------------------------------
(* A recovery runs its verification once *)

Staging(j) == Admit(j) \/ Source(j) \/ Verify(j) \/ Record(j)

(* A job comes to a stage of a recovery in that stage's step, or when it
   resumes a recovery that has its RESULT. *)
LEMMA StageStep ==
  ASSUME IInv, Next, NEW k \in Jobs, NEW r \in Runs, ~Staging(k),
         op'[k] = "recover", on'[k] = r, Stage(k)' \in {"source", "verify", "record", "transport"}
  PROVE  \/ op[k] = "recover" /\ on[k] = r /\ Stage(k)' = Stage(k) /\ base'[k] = base[k]
         \/ /\ Stage(k)' = "source"
            /\ r \in result /\ admitted[r] # NoPlan /\ admitted[r].main = base'[k]
<1> TypeOK /\ Facts /\ Working(k) BY DEF IInv, Facts
<1>1. CASE Idle(k) BY <1>1 DEF Idle, Stage
<1>2. CASE Step(k)
  <2> USE DEF Goto, TypeOK, Stage, Waiting
  <2>1. CASE Reserve(k)
    <3>1. op[k] = "recover" BY <2>1 DEF Reserve
    <3>2. pc'[k] = "recheck" BY <2>1, <3>1, ReserveGoes
    <3> QED BY <2>1, <3>1, <3>2 DEF Reserve
  <2>2. CASE Recheck(k) BY <2>2 DEF Recheck
  <2>3. CASE Check(k) BY <2>3 DEF Check, Working, Stages
  <2>4. CASE BeginResume(k)
    <3>1. PICK q \in passed \cap result :
            admitted[q] # NoPlan /\ admitted[q].main = main /\ Begin(k, "recover", q, "reserve", "source")
      BY <2>4 DEF BeginResume
    <3> QED BY <3>1 DEF Begin, Proceed
  <2>5. CASE BeginRecover(k) BY <2>5 DEF BeginRecover, Begin, Proceed
  <2>6. CASE BeginRecovered(k) BY <2>6 DEF BeginRecovered, Begin, Proceed
  <2>7. CASE Reviewing(k) \/ Publishing(k) \/ Authoring(k)
    BY <2>7 DEF Reviewing, SubmitOther, BeginSubmit, BeginReplay, Confirm, Decide, Publishing,
       BeginSettle, BeginPublish, Push, Authoring, BeginAuthor, BeginReauthor, Begin, Proceed, Working
  <2>8. CASE Transport(k) \/ Release(k) \/ Settle(k) \/ Stop(k)
    BY <2>8 DEF Transport, Doing, Release, Settle, Stop
  <2> QED BY <1>2, <2>1, <2>2, <2>3, <2>4, <2>5, <2>6, <2>7, <2>8 DEF Staging, Step, Recovering, Reserving
<1> QED BY <1>1, <1>2, Turn

(* Only the stages of a recovery change what is known of it. *)
LEMMA RecoveryStays ==
  ASSUME Next, \A j \in Jobs : ~Staging(j)
  PROVE  admitted' = admitted /\ source' = source /\ executed' = executed /\ result' = result
BY SoleWriterAlways DEF SoleWriter, Staging, recovery

(* Where a stage leads. *)
LEMMA Staged ==
  ASSUME IInv, NEW j \in Jobs, Staging(j)
  PROVE  /\ op[j] = "recover" /\ op'[j] = "recover" /\ on' = on /\ base' = base /\ on[j] \in passed
         /\ on[j] \in Runs
         /\ Stage(j) = IF Admit(j) THEN "admit" ELSE IF Source(j) THEN "source"
                       ELSE IF Verify(j) THEN "verify" ELSE "record"
         /\ Stage(j)' = IF Admit(j) THEN "source" ELSE IF Verify(j) THEN "record"
                        ELSE IF Source(j) /\ on[j] \notin result THEN "verify" ELSE "transport"
         /\ \A k \in Jobs \ {j} : Idle(k) /\ ~Staging(k)
<1> TypeOK /\ Facts /\ Working(j) BY DEF IInv, Facts
<1>1. /\ pc[j] \in Stages /\ op' = op /\ on' = on /\ base' = base
      /\ pc'[j] = "recheck"
      /\ \A k \in Jobs \ {j} : Idle(k)
  BY DEF Staging, Admit, Source, Verify, Record, Doing, ThenCheck, Proceed, Goto, TypeOK, Stages, Idle
<1>2. op[j] = "recover" /\ on[j] \in passed /\ on[j] \in Runs BY <1>1 DEF Working, AboutRun
<1>3. Stage(j) = pc[j] /\ Stage(j)' = todo'[j] BY <1>1 DEF Stage, Waiting, Stages
<1>4. ASSUME NEW k \in Jobs \ {j} PROVE ~Staging(k)
  BY <1>1, <1>4 DEF Idle, Staging, Admit, Source, Verify, Record, Doing, ThenCheck, Proceed, Goto,
                   TypeOK, Stages
<1>5. CASE Admit(j)
  BY <1>1, <1>2, <1>3, <1>4, <1>5 DEF Admit, Doing, ThenCheck, Proceed, TypeOK
<1>6. CASE Source(j)
  BY <1>1, <1>2, <1>3, <1>4, <1>6 DEF Admit, Source, Verify, Doing, ThenCheck, Proceed, TypeOK
<1>7. CASE Verify(j)
  BY <1>1, <1>2, <1>3, <1>4, <1>7 DEF Admit, Source, Verify, Doing, ThenCheck, Proceed, TypeOK
<1>8. CASE Record(j)
  BY <1>1, <1>2, <1>3, <1>4, <1>8 DEF Admit, Source, Verify, Record, Doing, ThenCheck, Proceed, TypeOK
<1> QED BY <1>5, <1>6, <1>7, <1>8 DEF Staging

(* A step that changes nothing of a recovery but lets jobs resume it. *)
LEMMA SingleStays ==
  ASSUME NEW r \in Runs, Single(r),
         admitted'[r] = admitted[r], source'[r] = source[r], executed'[r] = executed[r],
         r \in result' <=> r \in result,
         source[r] # Missing => candidate'[r] = candidate[r],
         \A k \in Jobs : At(k, r, {"source", "verify", "record", "transport"})' =>
           \/ op[k] = "recover" /\ on[k] = r /\ Stage(k)' = Stage(k) /\ base'[k] = base[k]
           \/ /\ Stage(k)' = "source"
              /\ r \in result /\ admitted[r] # NoPlan /\ admitted[r].main = base'[k]
  PROVE  Single(r)'
<1>1. ASSUME NEW k \in Jobs, At(k, r, {"source", "verify", "record", "transport"})'
      PROVE  admitted'[r] # NoPlan /\ admitted'[r].main = base'[k]
  BY <1>1 DEF At, Single
<1>2. ASSUME NEW k \in Jobs, At(k, r, {"verify", "record", "transport"})'
      PROVE  At(k, r, {"verify", "record", "transport"}) /\ Stage(k)' = Stage(k)
  BY <1>2 DEF At
<1>3. ASSUME NEW k \in Jobs, r \notin result, At(k, r, {"source", "verify", "record"})'
      PROVE  At(k, r, {"source", "verify", "record"}) /\ Stage(k)' = Stage(k)
  BY <1>3 DEF At
<1>4. \A k \in Jobs : At(k, r, {"verify", "record", "transport"})' => source'[r] # Missing
  BY <1>2 DEF Single, Missing
<1>5. \A k \in Jobs : At(k, r, {"transport"})' => r \in result' BY <1>2 DEF Single, At
<1>6. r \in result' => \A k \in Jobs : ~At(k, r, {"verify", "record"})' BY <1>2 DEF Single, At
<1>7. r \notin result' =>
        \A j, k \in Jobs :
          At(j, r, {"source", "verify", "record"})' /\ At(k, r, {"source", "verify", "record"})' => j = k
  BY <1>3 DEF Single
<1>8. r \notin result' /\ executed'[r] # {} => \A k \in Jobs : ~At(k, r, {"source", "verify"})'
  BY <1>3 DEF Single, At
<1>9. /\ admitted'[r] = NoPlan => source'[r] = Missing /\ executed'[r] = {} /\ r \notin result'
      /\ \A j, k \in executed'[r] : j = k
      /\ source'[r] # Missing => source'[r] = admitted'[r].main \cup candidate'[r] \cup {Merge(r)}
  BY DEF Single, Missing
<1> QED BY <1>1, <1>4, <1>5, <1>6, <1>7, <1>8, <1>9 DEF Single, Missing

(* Each stage keeps the recovery single, *)
LEMMA SingleStage ==
  ASSUME IInv, OneRecovery, NEW j \in Jobs, Staging(j), NEW r \in Runs, on[j] = r
  PROVE  Single(r)'
<1> DEFINE R == {"source", "verify", "record", "transport"}
<1> TypeOK /\ Facts /\ Single(r) BY DEF IInv, OneRecovery
<1>1. /\ op[j] = "recover" /\ op'[j] = "recover" /\ on' = on /\ base' = base
      /\ Stage(j) = IF Admit(j) THEN "admit" ELSE IF Source(j) THEN "source"
                    ELSE IF Verify(j) THEN "verify" ELSE "record"
      /\ Stage(j)' = IF Admit(j) THEN "source" ELSE IF Verify(j) THEN "record"
                     ELSE IF Source(j) /\ r \notin result THEN "verify" ELSE "transport"
      /\ \A k \in Jobs \ {j} : Idle(k)
  BY Staged
<1>2. candidate' = candidate BY DEF Staging, Admit, Source, Verify, Record
<1>3. \A k \in Jobs \ {j} : \A S : At(k, r, S)' <=> At(k, r, S) BY <1>1 DEF At, Stage, Idle
<1>4. CASE Admit(j)
  <2>1. /\ admitted[r] = NoPlan /\ source' = source /\ executed' = executed /\ result' = result
        /\ Stage(j)' = "source"
    BY <1>1, <1>4 DEF Admit, Doing, recovery
  <2>2. \A k \in Jobs : ~At(k, r, R) BY <2>1 DEF Single
  <2>3. \A k \in Jobs \ {j} : ~At(k, r, R)' BY <1>3, <2>2
  <2>4. admitted'[r] # NoPlan /\ admitted'[r].main = base[j]
    <3>1. PICK q \in Runs : admitted' = [admitted EXCEPT ![on[j]] = [run |-> q, main |-> base[j]]]
      BY <1>4 DEF Admit
    <3>2. [run |-> q, main |-> base[j]] \in Plan BY DEF Plan, TypeOK
    <3> QED BY <3>1, <3>2, NullAssumption DEF TypeOK
  <2>5. source[r] = Missing /\ executed[r] = {} /\ r \notin result BY <2>1 DEF Single
  <2>6. ASSUME NEW k \in Jobs, At(k, r, R)' PROVE k = j /\ base'[k] = base[j] /\ Stage(k)' = "source"
    BY <1>1, <2>1, <2>3, <2>6
  <2>7. \A k \in Jobs : ~At(k, r, {"verify", "record", "transport"})' BY <2>6 DEF At
  <2>8. \A k, m \in Jobs :
          At(k, r, {"source", "verify", "record"})' /\ At(m, r, {"source", "verify", "record"})' => k = m
    BY <2>6 DEF At
  <2>9. /\ \A k \in Jobs : ~At(k, r, {"transport"})'
        /\ \A k \in Jobs : ~At(k, r, {"verify", "record"})'
    BY <2>7 DEF At
  <2> QED BY <2>1, <2>4, <2>5, <2>6, <2>7, <2>8, <2>9 DEF Single, Missing
<1>5. CASE Source(j)
  <2>1. /\ admitted' = admitted /\ executed' = executed /\ result' = result /\ Stage(j) = "source"
        /\ ~Admit(j) /\ ~Verify(j)
    BY <1>1, <1>5 DEF Source, Admit, Verify, Doing, recovery
  <2>2. At(j, r, {"source"}) /\ At(j, r, R) /\ At(j, r, {"source", "verify"})
        /\ At(j, r, {"source", "verify", "record"})
    BY <1>1, <2>1 DEF At
  <2>3. admitted[r] # NoPlan /\ admitted[r].main = base[j] BY <2>2 DEF Single
  <2>4. source'[r] = admitted'[r].main \cup candidate'[r] \cup {Merge(r)} /\ source'[r] # Missing
    BY <1>2, <1>5, <2>1, <2>3 DEF Source, TypeOK, Missing
  <2>5. \A k \in Jobs : At(k, r, R)' => admitted'[r] # NoPlan /\ admitted'[r].main = base'[k]
    BY <1>1, <1>3, <2>1, <2>3 DEF Single
  <2>6. CASE r \in result
    <3>1. Stage(j)' = "transport" BY <1>1, <2>1, <2>6
    <3>2. \A k \in Jobs : ~At(k, r, {"verify", "record"})'
      BY <1>3, <2>6, <3>1 DEF Single, At
    <3> QED BY <2>1, <2>3, <2>4, <2>5, <2>6, <3>2 DEF Single
  <2>7. CASE r \notin result
    <3>1. Stage(j)' = "verify" BY <1>1, <1>5, <2>1, <2>7
    <3>2. executed[r] = {} BY <2>2, <2>7 DEF Single
    <3>3. \A k \in Jobs \ {j} : ~At(k, r, {"source", "verify", "record"}) BY <2>2, <2>7 DEF Single
    <3>4. \A k \in Jobs \ {j} : ~At(k, r, {"source", "verify", "record"})' BY <1>3, <3>3
    <3>5. \A k \in Jobs \ {j} : ~At(k, r, {"transport"})' BY <1>3, <2>7 DEF Single
    <3>6. ~At(j, r, {"transport"})' BY <3>1 DEF At
    <3> QED BY <2>1, <2>3, <2>4, <2>5, <2>7, <3>2, <3>4, <3>5, <3>6 DEF Single
  <2> QED BY <2>6, <2>7
<1>6. CASE Verify(j)
  <2>1. /\ admitted' = admitted /\ source' = source /\ result' = result /\ Stage(j) = "verify"
        /\ executed' = [executed EXCEPT ![r] = @ \cup {j}] /\ Stage(j)' = "record"
    BY <1>1, <1>6 DEF Source, Admit, Verify, Doing
  <2>2. At(j, r, {"verify"}) /\ At(j, r, R) /\ At(j, r, {"source", "verify"})
        /\ At(j, r, {"verify", "record"}) /\ At(j, r, {"verify", "record", "transport"})
        /\ At(j, r, {"source", "verify", "record"})
    BY <1>1, <2>1 DEF At
  <2>3. r \notin result BY <2>2 DEF Single
  <2>4. executed[r] = {} BY <2>2, <2>3 DEF Single
  <2>5. executed'[r] = {j} BY <2>1, <2>4 DEF TypeOK
  <2>6. \A k \in Jobs \ {j} : ~At(k, r, {"source", "verify", "record"}) BY <2>2, <2>3 DEF Single
  <2>7. \A k \in Jobs \ {j} : ~At(k, r, {"source", "verify", "record"})' /\ ~At(k, r, {"transport"})'
    BY <1>3, <2>3, <2>6 DEF Single
  <2>8. \A k \in Jobs : At(k, r, R)' => k = j BY <2>7 DEF At
  <2>9. admitted[r] # NoPlan /\ admitted[r].main = base[j] /\ source[r] # Missing
    BY <2>2 DEF Single
  <2>10. /\ \A k \in Jobs : ~At(k, r, {"transport"})'
         /\ \A k \in Jobs : ~At(k, r, {"source", "verify"})'
    BY <2>1, <2>8 DEF At
  <2>11. \A k, m \in Jobs :
           At(k, r, {"source", "verify", "record"})' /\ At(m, r, {"source", "verify", "record"})' => k = m
    BY <2>7
  <2>12. source[r] = admitted[r].main \cup candidate[r] \cup {Merge(r)} BY <2>9 DEF Single
  <2> QED BY <1>1, <1>2, <2>1, <2>3, <2>5, <2>8, <2>9, <2>10, <2>11, <2>12 DEF Single, Missing
<1>7. CASE Record(j)
  <2>1. /\ admitted' = admitted /\ source' = source /\ executed' = executed /\ Stage(j) = "record"
        /\ result' = result \cup {r} /\ Stage(j)' = "transport"
    BY <1>1, <1>7 DEF Source, Admit, Verify, Record, Doing
  <2>2. At(j, r, {"record"}) /\ At(j, r, R) /\ At(j, r, {"verify", "record"})
        /\ At(j, r, {"verify", "record", "transport"}) /\ At(j, r, {"source", "verify", "record"})
    BY <1>1, <2>1 DEF At
  <2>3. r \notin result BY <2>2 DEF Single
  <2>4. \A k \in Jobs \ {j} : ~At(k, r, {"source", "verify", "record"}) BY <2>2, <2>3 DEF Single
  <2>5. \A k \in Jobs \ {j} : ~At(k, r, {"source", "verify", "record"})' /\ ~At(k, r, {"transport"})'
    BY <1>3, <2>3, <2>4 DEF Single
  <2>6. \A k \in Jobs : At(k, r, R)' => k = j BY <2>5 DEF At
  <2>7. admitted[r] # NoPlan /\ admitted[r].main = base[j] /\ source[r] # Missing
    BY <2>2 DEF Single
  <2>8. \A k \in Jobs : ~At(k, r, {"verify", "record"})' BY <2>1, <2>6 DEF At
  <2>9. /\ source[r] = admitted[r].main \cup candidate[r] \cup {Merge(r)}
        /\ \A k, m \in executed[r] : k = m
    BY <2>7 DEF Single
  <2> QED BY <1>1, <1>2, <2>1, <2>6, <2>7, <2>8, <2>9 DEF Single, Missing
<1> QED BY <1>4, <1>5, <1>6, <1>7 DEF Staging

(* and so does every other step. *)
LEMMA OneRecoveryStep == IInv /\ OneRecovery /\ Next => OneRecovery'
<1> SUFFICES ASSUME IInv, OneRecovery, Next, NEW r \in Runs PROVE Single(r)' BY DEF OneRecovery
<1> TypeOK /\ Facts /\ Single(r) BY DEF IInv, OneRecovery
<1>1. source[r] # Missing => candidate'[r] = candidate[r]
  <2>1. source[r] # Missing => r \in passed BY DEF Single, Facts, Lineage
  <2>2. Durable BY FactsStep
  <2> QED BY <2>1, <2>2 DEF Facts, Decided, Durable
<1>2. ASSUME NEW k \in Jobs, ~Staging(k), At(k, r, {"source", "verify", "record", "transport"})'
      PROVE  \/ op[k] = "recover" /\ on[k] = r /\ Stage(k)' = Stage(k) /\ base'[k] = base[k]
             \/ /\ Stage(k)' = "source"
                /\ r \in result /\ admitted[r] # NoPlan /\ admitted[r].main = base'[k]
  <2>1. op'[k] = "recover" /\ on'[k] = r /\ Stage(k)' \in {"source", "verify", "record", "transport"}
    BY <1>2 DEF At
  <2> QED BY <1>2, <2>1, StageStep
<1>3. CASE \A j \in Jobs : ~Staging(j)
  <2>1. admitted' = admitted /\ source' = source /\ executed' = executed /\ result' = result
    BY <1>3, RecoveryStays
  <2> QED BY <1>1, <1>2, <1>3, <2>1, SingleStays
<1>4. ASSUME NEW j \in Jobs, Staging(j) PROVE Single(r)'
  <2>1. CASE on[j] = r BY <1>4, <2>1, SingleStage
  <2>2. CASE on[j] # r
    <3>1. on' = on /\ on[j] \in Runs /\ \A k \in Jobs \ {j} : ~Staging(k) BY <1>4, Staged
    <3>2. /\ admitted'[r] = admitted[r] /\ source'[r] = source[r] /\ executed'[r] = executed[r]
          /\ r \in result' <=> r \in result
      BY <1>4, <2>2, <3>1 DEF Staging, Admit, Source, Verify, Record, Doing, recovery, TypeOK
    <3>3. \A k \in Jobs : At(k, r, {"source", "verify", "record", "transport"})' => k # j
      BY <2>2, <3>1 DEF At
    <3> QED BY <1>1, <1>2, <3>1, <3>2, <3>3, SingleStays
  <2> QED BY <2>1, <2>2
<1> QED BY <1>3, <1>4

(* However often a recovery is delivered or resumed, its verification runs
   once, and its RUN has one source. *)
THEOREM RecoveryRunsOnce == Spec => []RecoveryOnce
<1>1. Init => OneRecovery
  BY DEF Init, OneRecovery, Single, At, Missing
<1>2. IInv /\ OneRecovery /\ [Next]_vars => OneRecovery'
  <2>1. OneRecovery /\ UNCHANGED vars => OneRecovery'
    BY DEF OneRecovery, Single, At, Stage, vars, refs, recovery, job
  <2> QED BY <2>1, OneRecoveryStep
<1>3. OneRecovery => RecoveryOnce BY DEF OneRecovery, Single, RecoveryOnce
<1> QED BY Invariance, <1>1, <1>2, <1>3, PTL DEF Spec

-----------------------------------------------------------------------------
(* The published main is a line *)

(* A candidate is made by its RUN or by a recovery. *)
LEMMA CandidateMade ==
  ASSUME IInv, Next, candidate' # candidate
  PROVE  \E r \in Runs, commit \in Commits :
           candidate' = [candidate EXCEPT ![r] = commit] /\ commit # Missing
<1> TypeOK /\ Facts BY DEF IInv
<1>1. ASSUME NEW r \in Runs, Produce(r)
      PROVE  \E commit \in Commits : candidate' = [candidate EXCEPT ![r] = commit] /\ commit # Missing
  <2>1. PICK parent \in {main} \cup {candidate[o] : o \in {x \in Runs : candidate[x] # Missing}} :
          candidate' = [candidate EXCEPT ![r] = parent \cup {r}]
    BY <1>1 DEF Produce
  <2>2. parent \cup {r} \in Commits /\ parent \cup {r} # Missing BY DEF TypeOK, Commits, Changes, Missing
  <2> QED BY <2>1, <2>2
<1>2. ASSUME NEW j \in Jobs, Transport(j)
      PROVE  \E r \in Runs, commit \in Commits :
               candidate' = [candidate EXCEPT ![r] = commit] /\ commit # Missing
  <2>1. on[j] \in Runs BY <1>2 DEF Transport, Doing, Facts, Working, Stages, AboutRun
  <2> DEFINE r == admitted[on[j]].run
             commit == source[on[j]]
  <2>2. /\ candidate[r] \in {Missing, commit} /\ candidate' = [candidate EXCEPT ![r] = commit]
        /\ commit \in Commits
    BY <1>2, <2>1 DEF Transport, TypeOK
  <2> HIDE DEF r, commit
  <2>3. r \in Runs /\ commit # Missing BY <2>2 DEF TypeOK
  <2> QED BY <2>2, <2>3
<1>3. ASSUME NEW j \in Jobs, Step(j), ~Transport(j) PROVE candidate' = candidate
  BY <1>3 DEF Step, Reviewing, SubmitOther, BeginSubmit, BeginReplay, Confirm, Decide, Publishing,
     BeginSettle, BeginPublish, Push, Authoring, BeginAuthor, BeginReauthor, Recovering,
     BeginRecover, BeginResume, BeginRecovered, Admit, Source, Verify, Record, Doing, Reserving,
     Reserve, Recheck, Check, Release, Settle, Stop, Begin, refs
<1> QED BY <1>1, <1>2, <1>3 DEF Next, Tick, Clear, refs

(* Each step is a step of MainLine, or changes nothing it speaks of. *)
LEMMA LineStep == IInv /\ Next => [Line!Next]_(Line!vars)
<1> SUFFICES ASSUME IInv, Next PROVE Line!Next \/ UNCHANGED Line!vars OBVIOUS
<1> TypeOK /\ Facts BY DEF IInv
<1>1. Durable BY FactsStep
<1>2. CASE main' # main
  <2>1. PICK j \in Jobs : Push(j) BY <1>2, OnlyPushMoves
  <2>2. /\ op[j] \in Moving /\ main = base[j] /\ main' = Goal(j)
        /\ main \subseteq main' /\ main' # main
        /\ \A o \in passed : o # on[j] /\ Eligible(o) => candidate[o] \subseteq main'
        /\ candidate' = candidate /\ passed' = passed
    BY <2>1, PushIsOwned
  <2>3. ASSUME NEW o \in passed, Line!Publishable(o), o # on[j] PROVE candidate[o] \subseteq main'
    BY <2>2, <2>3 DEF Line!Publishable, Eligible, Contained
  <2>4. CASE op[j] = "publish"
    <3>1. on[j] \in passed /\ main' = candidate[on[j]]
      BY <2>2, <2>4 DEF Facts, Working, Goal
    <3>2. Line!Advance(candidate[on[j]]) BY <2>2, <2>3, <3>1 DEF Line!Advance
    <3> QED BY <3>1, <3>2 DEF Line!Next
  <2>5. CASE op[j] = "author"
    <3>1. main' = main \cup {j} BY <2>2, <2>5 DEF Goal
    <3>2. j \notin main BY <2>2, <3>1
    <3>3. on[j] \notin passed BY <2>5, NameAssumption DEF Facts, Working, TypeOK
    <3>4. Line!Advance(main \cup {j}) BY <2>2, <2>3, <3>1, <3>3 DEF Line!Advance
    <3> QED BY <3>2, <3>4 DEF Line!Next
  <2> QED BY <2>2, <2>4, <2>5 DEF Moving
<1>3. CASE main' = main /\ passed' # passed
  <2>1. PICK r \in passed' : r \notin passed BY <1>1, <1>3 DEF Durable
  <2>2. PICK j \in Jobs : Decide(j) /\ on[j] = r /\ r \in Runs BY <2>1, PassStep
  <2>3. candidate[r] # Missing BY <2>2 DEF Decide, Facts, Working, AboutRun
  <2>4. Line!Pass(r) BY <2>1, <2>2, <2>3 DEF Decide, Line!Pass
  <2> QED BY <2>2, <2>4 DEF Line!Next
<1>4. CASE main' = main /\ passed' = passed /\ candidate' # candidate
  <2>1. PICK r \in Runs, commit \in Commits :
          candidate' = [candidate EXCEPT ![r] = commit] /\ commit # Missing
    BY <1>4, CandidateMade
  <2>2. candidate[r] = Missing BY <1>1, <1>4, <2>1 DEF Durable, TypeOK
  <2>3. candidate'[r] = commit BY <2>1 DEF TypeOK
  <2>4. Line!Offer(r, candidate'[r]) BY <1>4, <2>1, <2>2, <2>3 DEF Line!Offer
  <2> QED BY <2>4 DEF Line!Next
<1> QED BY <1>2, <1>3, <1>4 DEF Line!vars

(* All jobs together keep main the line that MainLine describes. *)
THEOREM PublicationIsLine == Spec => ImplementsLine
<1>1. Init => Line!Init
  <2> SUFFICES ASSUME Init PROVE passed \subseteq Runs /\ \A r \in passed : candidate[r] # Missing
    BY DEF Line!Init
  <2>1. passed \subseteq Runs BY BoundAssumption DEF Init
  <2>2. \A r \in Legacy : candidate[r] # Missing BY BoundAssumption DEF Init, Missing
  <2> QED BY <2>1, <2>2 DEF Init
<1>2. IInv /\ [Next]_vars => [Line!Next]_(Line!vars)
  <2>1. UNCHANGED vars => UNCHANGED Line!vars BY DEF vars, refs, Line!vars
  <2> QED BY <2>1, LineStep
<1> QED BY Invariance, <1>1, <1>2, PTL DEF Spec, ImplementsLine, Line!Spec

=============================================================================
