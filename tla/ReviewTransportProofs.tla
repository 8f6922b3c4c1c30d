------------------------ MODULE ReviewTransportProofs ------------------------
(* Safety of ReviewTransport for every number of checkouts, processes, RUN
   numbers and faults. *)
EXTENDS ReviewTransport, TLAPS

-----------------------------------------------------------------------------
(* The inductive invariant, in named parts. *)

Transporting == {"query", "push", "attend", "signal"}

(* Who executes holds the lock of its checkout and has a RUN that is only
   admitted. *)
Executing ==
  \A p \in Procs : pc[p] = "executing" =>
    /\ opLock[SiteOf[p]] = p
    /\ run[p] \in RunIds /\ Own(p).kind = "admitted"

(* Who transports has a terminal of its own checkout. *)
Holding == \A p \in Procs : pc[p] \in Transporting => run[p] \in RunIds /\ Own(p).kind \in Kinds

(* Who pushes pushes the whole terminal, with a commit of its own files. *)
Pushing ==
  \A p \in Procs : pc[p] = "push" =>
    /\ specs[p] = Parts(p)
    /\ sha[p] \in Procs /\ SiteOf[sha[p]] = SiteOf[p]

(* Who attends to a terminal has it on the remote ... *)
Attending ==
  \A p \in Procs : pc[p] \in {"attend", "signal"} =>
    /\ sha[p] \in Procs /\ SiteOf[sha[p]] = SiteOf[p]
    /\ artifacts[Own(p).kind][run[p]] = sha[p]

(* ... and who signals it saw that it came first. *)
Signalling ==
  \A p \in Procs : pc[p] = "signal" =>
    arrived[run[p]] # <<>> /\ Head(arrived[run[p]]) = Own(p).kind

(* The history of arrivals begins with a terminal that is there. *)
Arriving ==
  \A r \in RunIds :
    /\ Published(r) => arrived[r] # <<>>
    /\ arrived[r] # <<>> => artifacts[Head(arrived[r])][r] # NoRef

(* A continuation has a record of its own, and its source has a candidate. *)
Continuing ==
  \A s \in Sites, r \in RunIds :
    LET file == record[s][r]
    IN file.source # NoRun => file.kind # "absent" /\ candidate["RESULT"][file.source] # NoRef

IInv ==
  /\ TypeOK /\ Executing /\ Holding /\ Pushing /\ Attending /\ Signalling
  /\ Arriving /\ Continuing
  /\ TransportIsWhole /\ ToldIsCanonical /\ FirstTerminalSignalled /\ RecoveryRestsOnConflict

-----------------------------------------------------------------------------
(* Types *)

(* The empty files, histories and remote are well typed. *)
LEMMA TypeInit == Init => TypeOK
<1> SUFFICES ASSUME Init PROVE TypeOK OBVIOUS
<1>1. NoFile \in File BY NullAssumption DEF NoFile, File, Kinds, Heads
<1>2. <<>> \in Seq(Kinds) OBVIOUS
<1> QED
  BY <1>1, <1>2, RunAssumption DEF Init, TypeOK, Kinds

(* What an invocation leaves behind when it ends is well typed. *)
LEMMA EndType ==
  ASSUME TypeOK, NEW p \in Procs, End(p)
  PROVE  /\ opLock' \in [Sites -> Procs \cup {NoProc}]
         /\ pc' \in [Procs -> {"idle", "executing", "query", "push", "attend", "signal"}]
         /\ run' \in [Procs -> RunIds \cup {NoRun}]
         /\ specs' \in [Procs -> SUBSET {"candidate", "artifacts"}]
         /\ sha' \in [Procs -> Procs \cup {NoRef}]
BY DEF TypeOK, End, Goto, Released

(* A new RUN record is well typed. *)
LEMMA AdmittedType ==
  ASSUME NEW src \in RunIds \cup {NoRun} PROVE AdmittedFrom(src) \in File
BY NullAssumption DEF AdmittedFrom, NoFile, File, Kinds, Heads

(* So is a reserved RUN. *)
LEMMA ReserveType ==
  ASSUME TypeOK, NEW p \in Procs, NEW r \in RunIds, NEW src \in RunIds \cup {NoRun},
         Reserve(p, r, src)
  PROVE  TypeOK'
<1>1. AdmittedFrom(src) \in File BY AdmittedType
<1>2. SiteOf[p] \in Sites BY SiteAssumption
<1> QED
  BY <1>1, <1>2 DEF TypeOK, Reserve, Goto, remote

(* The candidate of an execution is a commit. *)
LEMMA CandidateType ==
  ASSUME IInv, NEW p \in Procs, pc[p] = "executing" PROVE CandidateHeads(p) \subseteq Heads
<1>1. SiteOf[p] \in Sites /\ run[p] \in RunIds /\ Own(p) \in File
  BY SiteAssumption DEF IInv, Executing, TypeOK, Own
<1>2. CASE Own(p).source = NoRun
  BY <1>1, <1>2 DEF CandidateHeads, Heads
<1>3. CASE Own(p).source # NoRun
  <2>1. Own(p).source \in RunIds BY <1>1, <1>3 DEF File
  <2>2. candidate["RESULT"][Own(p).source] # NoRef
    BY <1>1, <1>3 DEF IInv, Continuing, Own
  <2>3. candidate["RESULT"][Own(p).source] \in Heads
    BY <2>1, <2>2 DEF IInv, TypeOK, Kinds
  <2> QED BY <1>3, <2>3 DEF CandidateHeads
<1> QED BY <1>2, <1>3

(* A terminal record is well typed. *)
LEMMA TerminateType ==
  ASSUME IInv, NEW p \in Procs, pc[p] = "executing", NEW k \in Kinds, NEW h \in CandidateHeads(p),
         NEW b \in BOOLEAN, Terminate(p, k, h, b)
  PROVE  record' \in [Sites -> [RunIds -> File]]
<1>1. SiteOf[p] \in Sites /\ run[p] \in RunIds /\ Own(p) \in File
  BY SiteAssumption DEF IInv, Executing, TypeOK, Own
<1>2. h \in Heads BY CandidateType
<1>3. h # NoRef BY <1>2, NullAssumption DEF Heads
<1>4. [Own(p) EXCEPT !.kind = k, !.head = h, !.publish = b] \in File
  BY <1>1, <1>2, <1>3 DEF File, Kinds
<1> QED BY <1>1, <1>4 DEF IInv, TypeOK, Terminate, Own

(* Every step of a process keeps the types. *)
LEMMA TypeStep == ASSUME IInv, NEW p \in Procs, Step(p) PROVE TypeOK'
<1> USE SiteAssumption
<1>0. TypeOK BY DEF IInv
<1>1. CASE Admit(p)
  <2>1. PICK r \in RunIds : Reserve(p, r, NoRun) BY <1>1 DEF Admit
  <2> QED BY <1>0, <2>1, ReserveType
<1>2. CASE Recover(p)
  <2>1. PICK src, r \in RunIds : Reserve(p, r, src) BY <1>2 DEF Recover
  <2> QED BY <1>0, <2>1, ReserveType
<1>3. CASE Succeed(p)
  <2>1. record' \in [Sites -> [RunIds -> File]] BY <1>3, TerminateType DEF Succeed, Kinds
  <2>2. \/ Goto(p, "query") /\ UNCHANGED <<opLock, run, specs, sha>>
        \/ End(p)
    BY <1>3 DEF Succeed
  <2>3. CASE Goto(p, "query") /\ UNCHANGED <<opLock, run, specs, sha>>
    BY <1>0, <1>3, <2>1, <2>3 DEF Succeed, TypeOK, Goto, remote
  <2>4. CASE End(p) BY <1>0, <1>3, <2>1, <2>4, EndType DEF Succeed, TypeOK, remote
  <2> QED BY <2>2, <2>3, <2>4
<1>4. CASE Fail(p)
  <2>1. record' \in [Sites -> [RunIds -> File]] BY <1>4, TerminateType DEF Fail, Kinds
  <2>2. \/ Goto(p, "query") /\ opLock' = Released(p) /\ UNCHANGED <<run, specs, sha>>
        \/ End(p)
    BY <1>4 DEF Fail
  <2>3. CASE Goto(p, "query") /\ opLock' = Released(p) /\ UNCHANGED <<run, specs, sha>>
    BY <1>0, <1>4, <2>1, <2>3 DEF Fail, TypeOK, Goto, remote, Released
  <2>4. CASE End(p) BY <1>0, <1>4, <2>1, <2>4, EndType DEF Fail, TypeOK, remote
  <2> QED BY <2>2, <2>3, <2>4
<1>5. CASE RetryTransport(p)
  BY <1>0, <1>5 DEF RetryTransport, TypeOK, Goto, remote
<1>6. CASE Query(p)
  <2>1. CASE Compatible(p)
    <3>1. Missing(p) \subseteq {"candidate", "artifacts"} BY DEF Missing, Parts
    <3>2. sha' \in [Procs -> Procs \cup {NoRef}]
      <4>1. CASE "artifacts" \in Missing(p) BY <1>0, <1>6, <2>1, <4>1 DEF Query, TypeOK, ArtifactsCommit
      <4>2. CASE "artifacts" \notin Missing(p)
        <5>1. run[p] \in RunIds /\ Own(p).kind \in Kinds
          BY <1>6 DEF IInv, Holding, Transporting, Query
        <5>2. artifacts[Own(p).kind][run[p]] \in Procs \cup {NoRef} BY <1>0, <5>1 DEF TypeOK
        <5> QED BY <1>0, <1>6, <2>1, <4>2, <5>2 DEF Query, TypeOK
      <4> QED BY <4>1, <4>2
    <3>3. UNCHANGED <<opLock, run, record, remote, signals, surface, told, faults>>
          /\ specs' = [specs EXCEPT ![p] = Missing(p)]
          /\ \E s \in {"attend", "push"} : pc' = [pc EXCEPT ![p] = s]
      BY <1>6, <2>1 DEF Query, Goto
    <3> QED BY <1>0, <3>1, <3>2, <3>3 DEF TypeOK, remote
  <2>2. CASE ~Compatible(p)
    BY <1>0, <1>6, <2>2, EndType DEF Query, TypeOK, remote
  <2> QED BY <2>1, <2>2
<1>7. CASE Push(p)
  <2>1. run[p] \in RunIds /\ Own(p).kind \in Kinds /\ Own(p) \in File /\ sha[p] \in Procs
    BY <1>7 DEF IInv, Holding, Pushing, Transporting, Push, TypeOK, Own
  <2>2. Own(p).head \in Heads BY <2>1 DEF File
  <2>3. PICK names : Create(p, names) BY <1>7 DEF Push
  <2>4. candidate' \in [Kinds -> [RunIds -> Heads \cup {NoRef}]]
    BY <1>0, <2>1, <2>2, <2>3 DEF TypeOK, Create, NewRef
  <2>5. artifacts' \in [Kinds -> [RunIds -> Procs \cup {NoRef}]]
    BY <1>0, <2>1, <2>3 DEF TypeOK, Create, NewRef
  <2>6. arrived' \in [RunIds -> Seq(Kinds)]
    <3>1. Append(arrived[run[p]], Own(p).kind) \in Seq(Kinds) BY <1>0, <2>1 DEF TypeOK
    <3> QED BY <1>0, <2>1, <2>3, <3>1 DEF TypeOK, Create
  <2>7. UNCHANGED <<record, signals, surface, told, faults>>
        /\ \/ Goto(p, "attend") /\ UNCHANGED <<opLock, run, specs, sha>>
           \/ End(p)
    BY <1>7 DEF Push
  <2>8. CASE Goto(p, "attend") /\ UNCHANGED <<opLock, run, specs, sha>>
    BY <1>0, <2>4, <2>5, <2>6, <2>7, <2>8 DEF TypeOK, Goto
  <2>9. CASE End(p) BY <1>0, <2>4, <2>5, <2>6, <2>7, <2>9, EndType DEF TypeOK
  <2> QED BY <2>7, <2>8, <2>9
<1>8. CASE Attend(p)
  <2>1. run[p] \in RunIds /\ SiteOf[p] \in Sites
    BY <1>8 DEF IInv, Holding, Transporting, Attend
  <2>2. told' \subseteq Sites \X RunIds
    BY <1>0, <1>8, <2>1 DEF Attend, Tell, TypeOK
  <2>3. UNCHANGED <<record, remote, signals, surface, faults>>
        /\ \/ End(p)
           \/ Goto(p, "signal") /\ UNCHANGED <<opLock, run, specs, sha>>
    BY <1>8 DEF Attend
  <2>4. CASE End(p) BY <1>0, <2>2, <2>3, <2>4, EndType DEF TypeOK, remote
  <2>5. CASE Goto(p, "signal") /\ UNCHANGED <<opLock, run, specs, sha>>
    BY <1>0, <2>2, <2>3, <2>5 DEF TypeOK, Goto, remote
  <2> QED BY <2>3, <2>4, <2>5
<1>9. CASE SignalTerminal(p)
  <2>1. run[p] \in RunIds /\ SiteOf[p] \in Sites /\ Own(p).kind \in Kinds /\ sha[p] \in Procs
    BY <1>9 DEF IInv, Holding, Attending, Transporting, SignalTerminal
  <2>2. OwnSignal(p) \in Signal BY <2>1 DEF OwnSignal, Signal
  <2>3. told' \subseteq Sites \X RunIds
    BY <1>0, <1>9, <2>1 DEF SignalTerminal, Tell, TypeOK
  <2> QED BY <1>0, <1>9, <2>2, <2>3, EndType DEF SignalTerminal, TypeOK, remote
<1>10. CASE Stop(p)
  <2>1. signals' \subseteq Signal
    <3>1. CASE pc[p] = "signal"
      <4>1. run[p] \in RunIds /\ Own(p).kind \in Kinds /\ sha[p] \in Procs
        BY <3>1 DEF IInv, Holding, Attending, Transporting
      <4> QED BY <1>0, <1>10, <4>1 DEF Stop, OwnSignal, Signal, TypeOK
    <3>2. CASE pc[p] # "signal" BY <1>0, <1>10, <3>2 DEF Stop, TypeOK
    <3> QED BY <3>1, <3>2
  <2>2. faults' \in 0..MaxFaults BY <1>0, <1>10, RunAssumption DEF Stop, TypeOK
  <2> QED BY <1>0, <1>10, <2>1, <2>2, EndType DEF Stop, TypeOK, remote
<1> QED
  BY <1>1, <1>2, <1>3, <1>4, <1>5, <1>6, <1>7, <1>8, <1>9, <1>10 DEF Step

-----------------------------------------------------------------------------
(* What a step leaves alone *)

(* A process changes the place of no other process, and nobody else's lock. *)
LEMMA OthersStay ==
  ASSUME IInv, NEW p \in Procs, Step(p), NEW q \in Procs, q # p
  PROVE  /\ pc'[q] = pc[q] /\ run'[q] = run[q] /\ specs'[q] = specs[q] /\ sha'[q] = sha[q]
         /\ opLock[SiteOf[q]] = q => opLock'[SiteOf[q]] = q
<1>1. TypeOK /\ SiteOf \in [Procs -> Sites] /\ NoProc \notin Procs
  BY SiteAssumption, NullAssumption DEF IInv
<1>2. ASSUME End(p)
      PROVE  /\ pc'[q] = pc[q] /\ run'[q] = run[q] /\ specs'[q] = specs[q] /\ sha'[q] = sha[q]
             /\ opLock[SiteOf[q]] = q => opLock'[SiteOf[q]] = q
  BY <1>1, <1>2 DEF End, Goto, Released, TypeOK
<1>3. CASE Admit(p) \/ Recover(p)
  BY <1>1, <1>3 DEF Admit, Recover, Reserve, Goto, TypeOK
<1>4. CASE Succeed(p) BY <1>1, <1>2, <1>4 DEF Succeed, Goto, TypeOK
<1>5. CASE Fail(p) BY <1>1, <1>2, <1>5 DEF Fail, Goto, Released, TypeOK
<1>6. CASE RetryTransport(p) BY <1>1, <1>6 DEF RetryTransport, Goto, TypeOK
<1>7. CASE Query(p) BY <1>1, <1>2, <1>7 DEF Query, Goto, TypeOK
<1>8. CASE Push(p) BY <1>1, <1>2, <1>8 DEF Push, Goto, TypeOK
<1>9. CASE Attend(p) BY <1>1, <1>2, <1>9 DEF Attend, Goto, TypeOK
<1>10. CASE SignalTerminal(p) \/ Stop(p) BY <1>1, <1>2, <1>10 DEF SignalTerminal, Stop
<1> QED BY <1>3, <1>4, <1>5, <1>6, <1>7, <1>8, <1>9, <1>10 DEF Step

(* The remote's terminals change only in a push. *)
LEMMA RemoteStays ==
  ASSUME NEW p \in Procs, Step(p), ~Push(p) PROVE UNCHANGED <<candidate, artifacts, arrived>>
BY DEF Step, Admit, Recover, Reserve, Succeed, Fail, RetryTransport, Query, Attend,
       SignalTerminal, Stop, remote

(* The records change only in an admission and when an execution ends. *)
LEMMA RecordStays ==
  ASSUME NEW p \in Procs, Step(p), ~Admit(p), ~Recover(p), ~Succeed(p), ~Fail(p)
  PROVE  UNCHANGED record
BY DEF Step, RetryTransport, Query, Push, Attend, SignalTerminal, Stop

(* A RUN number is reserved once in a checkout. *)
LEMMA ReservedIsNew ==
  ASSUME IInv, NEW p \in Procs, NEW r \in RunIds, IsNextRun(SiteOf[p], r)
  PROVE  record[SiteOf[p]][r].kind = "absent" /\ ~Published(r)
BY RunAssumption DEF IsNextRun, Used

(* A terminal record is final, a reserved one keeps its source, and a record
   that begins was absent. *)
LEMMA RecordIsFinal ==
  ASSUME IInv, NEW p \in Procs, Step(p), NEW s \in Sites, NEW r \in RunIds
  PROVE  /\ record[s][r].kind \in Kinds => record'[s][r] = record[s][r]
         /\ record[s][r].kind # "absent" => /\ record'[s][r].kind # "absent"
                                            /\ record'[s][r].source = record[s][r].source
<1>1. TypeOK /\ SiteOf[p] \in Sites BY SiteAssumption DEF IInv
<1>2. ASSUME NEW r2 \in RunIds, NEW src \in RunIds \cup {NoRun}, IsNextRun(SiteOf[p], r2),
             Reserve(p, r2, src)
      PROVE  record[s][r].kind # "absent" => record'[s][r] = record[s][r]
  BY <1>1, <1>2, ReservedIsNew DEF Reserve, TypeOK
<1>3. ASSUME NEW k \in Kinds, NEW h, NEW b, pc[p] = "executing", Terminate(p, k, h, b)
      PROVE  /\ record[s][r].kind \in Kinds => record'[s][r] = record[s][r]
             /\ record[s][r].kind # "absent" => /\ record'[s][r].kind # "absent"
                                                /\ record'[s][r].source = record[s][r].source
  <2>1. run[p] \in RunIds /\ Own(p).kind = "admitted" BY <1>3 DEF IInv, Executing
  <2>2. CASE s = SiteOf[p] /\ r = run[p]
    <3>1. record[s][r].kind = "admitted" BY <2>1, <2>2 DEF Own
    <3>2. record'[s][r] = [record[s][r] EXCEPT !.kind = k, !.head = h, !.publish = b]
      BY <1>1, <1>3, <2>1, <2>2 DEF Terminate, TypeOK
    <3>3. record[s][r] \in File BY <1>1 DEF TypeOK
    <3>4. record'[s][r].kind = k /\ record'[s][r].source = record[s][r].source
      BY <3>2, <3>3 DEF File
    <3> QED BY <3>1, <3>4 DEF Kinds
  <2>3. CASE ~(s = SiteOf[p] /\ r = run[p])
    <3>1. record'[s][r] = record[s][r] BY <1>1, <1>3, <2>1, <2>3 DEF Terminate, TypeOK
    <3> QED BY <3>1
  <2> QED BY <2>2, <2>3
<1>4. "absent" \notin Kinds BY DEF Kinds
<1>5. CASE Admit(p) BY <1>2, <1>4, <1>5 DEF Admit
<1>6. CASE Recover(p) BY <1>2, <1>4, <1>6 DEF Recover
<1>7. CASE Succeed(p) BY <1>3, <1>7 DEF Succeed, Kinds
<1>8. CASE Fail(p) BY <1>3, <1>8 DEF Fail, Kinds
<1> QED BY <1>5, <1>6, <1>7, <1>8, RecordStays

(* What a push creates: all of a terminal that was not there, or what is
   there already. *)
LEMMA PushShape ==
  ASSUME IInv, NEW p \in Procs, Push(p)
  PROVE  LET k == Own(p).kind  r == run[p]
         IN \/ UNCHANGED <<candidate, artifacts, arrived>>
            \/ /\ artifacts[k][r] = NoRef /\ candidate[k][r] = NoRef
               /\ candidate' = [candidate EXCEPT ![k][r] = IF Own(p).publish THEN Own(p).head
                                                           ELSE NoRef]
               /\ artifacts' = [artifacts EXCEPT ![k][r] = sha[p]]
               /\ arrived' = [arrived EXCEPT ![r] = Append(@, k)]
<1> DEFINE k == Own(p).kind
           r == run[p]
<1>1. /\ TypeOK /\ r \in RunIds /\ k \in Kinds /\ specs[p] = Parts(p)
      /\ sha[p] \in Procs /\ SiteOf[sha[p]] = SiteOf[p] /\ Own(p) \in File
  BY SiteAssumption DEF IInv, Holding, Transporting, Pushing, Push, TypeOK, Own
<1>2. CASE Create(p, LeftBehind(p)) BY <1>2 DEF Create, LeftBehind
<1>3. CASE Lands(p) /\ Create(p, specs[p])
  <2>1. "artifacts" \in specs[p] BY <1>1 DEF Parts
  <2>2. artifacts[k][r] \in {NoRef, sha[p]} BY <1>3, <2>1 DEF Lands, Ref, NewRef
  <2>3. "candidate" \in specs[p] <=> Own(p).publish BY <1>1 DEF Parts, File
  <2>4. CASE artifacts[k][r] = NoRef
    <3>1. candidate[k][r] = NoRef BY <1>1, <2>4 DEF IInv, TransportIsWhole
    <3>2. candidate' = [candidate EXCEPT ![k][r] = IF Own(p).publish THEN Own(p).head ELSE NoRef]
      <4>1. CASE Own(p).publish BY <1>3, <2>3, <4>1 DEF Create, NewRef
      <4>2. CASE ~Own(p).publish
        <5>1. candidate' = candidate BY <1>3, <2>3, <4>2 DEF Create
        <5>2. candidate = [candidate EXCEPT ![k][r] = NoRef] BY <1>1, <3>1 DEF TypeOK
        <5> QED BY <4>2, <5>1, <5>2
      <4> QED BY <4>1, <4>2
    <3>3. artifacts' = [artifacts EXCEPT ![k][r] = sha[p]] BY <1>3, <2>1 DEF Create, NewRef
    <3>4. arrived' = [arrived EXCEPT ![r] = Append(@, k)] BY <1>3, <2>1, <2>4 DEF Create
    <3> QED BY <2>4, <3>1, <3>2, <3>3, <3>4
  <2>5. CASE artifacts[k][r] = sha[p] /\ artifacts[k][r] # NoRef
    <3>1. candidate[k][r] = IF Own(p).publish THEN Own(p).head ELSE NoRef
      <4>1. candidate[k][r] = IF record[SiteOf[artifacts[k][r]]][r].publish
                              THEN record[SiteOf[artifacts[k][r]]][r].head ELSE NoRef
        BY <1>1, <2>5 DEF IInv, TransportIsWhole
      <4>2. record[SiteOf[artifacts[k][r]]][r] = Own(p) BY <1>1, <2>5 DEF Own
      <4> QED BY <4>1, <4>2
    <3>2. candidate' = candidate
      <4>1. CASE Own(p).publish
        <5>1. candidate' = [candidate EXCEPT ![k][r] = Own(p).head]
          BY <1>3, <2>3, <4>1 DEF Create, NewRef
        <5>2. candidate = [candidate EXCEPT ![k][r] = candidate[k][r]] BY <1>1 DEF TypeOK
        <5>3. candidate[k][r] = Own(p).head BY <3>1, <4>1
        <5> QED BY <5>1, <5>2, <5>3
      <4>2. CASE ~Own(p).publish BY <1>3, <2>3, <4>2 DEF Create
      <4> QED BY <4>1, <4>2
    <3>3. artifacts' = artifacts
      <4>1. artifacts' = [artifacts EXCEPT ![k][r] = sha[p]] BY <1>3, <2>1 DEF Create, NewRef
      <4>2. artifacts = [artifacts EXCEPT ![k][r] = artifacts[k][r]] BY <1>1 DEF TypeOK
      <4>3. artifacts[k][r] = sha[p] BY <2>5
      <4> QED BY <4>1, <4>2, <4>3
    <3>4. arrived' = arrived BY <1>3, <2>5 DEF Create
    <3> QED BY <3>2, <3>3, <3>4
  <2> QED BY <2>2, <2>4, <2>5
<1> QED BY <1>2, <1>3 DEF Push

(* A terminal on the remote is never replaced. *)
LEMMA TerminalIsFinal ==
  ASSUME IInv, NEW p \in Procs, Step(p), NEW k \in Kinds, NEW r \in RunIds
  PROVE  /\ artifacts[k][r] # NoRef => /\ artifacts'[k][r] = artifacts[k][r]
                                       /\ candidate'[k][r] = candidate[k][r]
         /\ candidate[k][r] # NoRef => candidate'[k][r] = candidate[k][r]
         /\ arrived[r] # <<>> => arrived'[r] # <<>> /\ Head(arrived'[r]) = Head(arrived[r])
<1>1. CASE ~Push(p) BY <1>1, RemoteStays
<1>2. CASE Push(p)
  <2>1. TypeOK /\ run[p] \in RunIds /\ Own(p).kind \in Kinds
    BY <1>2 DEF IInv, Holding, Transporting, Push
  <2>2. CASE UNCHANGED <<candidate, artifacts, arrived>> BY <2>2
  <2>3. CASE ~UNCHANGED <<candidate, artifacts, arrived>>
    <3>1. /\ artifacts[Own(p).kind][run[p]] = NoRef /\ candidate[Own(p).kind][run[p]] = NoRef
          /\ \E h : candidate' = [candidate EXCEPT ![Own(p).kind][run[p]] = h]
          /\ artifacts' = [artifacts EXCEPT ![Own(p).kind][run[p]] = sha[p]]
          /\ arrived' = [arrived EXCEPT ![run[p]] = Append(@, Own(p).kind)]
      BY <1>2, <2>3, PushShape
    <3>2. arrived[r] \in Seq(Kinds) BY <2>1 DEF TypeOK
    <3>3. arrived[r] # <<>> => /\ Append(arrived[r], Own(p).kind) # <<>>
                               /\ Head(Append(arrived[r], Own(p).kind)) = Head(arrived[r])
      BY <2>1, <3>2
    <3> QED BY <2>1, <3>1, <3>3 DEF TypeOK
  <2> QED BY <2>2, <2>3
<1> QED BY <1>1, <1>2

-----------------------------------------------------------------------------
(* The places of the processes *)

(* What the invariant says of one process. *)
Placed(p) ==
  /\ pc[p] = "executing" =>
       opLock[SiteOf[p]] = p /\ run[p] \in RunIds /\ Own(p).kind = "admitted"
  /\ pc[p] \in Transporting => run[p] \in RunIds /\ Own(p).kind \in Kinds
  /\ pc[p] = "push" => specs[p] = Parts(p) /\ sha[p] \in Procs /\ SiteOf[sha[p]] = SiteOf[p]
  /\ pc[p] \in {"attend", "signal"} =>
       /\ sha[p] \in Procs /\ SiteOf[sha[p]] = SiteOf[p]
       /\ artifacts[Own(p).kind][run[p]] = sha[p]
  /\ pc[p] = "signal" => arrived[run[p]] # <<>> /\ Head(arrived[run[p]]) = Own(p).kind

(* The five parts about processes are one statement about each of them. *)
LEMMA PlacedParts ==
  (Executing /\ Holding /\ Pushing /\ Attending /\ Signalling) <=> \A p \in Procs : Placed(p)
BY DEF Executing, Holding, Pushing, Attending, Signalling, Placed

(* A record that is not absent changes only by the process that executes. *)
LEMMA RecordOfOthers ==
  ASSUME IInv, NEW p \in Procs, Step(p), NEW s \in Sites, NEW r \in RunIds,
         record[s][r].kind # "absent",
         ~(pc[p] = "executing" /\ s = SiteOf[p] /\ r = run[p])
  PROVE  record'[s][r] = record[s][r]
<1>1. TypeOK /\ SiteOf[p] \in Sites BY SiteAssumption DEF IInv
<1>2. ASSUME NEW r2 \in RunIds, NEW src, IsNextRun(SiteOf[p], r2), Reserve(p, r2, src)
      PROVE  record'[s][r] = record[s][r]
  BY <1>1, <1>2, ReservedIsNew DEF Reserve, TypeOK
<1>3. ASSUME NEW k, NEW h, NEW b, pc[p] = "executing", Terminate(p, k, h, b)
      PROVE  record'[s][r] = record[s][r]
  <2>1. run[p] \in RunIds BY <1>3 DEF IInv, Executing
  <2> QED BY <1>1, <1>3, <2>1 DEF Terminate, TypeOK
<1>4. CASE Admit(p) BY <1>2, <1>4 DEF Admit
<1>5. CASE Recover(p) BY <1>2, <1>5 DEF Recover
<1>6. CASE Succeed(p) BY <1>3, <1>6 DEF Succeed
<1>7. CASE Fail(p) BY <1>3, <1>7 DEF Fail
<1> QED BY <1>4, <1>5, <1>6, <1>7, RecordStays

(* Another process keeps its place. *)
LEMMA OtherPlaced ==
  ASSUME IInv, NEW p \in Procs, Step(p), NEW q \in Procs, q # p
  PROVE  Placed(q)'
<1>1. /\ pc'[q] = pc[q] /\ run'[q] = run[q] /\ specs'[q] = specs[q] /\ sha'[q] = sha[q]
      /\ opLock[SiteOf[q]] = q => opLock'[SiteOf[q]] = q
  BY OthersStay
<1>2. Placed(q) BY PlacedParts DEF IInv
<1>3. SiteOf[q] \in Sites BY SiteAssumption
<1>4. CASE pc[q] = "executing"
  <2>1. run[q] \in RunIds /\ Own(q).kind = "admitted" /\ opLock[SiteOf[q]] = q
    BY <1>2, <1>4 DEF Placed
  <2>2. ~(pc[p] = "executing" /\ SiteOf[q] = SiteOf[p])
    BY <2>1 DEF IInv, Executing
  <2>3. record'[SiteOf[q]][run[q]] = record[SiteOf[q]][run[q]]
    BY <1>3, <2>1, <2>2, RecordOfOthers DEF Own
  <2> QED BY <1>1, <1>4, <2>1, <2>3 DEF Placed, Own, Transporting
<1>5. CASE pc[q] \in Transporting
  <2>1. run[q] \in RunIds /\ Own(q).kind \in Kinds BY <1>2, <1>5 DEF Placed
  <2>2. record'[SiteOf[q]][run[q]] = record[SiteOf[q]][run[q]]
    BY <1>3, <2>1, RecordIsFinal DEF Own
  <2>3. Own(q)' = Own(q) BY <1>1, <2>2 DEF Own
  <2>4. Parts(q)' = Parts(q) BY <2>3 DEF Parts
  <2>5. /\ artifacts[Own(q).kind][run[q]] # NoRef
             => artifacts'[Own(q).kind][run[q]] = artifacts[Own(q).kind][run[q]]
        /\ arrived[run[q]] # <<>>
             => arrived'[run[q]] # <<>> /\ Head(arrived'[run[q]]) = Head(arrived[run[q]])
    BY <2>1, TerminalIsFinal
  <2>6. NoRef \notin Procs BY NullAssumption
  <2> QED BY <1>1, <1>2, <1>5, <2>1, <2>3, <2>4, <2>5, <2>6 DEF Placed, Transporting
<1>6. CASE pc[q] = "idle" BY <1>1, <1>6 DEF Placed, Transporting
<1> QED BY <1>4, <1>5, <1>6 DEF IInv, TypeOK, Transporting

(* A process that ends its invocation is nowhere. *)
LEMMA EndPlaced == ASSUME IInv, NEW p \in Procs, End(p) PROVE Placed(p)'
BY DEF IInv, TypeOK, End, Goto, Placed, Transporting

(* A reserved RUN is executed under the lock. *)
LEMMA ReservePlaced ==
  ASSUME IInv, NEW p \in Procs, NEW r \in RunIds, NEW src \in RunIds \cup {NoRun},
         Reserve(p, r, src)
  PROVE  Placed(p)'
<1>1. TypeOK /\ SiteOf[p] \in Sites BY SiteAssumption DEF IInv
<1>2. pc'[p] = "executing" /\ run'[p] = r /\ opLock'[SiteOf[p]] = p
  BY <1>1 DEF Reserve, Goto, TypeOK
<1>3. record'[SiteOf[p]][r] = AdmittedFrom(src) BY <1>1 DEF Reserve, TypeOK
<1>4. AdmittedFrom(src).kind = "admitted" BY DEF AdmittedFrom, NoFile
<1> QED BY <1>2, <1>3, <1>4 DEF Placed, Own, Transporting

(* A terminal is durable before its transport begins. *)
LEMMA TerminatePlaced ==
  ASSUME IInv, NEW p \in Procs, pc[p] = "executing", NEW k \in Kinds, NEW h, NEW b,
         Terminate(p, k, h, b), Goto(p, "query"), UNCHANGED <<run, specs, sha>>
  PROVE  Placed(p)'
<1>1. TypeOK /\ SiteOf[p] \in Sites /\ run[p] \in RunIds
  BY SiteAssumption DEF IInv, Executing
<1>2. pc'[p] = "query" /\ run'[p] = run[p] BY <1>1 DEF Goto, TypeOK
<1>3. record'[SiteOf[p]][run[p]] = [Own(p) EXCEPT !.kind = k, !.head = h, !.publish = b]
  BY <1>1 DEF Terminate, TypeOK, Own
<1>4. Own(p) \in File BY <1>1 DEF TypeOK, Own
<1>5. record'[SiteOf[p]][run[p]].kind = k BY <1>3, <1>4 DEF File
<1> QED BY <1>1, <1>2, <1>5 DEF Placed, Own, Transporting

(* The process that steps gets to a place where the invariant holds. *)
LEMMA SelfPlaced == ASSUME IInv, NEW p \in Procs, Step(p) PROVE Placed(p)'
<1>1. TypeOK /\ SiteOf[p] \in Sites /\ NoRef \notin Procs
  BY SiteAssumption, NullAssumption DEF IInv
<1>2. Placed(p) BY PlacedParts DEF IInv
<1>3. CASE Admit(p) BY <1>3, ReservePlaced DEF Admit
<1>4. CASE Recover(p) BY <1>4, ReservePlaced DEF Recover
<1>5. CASE Succeed(p) BY <1>5, EndPlaced, TerminatePlaced DEF Succeed, Kinds
<1>6. CASE Fail(p) BY <1>6, EndPlaced, TerminatePlaced DEF Fail, Kinds
<1>7. CASE RetryTransport(p)
  <2>1. PICK r \in RunIds : record[SiteOf[p]][r].kind \in Kinds /\ run' = [run EXCEPT ![p] = r]
    BY <1>7 DEF RetryTransport
  <2>2. pc'[p] = "query" /\ run'[p] = r /\ record' = record
    BY <1>1, <1>7, <2>1 DEF RetryTransport, Goto, TypeOK
  <2> QED BY <2>1, <2>2 DEF Placed, Own, Transporting
<1>8. CASE Query(p)
  <2>1. CASE ~Compatible(p) BY <1>8, <2>1, EndPlaced DEF Query
  <2>2. CASE Compatible(p)
    <3>1. run[p] \in RunIds /\ Own(p).kind \in Kinds BY <1>2, <1>8 DEF Query, Placed, Transporting
    <3>2. /\ UNCHANGED <<run, record, artifacts, candidate, arrived>>
          /\ specs'[p] = Missing(p)
          /\ pc'[p] = IF Missing(p) = {} THEN "attend" ELSE "push"
      BY <1>1, <1>8, <2>2 DEF Query, Goto, TypeOK, remote
    <3>3. Own(p)' = Own(p) /\ Parts(p)' = Parts(p) BY <3>2 DEF Own, Parts
    <3>4. CASE artifacts[Own(p).kind][run[p]] = NoRef
      <4>1. candidate[Own(p).kind][run[p]] = NoRef BY <3>1, <3>4 DEF IInv, TransportIsWhole
      <4>2. Missing(p) = Parts(p) /\ "artifacts" \in Missing(p)
        BY <3>4, <4>1 DEF Missing, Parts, Ref
      <4>3. sha'[p] \in Procs /\ SiteOf[sha'[p]] = SiteOf[p]
        BY <1>1, <1>8, <2>2, <4>2 DEF Query, TypeOK, ArtifactsCommit
      <4>4. pc'[p] = "push" BY <3>2, <4>2
      <4> QED BY <3>1, <3>2, <3>3, <4>2, <4>3, <4>4 DEF Placed, Transporting
    <3>5. CASE artifacts[Own(p).kind][run[p]] # NoRef
      <4>1. SiteOf[artifacts[Own(p).kind][run[p]]] = SiteOf[p]
        BY <2>2, <3>5 DEF Compatible, SameContent
      <4>2. Own(p).publish => candidate[Own(p).kind][run[p]] = Own(p).head
        <5> DEFINE k == Own(p).kind
                   r == run[p]
                   file == record[SiteOf[artifacts[k][r]]][r]
        <5>1. TransportIsWhole /\ k \in Kinds /\ r \in RunIds /\ artifacts[k][r] # NoRef
          BY <3>1, <3>5 DEF IInv
        <5>2. candidate[k][r] = IF file.publish THEN file.head ELSE NoRef
          BY <5>1 DEF TransportIsWhole
        <5>3. file = Own(p) BY <4>1 DEF Own
        <5> QED BY <5>2, <5>3
      <4>3. Own(p).head # NoRef
        <5>1. Own(p) \in File BY <1>1, <3>1 DEF TypeOK, Own
        <5> QED BY <3>1, <5>1 DEF File
      <4>4. Missing(p) = {} BY <3>5, <4>2, <4>3 DEF Missing, Parts, Ref
      <4>5. sha'[p] = artifacts[Own(p).kind][run[p]]
        BY <1>1, <1>8, <2>2, <4>4 DEF Query, TypeOK
      <4>6. artifacts[Own(p).kind][run[p]] \in Procs BY <1>1, <3>1, <3>5 DEF TypeOK
      <4>7. pc'[p] = "attend" BY <3>2, <4>4
      <4> QED BY <3>1, <3>2, <3>3, <4>1, <4>5, <4>6, <4>7 DEF Placed, Transporting
    <3> QED BY <3>4, <3>5
  <2> QED BY <2>1, <2>2
<1>9. CASE Push(p)
  <2>1. CASE End(p) BY <2>1, EndPlaced
  <2>2. CASE /\ Lands(p) /\ Create(p, specs[p])
             /\ Goto(p, "attend") /\ UNCHANGED <<opLock, run, specs, sha>>
    <3>1. /\ run[p] \in RunIds /\ Own(p).kind \in Kinds /\ "artifacts" \in specs[p]
          /\ sha[p] \in Procs /\ SiteOf[sha[p]] = SiteOf[p]
      BY <1>2, <1>9 DEF Push, Placed, Transporting, Parts
    <3>2. artifacts' = [artifacts EXCEPT ![Own(p).kind][run[p]] = sha[p]]
      BY <2>2, <3>1 DEF Create, NewRef
    <3>3. artifacts'[Own(p).kind][run[p]] = sha[p] BY <1>1, <3>1, <3>2 DEF TypeOK
    <3>4. record' = record BY <1>9 DEF Push
    <3>5. Own(p)' = Own(p) BY <2>2, <3>4 DEF Own
    <3>6. pc'[p] = "attend" BY <1>1, <2>2 DEF Goto, TypeOK
    <3> QED BY <2>2, <3>1, <3>3, <3>5, <3>6 DEF Placed, Transporting
  <2> QED BY <1>9, <2>1, <2>2 DEF Push
<1>10. CASE Attend(p)
  <2>1. CASE End(p) BY <2>1, EndPlaced
  <2>2. CASE ~End(p)
    <3>1. /\ Uncontested(OwnSignal(p)) /\ Goto(p, "signal")
          /\ UNCHANGED <<opLock, run, specs, sha, record, candidate, artifacts, arrived>>
      BY <1>10, <2>2 DEF Attend, remote
    <3>2. /\ run[p] \in RunIds /\ Own(p).kind \in Kinds
          /\ sha[p] \in Procs /\ SiteOf[sha[p]] = SiteOf[p]
          /\ artifacts[Own(p).kind][run[p]] = sha[p]
      BY <1>2, <1>10 DEF Attend, Placed, Transporting
    <3>3. artifacts[Other(Own(p).kind)][run[p]] = NoRef
      BY <3>1 DEF Uncontested, OwnSignal
    <3>4. arrived[run[p]] # <<>> BY <1>1, <3>2 DEF IInv, Arriving, Published
    <3>5. Head(arrived[run[p]]) \in Kinds BY <1>1, <3>2, <3>4 DEF TypeOK
    <3>6. artifacts[Head(arrived[run[p]])][run[p]] # NoRef BY <3>2, <3>4 DEF IInv, Arriving
    <3>7. Head(arrived[run[p]]) = Own(p).kind BY <3>2, <3>3, <3>5, <3>6 DEF Other, Kinds
    <3>8. Own(p)' = Own(p) BY <3>1 DEF Own
    <3>9. pc'[p] = "signal" BY <1>1, <3>1 DEF Goto, TypeOK
    <3> QED BY <3>1, <3>2, <3>4, <3>7, <3>8, <3>9 DEF Placed, Transporting
  <2> QED BY <2>1, <2>2
<1>11. CASE SignalTerminal(p) \/ Stop(p) BY <1>11, EndPlaced DEF SignalTerminal, Stop
<1> QED BY <1>3, <1>4, <1>5, <1>6, <1>7, <1>8, <1>9, <1>10, <1>11 DEF Step

-----------------------------------------------------------------------------
(* The remote, the histories and the records *)

(* The history of arrivals keeps beginning with a terminal that is there. *)
LEMMA ArrivingStep == ASSUME IInv, NEW p \in Procs, Step(p) PROVE Arriving'
<1> SUFFICES ASSUME NEW r \in RunIds
             PROVE  /\ Published(r)' => arrived'[r] # <<>>
                    /\ arrived'[r] # <<>> => artifacts'[Head(arrived'[r])][r] # NoRef
  BY DEF Arriving
<1>1. /\ Published(r) => arrived[r] # <<>>
      /\ arrived[r] # <<>> => artifacts[Head(arrived[r])][r] # NoRef
      /\ TypeOK /\ NoRef \notin Procs
  BY NullAssumption DEF IInv, Arriving
<1>2. CASE UNCHANGED <<candidate, artifacts, arrived>> BY <1>1, <1>2 DEF Published
<1>3. CASE Push(p) /\ ~UNCHANGED <<candidate, artifacts, arrived>>
  <2>1. /\ run[p] \in RunIds /\ Own(p).kind \in Kinds /\ sha[p] \in Procs
    BY <1>3 DEF IInv, Holding, Pushing, Transporting, Push
  <2>2. /\ artifacts' = [artifacts EXCEPT ![Own(p).kind][run[p]] = sha[p]]
        /\ arrived' = [arrived EXCEPT ![run[p]] = Append(@, Own(p).kind)]
    BY <1>3, PushShape
  <2>3. CASE r # run[p]
    <3>1. arrived'[r] = arrived[r] /\ \A k \in Kinds : artifacts'[k][r] = artifacts[k][r]
      BY <1>1, <2>1, <2>2, <2>3 DEF TypeOK
    <3>2. arrived[r] # <<>> => Head(arrived[r]) \in Kinds BY <1>1 DEF TypeOK
    <3> QED BY <1>1, <3>1, <3>2 DEF Published
  <2>4. CASE r = run[p]
    <3>1. arrived[r] \in Seq(Kinds) BY <1>1 DEF TypeOK
    <3>2. arrived'[r] = Append(arrived[r], Own(p).kind) BY <1>1, <2>2, <2>4 DEF TypeOK
    <3>3. arrived'[r] # <<>> BY <2>1, <3>1, <3>2
    <3>4. CASE arrived[r] = <<>>
      <4>1. Head(arrived'[r]) = Own(p).kind BY <2>1, <3>2, <3>4
      <4>2. artifacts'[Own(p).kind][r] = sha[p] BY <1>1, <2>1, <2>2, <2>4 DEF TypeOK
      <4> QED BY <1>1, <2>1, <3>3, <4>1, <4>2
    <3>5. CASE arrived[r] # <<>>
      <4>1. Head(arrived'[r]) = Head(arrived[r]) /\ Head(arrived[r]) \in Kinds
        BY <2>1, <3>1, <3>2, <3>5
      <4>2. artifacts'[Head(arrived[r])][r] = artifacts[Head(arrived[r])][r]
        BY <1>1, <3>5, <4>1, TerminalIsFinal
      <4> QED BY <1>1, <3>3, <3>5, <4>1, <4>2
    <3> QED BY <3>4, <3>5
  <2> QED BY <2>3, <2>4
<1> QED BY <1>2, <1>3, RemoteStays

(* A terminal that is pushed is the pusher's own, whole. *)
LEMMA WholeStep == ASSUME IInv, NEW p \in Procs, Step(p) PROVE TransportIsWhole'
<1> SUFFICES ASSUME NEW k \in Kinds, NEW r \in RunIds
             PROVE  IF artifacts'[k][r] = NoRef THEN candidate'[k][r] = NoRef
                    ELSE LET file == record'[SiteOf[artifacts'[k][r]]][r]
                         IN /\ file.kind = k
                            /\ candidate'[k][r] = IF file.publish THEN file.head ELSE NoRef
  BY DEF TransportIsWhole
<1>1. /\ TypeOK /\ TransportIsWhole /\ SiteOf \in [Procs -> Sites] /\ NoRef \notin Procs
  BY SiteAssumption, NullAssumption DEF IInv
<1>2. CASE artifacts[k][r] # NoRef
  <2>1. artifacts[k][r] \in Procs BY <1>1, <1>2 DEF TypeOK
  <2>2. LET file == record[SiteOf[artifacts[k][r]]][r]
        IN /\ file.kind = k
           /\ candidate[k][r] = IF file.publish THEN file.head ELSE NoRef
    BY <1>1, <1>2 DEF TransportIsWhole
  <2>3. record'[SiteOf[artifacts[k][r]]][r] = record[SiteOf[artifacts[k][r]]][r]
    BY <1>1, <2>1, <2>2, RecordIsFinal
  <2>4. artifacts'[k][r] = artifacts[k][r] /\ candidate'[k][r] = candidate[k][r]
    BY <1>2, TerminalIsFinal
  <2> QED BY <1>2, <2>2, <2>3, <2>4
<1>3. CASE artifacts[k][r] = NoRef /\ UNCHANGED <<candidate, artifacts, arrived>>
  BY <1>1, <1>3 DEF TransportIsWhole
<1>4. CASE artifacts[k][r] = NoRef /\ Push(p) /\ ~UNCHANGED <<candidate, artifacts, arrived>>
  <2>1. /\ run[p] \in RunIds /\ Own(p).kind \in Kinds
        /\ sha[p] \in Procs /\ SiteOf[sha[p]] = SiteOf[p] /\ record' = record
    BY <1>4 DEF IInv, Holding, Pushing, Transporting, Push
  <2>2. /\ artifacts' = [artifacts EXCEPT ![Own(p).kind][run[p]] = sha[p]]
        /\ candidate' = [candidate EXCEPT ![Own(p).kind][run[p]] =
                           IF Own(p).publish THEN Own(p).head ELSE NoRef]
    BY <1>4, PushShape
  <2>3. CASE k = Own(p).kind /\ r = run[p]
    <3>1. artifacts'[k][r] = sha[p]
          /\ candidate'[k][r] = IF Own(p).publish THEN Own(p).head ELSE NoRef
      BY <1>1, <2>1, <2>2, <2>3 DEF TypeOK
    <3> QED BY <1>1, <2>1, <2>3, <3>1 DEF Own
  <2>4. CASE ~(k = Own(p).kind /\ r = run[p])
    <3>1. artifacts'[k][r] = artifacts[k][r] /\ candidate'[k][r] = candidate[k][r]
      BY <1>1, <2>1, <2>2, <2>4 DEF TypeOK
    <3> QED BY <1>1, <1>4, <3>1 DEF TransportIsWhole
  <2> QED BY <2>3, <2>4
<1> QED BY <1>2, <1>3, <1>4, RemoteStays

(* A transport is told only after the terminal was found on the remote. *)
LEMMA ToldStep == ASSUME IInv, NEW p \in Procs, Step(p) PROVE ToldIsCanonical'
<1> SUFFICES ASSUME NEW x \in told'
             PROVE  LET k == record'[x[1]][x[2]].kind
                    IN /\ k \in Kinds /\ artifacts'[k][x[2]] # NoRef
                       /\ SiteOf[artifacts'[k][x[2]]] = x[1]
  BY DEF ToldIsCanonical
<1>1. /\ TypeOK /\ ToldIsCanonical /\ SiteOf \in [Procs -> Sites] /\ NoRef \notin Procs
  BY SiteAssumption, NullAssumption DEF IInv
<1>2. CASE x \in told
  <2>1. x[1] \in Sites /\ x[2] \in RunIds BY <1>1, <1>2 DEF TypeOK
  <2>2. LET k == record[x[1]][x[2]].kind
        IN k \in Kinds /\ artifacts[k][x[2]] # NoRef /\ SiteOf[artifacts[k][x[2]]] = x[1]
    BY <1>1, <1>2 DEF ToldIsCanonical
  <2>3. record'[x[1]][x[2]] = record[x[1]][x[2]] BY <2>1, <2>2, RecordIsFinal
  <2>4. artifacts'[record[x[1]][x[2]].kind][x[2]] = artifacts[record[x[1]][x[2]].kind][x[2]]
    BY <2>1, <2>2, TerminalIsFinal
  <2> QED BY <2>2, <2>3, <2>4
<1>3. CASE x \notin told
  <2>1. /\ Attend(p) \/ SignalTerminal(p)
        /\ x = <<SiteOf[p], run[p]>>
    BY <1>3 DEF Step, Admit, Recover, Reserve, Succeed, Fail, RetryTransport, Query, Push,
                Attend, SignalTerminal, Stop, Tell
  <2>2. /\ run[p] \in RunIds /\ Own(p).kind \in Kinds
        /\ sha[p] \in Procs /\ SiteOf[sha[p]] = SiteOf[p]
        /\ artifacts[Own(p).kind][run[p]] = sha[p]
    BY <2>1 DEF IInv, Holding, Attending, Transporting, Attend, SignalTerminal
  <2>3. record' = record /\ artifacts' = artifacts
    BY <2>1 DEF Attend, SignalTerminal, remote
  <2>4. x[1] = SiteOf[p] /\ x[2] = run[p] BY <2>1
  <2> QED BY <1>1, <2>2, <2>3, <2>4 DEF Own
<1> QED BY <1>2, <1>3

(* What a step signals is the terminal of the one who signals. *)
LEMMA SignalShape ==
  ASSUME IInv, NEW p \in Procs, Step(p), signals' # signals
  PROVE  /\ pc[p] = "signal" /\ signals' = signals \cup {OwnSignal(p)}
         /\ UNCHANGED <<record, candidate, artifacts, arrived>>
BY DEF Step, Admit, Recover, Reserve, Succeed, Fail, RetryTransport, Query, Push, Attend,
       SignalTerminal, Stop, remote

(* So a signal is about the terminal that came first. *)
LEMMA FirstStep == ASSUME IInv, NEW p \in Procs, Step(p) PROVE FirstTerminalSignalled'
<1> SUFFICES ASSUME NEW g \in signals'
             PROVE  /\ arrived'[g.run] # <<>> /\ Head(arrived'[g.run]) = g.kind
                    /\ artifacts'[g.kind][g.run] = g.sha
  BY DEF FirstTerminalSignalled
<1>1. TypeOK /\ FirstTerminalSignalled /\ NoRef \notin Procs BY NullAssumption DEF IInv
<1>2. CASE g \in signals
  <2>1. g.kind \in Kinds /\ g.run \in RunIds /\ g.sha \in Procs BY <1>1, <1>2 DEF TypeOK, Signal
  <2>2. /\ arrived[g.run] # <<>> /\ Head(arrived[g.run]) = g.kind
        /\ artifacts[g.kind][g.run] = g.sha
    BY <1>1, <1>2 DEF FirstTerminalSignalled
  <2> QED BY <1>1, <2>1, <2>2, TerminalIsFinal
<1>3. CASE g \notin signals
  <2>1. pc[p] = "signal" /\ g = OwnSignal(p) /\ UNCHANGED <<artifacts, arrived>>
    BY <1>3, SignalShape
  <2>2. /\ artifacts[Own(p).kind][run[p]] = sha[p]
        /\ arrived[run[p]] # <<>> /\ Head(arrived[run[p]]) = Own(p).kind
    BY <2>1 DEF IInv, Attending, Signalling
  <2> QED BY <2>1, <2>2 DEF OwnSignal
<1> QED BY <1>2, <1>3

(* A source is settled when its continuation is admitted, and stays so. *)
LEMMA SourceStep ==
  ASSUME IInv, NEW p \in Procs, Step(p), NEW s \in Sites, NEW r \in RunIds,
         record'[s][r].source # NoRun
  PROVE  LET src == record'[s][r].source
         IN /\ src \in RunIds /\ src < r /\ record'[s][r].kind # "absent"
            /\ Conflicting(src) /\ candidate["RESULT"][src] # NoRef
<1>1. /\ TypeOK /\ Continuing /\ RecoveryRestsOnConflict /\ SiteOf[p] \in Sites
  BY SiteAssumption DEF IInv
<1>2. CASE record[s][r].kind # "absent"
  <2>1. record'[s][r].source = record[s][r].source /\ record'[s][r].kind # "absent"
    BY <1>2, RecordIsFinal
  <2>2. record[s][r].source \in RunIds
    <3>1. record[s][r] \in File BY <1>1 DEF TypeOK
    <3> QED BY <2>1, <3>1 DEF File
  <2> QED BY <1>1, <2>1, <2>2 DEF Continuing, RecoveryRestsOnConflict
<1>3. CASE record[s][r].kind = "absent"
  <2>1. record[s][r].source = NoRun BY <1>1, <1>3 DEF Continuing
  <2>2. record'[s][r] # record[s][r] BY <2>1
  <2>3. CASE Admit(p)
    <3>1. PICK r2 \in RunIds : Reserve(p, r2, NoRun) BY <2>3 DEF Admit
    <3>2. record'[s][r] \in {record[s][r], AdmittedFrom(NoRun)}
      BY <1>1, <3>1 DEF Reserve, TypeOK
    <3>3. AdmittedFrom(NoRun).source = NoRun BY DEF AdmittedFrom, NoFile
    <3> QED BY <2>1, <3>2, <3>3
  <2>4. CASE Recover(p)
    <3>1. PICK src, r2 \in RunIds :
            Recoverable(src) /\ IsNextRun(SiteOf[p], r2) /\ Reserve(p, r2, src)
      BY <2>4 DEF Recover
    <3>2. record'[s][r] = AdmittedFrom(src) /\ r = r2
      BY <1>1, <2>2, <3>1 DEF Reserve, TypeOK
    <3>3. AdmittedFrom(src).source = src /\ AdmittedFrom(src).kind = "admitted"
      BY DEF AdmittedFrom, NoFile
    <3>4. src < r BY <3>1, <3>2 DEF Recoverable, Conflicting, Published, Kinds, IsNextRun, Used
    <3> QED BY <3>1, <3>2, <3>3, <3>4 DEF Recoverable
  <2>5. CASE Succeed(p) \/ Fail(p)
    <3>1. run[p] \in RunIds /\ Own(p).kind = "admitted"
      BY <2>5 DEF IInv, Executing, Succeed, Fail
    <3>2. ~(s = SiteOf[p] /\ r = run[p]) BY <1>3, <3>1 DEF Own
    <3>3. PICK k, h, b : Terminate(p, k, h, b) BY <2>5 DEF Succeed, Fail
    <3>4. record'[s][r] = record[s][r] BY <1>1, <3>1, <3>2, <3>3 DEF Terminate, TypeOK
    <3> QED BY <2>2, <3>4
  <2> QED BY <2>2, <2>3, <2>4, <2>5, RecordStays
<1> QED BY <1>2, <1>3

(* Both parts about sources follow. *)
LEMMA ContinuingStep == ASSUME IInv, NEW p \in Procs, Step(p) PROVE Continuing'
<1> SUFFICES ASSUME NEW s \in Sites, NEW r \in RunIds, record'[s][r].source # NoRun
             PROVE  /\ record'[s][r].kind # "absent"
                    /\ candidate'["RESULT"][record'[s][r].source] # NoRef
  BY DEF Continuing
<1>1. /\ record'[s][r].source \in RunIds /\ record'[s][r].kind # "absent"
      /\ candidate["RESULT"][record'[s][r].source] # NoRef
  BY SourceStep
<1>2. "RESULT" \in Kinds BY DEF Kinds
<1> QED BY <1>1, <1>2, TerminalIsFinal

(* A terminal of a continued RUN carries the candidate it was continued from. *)
LEMMA RecoveryStep == ASSUME IInv, NEW p \in Procs, Step(p) PROVE RecoveryRestsOnConflict'
<1> SUFFICES ASSUME NEW s \in Sites, NEW r \in RunIds, record'[s][r].source # NoRun
             PROVE  LET file == record'[s][r]
                    IN /\ file.source < r
                       /\ \A k \in Kinds : artifacts'[k][file.source] # NoRef
                       /\ file.kind \in Kinds => file.head = candidate'["RESULT"][file.source]
  BY DEF RecoveryRestsOnConflict, Conflicting
<1> DEFINE src == record'[s][r].source
<1>1. src \in RunIds /\ src < r /\ Conflicting(src) /\ candidate["RESULT"][src] # NoRef
  BY SourceStep
<1>2. \A k \in Kinds : artifacts'[k][src] # NoRef BY <1>1, TerminalIsFinal DEF Conflicting
<1>3. candidate'["RESULT"][src] = candidate["RESULT"][src]
  BY <1>1, TerminalIsFinal DEF Kinds
<1>4. TypeOK /\ RecoveryRestsOnConflict /\ SiteOf[p] \in Sites BY SiteAssumption DEF IInv
<1>5. ASSUME record'[s][r].kind \in Kinds PROVE record'[s][r].head = candidate["RESULT"][src]
  <2>1. CASE record[s][r].kind \in Kinds
    <3>1. record'[s][r] = record[s][r] BY <2>1, RecordIsFinal
    <3> QED BY <1>4, <1>5, <3>1 DEF RecoveryRestsOnConflict
  <2>2. CASE record[s][r].kind \notin Kinds
    <3>1. record' # record BY <1>5, <2>2
    <3>2. ASSUME NEW src2, NEW r2 \in RunIds, Reserve(p, r2, src2) PROVE FALSE
      <4>1. record'[s][r] \in {record[s][r], AdmittedFrom(src2)}
        BY <1>4, <3>2 DEF Reserve, TypeOK
      <4>2. AdmittedFrom(src2).kind = "admitted" BY DEF AdmittedFrom, NoFile
      <4> QED BY <1>5, <2>2, <4>1, <4>2 DEF Kinds
    <3>3. ASSUME NEW k, NEW h \in CandidateHeads(p), NEW b, pc[p] = "executing",
                 Terminate(p, k, h, b)
          PROVE  record'[s][r].head = candidate["RESULT"][src]
      <4>1. run[p] \in RunIds BY <3>3 DEF IInv, Executing
      <4>2. s = SiteOf[p] /\ r = run[p]
        BY <1>4, <1>5, <2>2, <3>3, <4>1 DEF Terminate, TypeOK
      <4>3. record'[s][r] = [Own(p) EXCEPT !.kind = k, !.head = h, !.publish = b]
        BY <1>4, <3>3, <4>1, <4>2 DEF Terminate, TypeOK, Own
      <4>4. Own(p) \in File BY <1>4, <4>1 DEF TypeOK, Own
      <4>5. record'[s][r].head = h /\ Own(p).source = src BY <4>3, <4>4 DEF File
      <4>6. Own(p).source # NoRun BY <4>5
      <4> QED BY <3>3, <4>5, <4>6 DEF CandidateHeads
    <3>4. CASE Admit(p) BY <3>2, <3>4 DEF Admit
    <3>5. CASE Recover(p) BY <3>2, <3>5 DEF Recover
    <3>6. CASE Succeed(p) BY <3>3, <3>6 DEF Succeed
    <3>7. CASE Fail(p) BY <3>3, <3>7 DEF Fail
    <3> QED BY <3>1, <3>4, <3>5, <3>6, <3>7, RecordStays
  <2> QED BY <2>1, <2>2
<1> QED BY <1>1, <1>2, <1>3, <1>5

-----------------------------------------------------------------------------
(* Invariance *)

(* It holds in the beginning. *)
LEMMA InvariantInit == Init => IInv
<1> SUFFICES ASSUME Init PROVE IInv OBVIOUS
<1>1. TypeOK BY TypeInit
<1>2. Executing /\ Holding /\ Pushing /\ Attending /\ Signalling
  BY DEF Init, Executing, Holding, Pushing, Attending, Signalling, Transporting
<1>3. Arriving BY DEF Init, Arriving, Published, Kinds
<1>4. Continuing /\ RecoveryRestsOnConflict
  BY DEF Init, Continuing, RecoveryRestsOnConflict, NoFile
<1>5. TransportIsWhole /\ ToldIsCanonical /\ FirstTerminalSignalled
  BY DEF Init, TransportIsWhole, ToldIsCanonical, FirstTerminalSignalled
<1> QED BY <1>1, <1>2, <1>3, <1>4, <1>5 DEF IInv

(* Every step of a process keeps it. *)
LEMMA InvariantStep == ASSUME IInv, NEW p \in Procs, Step(p) PROVE IInv'
<1>1. TypeOK' BY TypeStep
<1>2. (\A q \in Procs : Placed(q))' BY SelfPlaced, OtherPlaced
<1>3. Executing' /\ Holding' /\ Pushing' /\ Attending' /\ Signalling'
  BY <1>2 DEF Executing, Holding, Pushing, Attending, Signalling, Placed
<1> QED
  BY <1>1, <1>3, ArrivingStep, ContinuingStep, WholeStep, ToldStep, FirstStep, RecoveryStep
  DEF IInv

(* The rollout of the carrier and a step that changes nothing keep it too. *)
LEMMA InvariantRest ==
  ASSUME IInv, UNCHANGED <<opLock, record, remote, signals, local, told, faults>>,
         surface' \in {surface, TRUE}
  PROVE  IInv'
<1>1. TypeOK' BY DEF IInv, TypeOK, remote, local
<1>2. Executing' /\ Holding' /\ Pushing' /\ Attending' /\ Signalling'
  BY DEF IInv, Executing, Holding, Pushing, Attending, Signalling, Transporting, Own, Parts,
         remote, local
<1>3. Arriving' /\ Continuing' /\ RecoveryRestsOnConflict'
  BY DEF IInv, Arriving, Published, Continuing, RecoveryRestsOnConflict, Conflicting, remote
<1>4. TransportIsWhole' /\ ToldIsCanonical' /\ FirstTerminalSignalled'
  BY DEF IInv, TransportIsWhole, ToldIsCanonical, FirstTerminalSignalled, remote
<1> QED BY <1>1, <1>2, <1>3, <1>4 DEF IInv

(* The invariant holds of every behaviour. *)
THEOREM Invariance == Spec => []IInv
<1>1. IInv /\ [Next]_vars => IInv'
  <2> SUFFICES ASSUME IInv, [Next]_vars PROVE IInv' OBVIOUS
  <2>1. CASE \E p \in Procs : Step(p) BY <2>1, InvariantStep
  <2>2. CASE UpgradeMain BY <2>2, InvariantRest DEF UpgradeMain
  <2>3. CASE UNCHANGED vars BY <2>3, InvariantRest DEF vars
  <2> QED BY <2>1, <2>2, <2>3 DEF Next
<1> QED BY <1>1, InvariantInit, PTL DEF Spec

(* Every variable keeps its type. *)
THEOREM TypeCorrect == Spec => []TypeOK
<1>1. IInv => TypeOK BY DEF IInv
<1> QED BY <1>1, Invariance, PTL

(* However many checkouts publish under one RUN number, every terminal on
   the remote is the whole terminal of one of them: the push is atomic and
   the refs are only created. *)
THEOREM TerminalsAreWhole == Spec => []TransportIsWhole
<1>1. IInv => TransportIsWhole BY DEF IInv
<1> QED BY <1>1, Invariance, PTL

(* A transport that was told complete is the canonical terminal. *)
THEOREM ToldStands == Spec => []ToldIsCanonical
<1>1. IInv => ToldIsCanonical BY DEF IInv
<1> QED BY <1>1, Invariance, PTL

(* A RUN is signalled with the terminal that came first. *)
THEOREM FirstIsSignalled == Spec => []FirstTerminalSignalled
<1>1. IInv => FirstTerminalSignalled BY DEF IInv
<1> QED BY <1>1, Invariance, PTL

(* A recovered RUN continues the candidate of a RUN that has two terminals. *)
THEOREM RecoveryIsGrounded == Spec => []RecoveryRestsOnConflict
<1>1. IInv => RecoveryRestsOnConflict BY DEF IInv
<1> QED BY <1>1, Invariance, PTL

-----------------------------------------------------------------------------
(* Refinement *)

(* The signals of a RUN are the one its first terminal has. *)
LEMMA OneSignal ==
  ASSUME IInv, NEW p \in Procs, pc[p] = "signal"
  PROVE  /\ SignalsOf(run[p]) \subseteq {OwnSignal(p)}
         /\ OwnSignal(p) \in Signal
         /\ arrived[run[p]] # <<>> /\ Head(arrived[run[p]]) = Own(p).kind
<1>1. /\ run[p] \in RunIds /\ Own(p).kind \in Kinds /\ sha[p] \in Procs
      /\ artifacts[Own(p).kind][run[p]] = sha[p]
      /\ arrived[run[p]] # <<>> /\ Head(arrived[run[p]]) = Own(p).kind
  BY DEF IInv, Holding, Attending, Signalling, Transporting
<1>2. ASSUME NEW g \in signals, g.run = run[p] PROVE g = OwnSignal(p)
  <2>1. g \in Signal BY DEF IInv, TypeOK
  <2>2. Head(arrived[run[p]]) = g.kind /\ artifacts[g.kind][run[p]] = g.sha
    BY <1>2 DEF IInv, FirstTerminalSignalled
  <2> QED BY <1>1, <1>2, <2>1, <2>2 DEF Signal, OwnSignal
<1>3. OwnSignal(p) \in Signal BY <1>1 DEF OwnSignal, Signal
<1> QED BY <1>1, <1>2, <1>3 DEF SignalsOf

(* The remote starts as an empty registry. *)
LEMMA RegistryInit == Init => Registry!Init
<1> SUFFICES ASSUME Init PROVE Registry!Init OBVIOUS
<1>1. terminalOf = [k \in Kinds |-> [r \in RunIds |-> NoRef]] BY DEF Init, terminalOf
<1>2. wakeOf = [r \in RunIds |-> NoRef] BY DEF Init, wakeOf, SignalsOf
<1> QED BY <1>1, <1>2 DEF Init, Registry!Init

(* A terminal of the registry shows only the refs. *)
LEMMA SameTerminal ==
  ASSUME UNCHANGED <<candidate, artifacts>> PROVE terminalOf' = terminalOf
BY DEF terminalOf

(* A wake-up shows only the signals. *)
LEMMA SameWake == ASSUME UNCHANGED signals PROVE wakeOf' = wakeOf
BY DEF wakeOf, SignalsOf

(* A push that creates something publishes a terminal. *)
LEMMA PushRefines ==
  ASSUME IInv, NEW p \in Procs, Push(p), ~UNCHANGED <<candidate, artifacts, arrived>>
  PROVE  run[p] \in RunIds /\ Own(p).kind \in Kinds /\ Registry!Publish(Own(p).kind, run[p])
<1> DEFINE k == Own(p).kind
           r == run[p]
           t == [site |-> SiteOf[sha[p]], head |-> IF Own(p).publish THEN Own(p).head ELSE NoRef]
<1>1. /\ TypeOK /\ r \in RunIds /\ k \in Kinds /\ sha[p] \in Procs
      /\ SiteOf[sha[p]] \in Sites /\ Own(p) \in File /\ NoRef \notin Procs
  BY SiteAssumption, NullAssumption
  DEF IInv, Holding, Transporting, Pushing, Push, TypeOK, Own
<1>2. /\ artifacts[k][r] = NoRef
      /\ candidate' = [candidate EXCEPT ![k][r] = IF Own(p).publish THEN Own(p).head ELSE NoRef]
      /\ artifacts' = [artifacts EXCEPT ![k][r] = sha[p]]
      /\ arrived' = [arrived EXCEPT ![r] = Append(@, k)]
  BY PushShape
<1>3. terminalOf[k][r] = NoRef BY <1>1, <1>2 DEF terminalOf
<1>4. t \in Registry!Terminal BY <1>1 DEF Registry!Terminal, File
<1>5. terminalOf' = [terminalOf EXCEPT ![k][r] = t]
  <2>1. ASSUME NEW k2 \in Kinds, NEW r2 \in RunIds, ~(k2 = k /\ r2 = r)
        PROVE  artifacts'[k2][r2] = artifacts[k2][r2] /\ candidate'[k2][r2] = candidate[k2][r2]
    BY <1>1, <1>2, <2>1 DEF TypeOK
  <2>2. artifacts'[k][r] = sha[p]
        /\ candidate'[k][r] = IF Own(p).publish THEN Own(p).head ELSE NoRef
    BY <1>1, <1>2 DEF TypeOK
  <2> HIDE DEF k, r
  <2>3. ASSUME NEW k2 \in Kinds, NEW r2 \in RunIds
        PROVE  (terminalOf')[k2][r2] = [terminalOf EXCEPT ![k][r] = t][k2][r2]
    BY <1>1, <2>1, <2>2 DEF terminalOf
  <2>4. /\ terminalOf' = [k2 \in Kinds |-> [r2 \in RunIds |-> (terminalOf')[k2][r2]]]
        /\ [terminalOf EXCEPT ![k][r] = t]
             = [k2 \in Kinds |-> [r2 \in RunIds |-> [terminalOf EXCEPT ![k][r] = t][k2][r2]]]
    BY <1>1 DEF terminalOf
  <2> QED BY <2>3, <2>4
<1>6. wakeOf' = wakeOf BY SameWake DEF Push
<1> QED BY <1>1, <1>2, <1>3, <1>4, <1>5, <1>6 DEF Registry!Publish

(* A new signal wakes with the first terminal. *)
LEMMA SignalRefines ==
  ASSUME IInv, NEW p \in Procs, Step(p), signals' # signals
  PROVE  run[p] \in RunIds /\ Registry!Signal(run[p])
<1>1. /\ pc[p] = "signal" /\ signals' = signals \cup {OwnSignal(p)}
      /\ UNCHANGED <<record, candidate, artifacts, arrived>>
  BY SignalShape
<1>2. run[p] \in RunIds BY <1>1 DEF IInv, Holding, Transporting
<1>3. SignalsOf(run[p]) = {} BY <1>1, OneSignal DEF SignalsOf
<1>4. arrived[run[p]] # <<>> /\ Head(arrived[run[p]]) = Own(p).kind BY <1>1, OneSignal
<1>5. wakeOf' = [wakeOf EXCEPT ![run[p]] = Head(arrived[run[p]])]
  <2> DEFINE After(r) == {g \in signals' : g.run = r}
  <2>1. After(run[p]) = {OwnSignal(p)}
    BY <1>1, <1>3 DEF SignalsOf, OwnSignal
  <2>2. ASSUME NEW r \in RunIds, r # run[p] PROVE After(r) = SignalsOf(r)
    BY <1>1, <2>2 DEF SignalsOf, OwnSignal
  <2>3. (CHOOSE g \in After(run[p]) : TRUE).kind = Own(p).kind
    <3>1. (CHOOSE g \in After(run[p]) : TRUE) \in After(run[p])
      <4>1. \E g \in After(run[p]) : TRUE BY <2>1
      <4> HIDE DEF After
      <4> QED BY <4>1
    <3> QED BY <2>1, <3>1 DEF OwnSignal
  <2>4. wakeOf' = [r \in RunIds |-> IF After(r) = {} THEN NoRef
                                    ELSE (CHOOSE g \in After(r) : TRUE).kind]
    BY DEF wakeOf, SignalsOf
  <2> HIDE DEF After
  <2>5. \A r \in RunIds : (wakeOf')[r] = IF r = run[p] THEN Head(arrived[run[p]]) ELSE wakeOf[r]
    <3>1. (wakeOf')[run[p]] = Head(arrived[run[p]]) BY <1>2, <1>4, <2>1, <2>3, <2>4
    <3>2. ASSUME NEW r \in RunIds, r # run[p] PROVE (wakeOf')[r] = wakeOf[r]
      BY <2>2, <2>4, <3>2 DEF wakeOf
    <3> QED BY <3>1, <3>2
  <2>6. wakeOf' = [r \in RunIds |-> (wakeOf')[r]] BY <2>4
  <2> QED BY <1>2, <2>5, <2>6 DEF wakeOf
<1>6. wakeOf[run[p]] = NoRef BY <1>2, <1>3 DEF wakeOf
<1>7. terminalOf' = terminalOf BY <1>1, SameTerminal
<1> QED BY <1>1, <1>2, <1>4, <1>5, <1>6, <1>7 DEF Registry!Signal

(* Without a lock between them, the checkouts keep the remote a registry of
   write-once terminals. *)
THEOREM TransportsAreRegistry == Spec => ImplementsRegistry
<1>1. IInv /\ [Next]_vars => [Registry!Next]_(<<terminalOf, arrived, wakeOf>>)
  <2> SUFFICES ASSUME IInv, [Next]_vars
               PROVE  Registry!Next \/ UNCHANGED <<terminalOf, arrived, wakeOf>>
    OBVIOUS
  <2>1. CASE UNCHANGED <<candidate, artifacts, arrived, signals>>
    BY <2>1, SameTerminal, SameWake
  <2>2. ASSUME NEW p \in Procs, Step(p)
        PROVE  Registry!Next \/ UNCHANGED <<terminalOf, arrived, wakeOf>>
    <3>1. CASE Push(p) /\ ~UNCHANGED <<candidate, artifacts, arrived>>
      BY <3>1, PushRefines DEF Registry!Next
    <3>2. CASE signals' # signals BY <2>2, <3>2, SignalRefines DEF Registry!Next
    <3>3. CASE UNCHANGED <<candidate, artifacts, arrived, signals>> BY <2>1, <3>3
    <3> QED BY <2>2, <3>1, <3>2, <3>3, RemoteStays
  <2>3. CASE UpgradeMain BY <2>1, <2>3 DEF UpgradeMain, remote
  <2>4. CASE UNCHANGED vars BY <2>1, <2>4 DEF vars, remote
  <2> QED BY <2>2, <2>3, <2>4 DEF Next
<1> QED BY <1>1, RegistryInit, Invariance, PTL DEF Spec, ImplementsRegistry, Registry!Spec

=============================================================================
