--------------------------- MODULE PublicationGate ---------------------------
(***************************************************************************)
(* How a reviewed candidate reaches the published main                     *)
(* (src/src/aios_renew/publication.py, authoring_ingress.py, operator.py). *)
(*                                                                         *)
(* Four kinds of jobs work on the shared remote without a common lock:     *)
(* the ingress submits a review, the Publisher fast-forwards main to a     *)
(* candidate with a PASS, the ingress authors a TASK on main, and Runtime  *)
(* recovers a PASS that main has diverged from.  They share one ref, the   *)
(* publication reservation: whoever writes a PASS or main holds it, nobody *)
(* takes it over, and it expires.  A job that fails leaves it behind.      *)
(***************************************************************************)
EXTENDS Naturals, FiniteSets

CONSTANTS
  Jobs,        \* invocations; each one does one thing
  Runs,        \* RUN ids
  Tasks,       \* TASK revisions to be authored
  Ops,         \* what the jobs of an instance do
  Legacy,      \* RUNs with a PASS that predates the reservation
  Life,        \* lifetime of a reservation
  MaxClock,    \* bound: the clock
  Root,        \* the first commit
  NoJob, NoToken, NoPlan, Before

ASSUME BoundAssumption == Life \in Nat \ {0} /\ MaxClock \in Nat /\ Legacy \subseteq Runs
ASSUME NameAssumption ==
  /\ Jobs \cap Runs = {} /\ Runs \cap Tasks = {} /\ Jobs \cap Tasks = {}
  /\ Root \notin Jobs \cup Runs /\ NoJob \notin Jobs /\ Before \notin Jobs \cup {NoJob}
  /\ NoJob \notin Runs \cup Tasks
  /\ \A r \in Runs : <<r>> \notin Jobs

VARIABLES
  main,        \* refs/heads/main
  candidate,   \* aios/review/<run>
  decision,    \* aios/review-decision/<run>: who wrote it
  passed,      \* the RUNs whose decision is a PASS
  tip,         \* aios/publication-reservation/main
  admitted,    \* aios/publication-recovery/<run>
  source,      \* aios/publication-source/<identity>
  executed,    \* the recoveries that ran the verification (history)
  result,      \* recovered RUNs with a local RESULT
  clock,
  pc,          \* where a job is
  op,          \* what it does
  on,          \* the RUN or TASK it works on
  todo,        \* what it does after the next check
  base,        \* main as it read it
  known,       \* the decisions as it read them
  token        \* its reservation

refs == <<main, candidate, decision, passed, admitted, source>>
recovery == <<executed, result>>
job == <<pc, op, on, todo, base, known, token>>
vars == <<refs, tip, recovery, clock, job>>

-----------------------------------------------------------------------------
(* State.  A definition named Mut... is a plausible slip in the definition
   that follows it; no behaviour uses it, and each one breaks a property. *)

(* A commit is the set of the changes in its history: a RUN's, an authored
   TASK's, or the merge of a recovery.  Every change is introduced by one
   commit, so one commit is an ancestor of another when it is a subset. *)
Merge(r) == <<r>>
Changes == {Root} \cup Runs \cup Jobs \cup {Merge(r) : r \in Runs}
Commits == SUBSET Changes
Missing == {}

Subjects == Runs \cup Tasks
Writers == Jobs \cup {Before, NoJob}
Token ==
  [subject: Subjects, source: Commits, main: Commits, decision: Writers, at: 0..MaxClock]
Plan == [run: Runs, main: Commits]
ASSUME NullAssumption == NoToken \notin Token /\ NoPlan \notin Plan

(* The reservation is introduced when main is at the root, or at a candidate
   that was published before. *)
Init ==
  /\ main \in {{Root}} \cup {{Root, r} : r \in Legacy}
  /\ candidate = [r \in Runs |-> IF r \in Legacy THEN {Root, r} ELSE Missing]
  /\ decision = [r \in Runs |-> IF r \in Legacy THEN Before ELSE NoJob]
  /\ passed = Legacy
  /\ tip = NoToken
  /\ admitted = [r \in Runs |-> NoPlan]
  /\ source = [r \in Runs |-> Missing]
  /\ executed = [r \in Runs |-> {}]
  /\ result = {}
  /\ clock = 0
  /\ pc = [j \in Jobs |-> "new"]
  /\ op = [j \in Jobs |-> "none"]
  /\ on = [j \in Jobs |-> NoJob]
  /\ todo = [j \in Jobs |-> "none"]
  /\ base = [j \in Jobs |-> Missing]
  /\ known = [j \in Jobs |-> [r \in Runs |-> NoJob]]
  /\ token = [j \in Jobs |-> NoToken]

Goto(j, step) == pc' = [pc EXCEPT ![j] = step]
Proceed(j, step, then) == Goto(j, step) /\ todo' = [todo EXCEPT ![j] = then]

(* A job begins: it has read main and the decisions. *)
Begin(j, what, subject, step, then) ==
  /\ pc[j] = "new" /\ what \in Ops
  /\ Proceed(j, step, then)
  /\ op' = [op EXCEPT ![j] = what]
  /\ on' = [on EXCEPT ![j] = subject]
  /\ base' = [base EXCEPT ![j] = main]
  /\ known' = [known EXCEPT ![j] = decision]
  /\ UNCHANGED <<refs, tip, recovery, clock, token>>

-----------------------------------------------------------------------------
(* What a job reads from the refs *)

Contained(r) == candidate[r] \subseteq main
Divergent(r) == ~(main \subseteq candidate[r]) /\ ~Contained(r)
Eligible(r) == r \in passed /\ main \subseteq candidate[r] /\ ~Contained(r)

(* The candidate of r was made by the recovery of origin o. *)
RecoveredFrom(r, o) ==
  admitted[o] # NoPlan /\ admitted[o].run = r /\ source[o] # Missing /\ candidate[r] = source[o]

(* validate_publication_recovery: a recovered candidate is good for the main
   it was made for, or once it is published. *)
Grounded(r) ==
  \A o \in Runs : RecoveredFrom(r, o) => admitted[o].main = main \/ Contained(r)

MutCompeting(r, goal) == FALSE
(* _pending_review_guard: moving main to the goal would strand another
   eligible PASS. *)
Competing(r, goal) ==
  \E o \in passed \ {r} : Eligible(o) /\ ~(candidate[o] \subseteq goal)

MutTaskIn(commit, t) == tip # NoToken /\ tip.subject = t /\ tip.source = commit
(* The TASK is in the tree of a commit; the reservation of who put it there
   says nothing once it is released. *)
TaskIn(commit, t) == \E k \in Jobs : k \in commit /\ on[k] = t

-----------------------------------------------------------------------------
(* The reservation *)

(* What the job wants to do: the source it moves main to, and the decision
   it relies on; a new review writes its own decision. *)
Goal(j) == IF op[j] = "author" THEN base[j] \cup {j} ELSE candidate[on[j]]
DecisionOf(j) ==
  CASE op[j] = "submit" -> j
    [] op[j] = "author" -> NoJob
    [] OTHER -> decision[on[j]]

Wanted(j, t) ==
  [subject |-> on[j], source |-> Goal(j), main |-> base[j], decision |-> DecisionOf(j), at |-> t]

Fresh(t) == t # NoToken /\ clock < t.at + Life
Same(j, t) == t # NoToken /\ t = Wanted(j, t.at)

(* check_publication_reservation *)
Held(j) == tip = token[j] /\ Fresh(tip)

MutReserve(j) ==
  /\ pc[j] = "reserve"
  /\ ~Fresh(tip) /\ tip' = Wanted(j, clock)
  /\ token' = [token EXCEPT ![j] = tip']
  /\ Goto(j, CASE op[j] = "submit" -> "check" [] op[j] = "replay" -> "done" [] OTHER -> "recheck")
  /\ UNCHANGED <<refs, recovery, clock, op, on, todo, base, known>>

(* reserve_publication: create the ref, or share the reservation of exactly
   the same identity.  The replay of a review has nothing left to do. *)
Reserve(j) ==
  /\ pc[j] = "reserve"
  /\ \/ tip = NoToken /\ tip' = Wanted(j, clock)
     \/ Same(j, tip) /\ Fresh(tip) /\ UNCHANGED tip
  /\ token' = [token EXCEPT ![j] = tip']
  /\ Goto(j, CASE op[j] = "submit" -> "check" [] op[j] = "replay" -> "done" [] OTHER -> "recheck")
  /\ UNCHANGED <<refs, recovery, clock, op, on, todo, base, known>>

MutRecheck(j) ==
  /\ pc[j] = "recheck"
  /\ main = base[j]
  /\ Goto(j, "check")
  /\ UNCHANGED <<refs, tip, recovery, clock, op, on, todo, base, known, token>>

(* _recheck_binding: no decision was written since, and main did not move. *)
Recheck(j) ==
  /\ pc[j] = "recheck"
  /\ decision = known[j] /\ main = base[j]
  /\ Goto(j, "check")
  /\ UNCHANGED <<refs, tip, recovery, clock, op, on, todo, base, known, token>>

Check(j) ==
  /\ pc[j] = "check"
  /\ Held(j)
  /\ Goto(j, todo[j])
  /\ UNCHANGED <<refs, tip, recovery, clock, op, on, todo, base, known, token>>

(* release_publication_reservation *)
Release(j) ==
  /\ pc[j] = "release"
  /\ tip' = IF Held(j) THEN NoToken ELSE tip
  /\ Goto(j, "done")
  /\ UNCHANGED <<refs, recovery, clock, op, on, todo, base, known, token>>

(* The reservation of a finished owner, seen by a later job: of this review,
   whoever took it, or of the TASK commit that is main. *)
Finished(j) ==
  IF op[j] = "author" THEN tip.subject = on[j] /\ tip.source = base[j]
  ELSE /\ tip.subject = on[j] /\ tip.source = candidate[on[j]] /\ tip.decision = decision[on[j]]
       /\ tip.main = base[j] \/ candidate[on[j]] \subseteq base[j]

(* _finish_review_reservation, finish_main_publication_reservation *)
Settle(j) ==
  /\ pc[j] = "settle"
  /\ tip' = IF Fresh(tip) /\ Finished(j) THEN NoToken ELSE tip
  /\ Goto(j, "done")
  /\ UNCHANGED <<refs, recovery, clock, op, on, todo, base, known, token>>

-----------------------------------------------------------------------------
(* SUBMIT_REVIEW *)

(* A RUN publishes its candidate, made on main or on another candidate; a
   candidate of an older main could as well have come earlier. *)
Produce(r) ==
  /\ candidate[r] = Missing
  /\ \E parent \in {main} \cup {candidate[o] : o \in {x \in Runs : candidate[x] # Missing}} :
       candidate' = [candidate EXCEPT ![r] = parent \cup {r}]
  /\ UNCHANGED <<main, decision, passed, admitted, source, tip, recovery, clock, job>>

(* A review that is no PASS takes no reservation. *)
SubmitOther(j) ==
  /\ pc[j] = "new" /\ "submit" \in Ops
  /\ \E r \in Runs :
       /\ candidate[r] # Missing /\ decision[r] = NoJob /\ Grounded(r)
       /\ decision' = [decision EXCEPT ![r] = j]
  /\ Goto(j, "done")
  /\ UNCHANGED <<main, candidate, passed, admitted, source, tip, recovery, clock,
                 op, on, todo, base, known, token>>

BeginSubmit(j) ==
  \E r \in Runs :
    /\ candidate[r] # Missing /\ decision[r] = NoJob /\ Grounded(r)
    /\ Begin(j, "submit", r, "reserve", "confirm")

(* The same review again: after publication nothing is left to reserve. *)
BeginReplay(j) ==
  \E r \in passed : Grounded(r) /\ ~Contained(r) /\ Begin(j, "replay", r, "reserve", "none")

MutConfirm(j) ==
  /\ pc[j] = "confirm"
  /\ Goto(j, "decide")
  /\ UNCHANGED <<refs, tip, recovery, clock, op, on, todo, base, known, token>>

(* Right before the push, main still is the reserved one. *)
Confirm(j) ==
  /\ pc[j] = "confirm"
  /\ main = base[j]
  /\ Goto(j, "decide")
  /\ UNCHANGED <<refs, tip, recovery, clock, op, on, todo, base, known, token>>

(* The decision is pushed create-only.  The reservation stays: it covers the
   PASS until the Publisher is through with it. *)
Decide(j) ==
  /\ pc[j] = "decide"
  /\ decision[on[j]] = NoJob
  /\ decision' = [decision EXCEPT ![on[j]] = j]
  /\ passed' = passed \cup {on[j]}
  /\ Goto(j, "done")
  /\ UNCHANGED <<main, candidate, admitted, source, tip, recovery, clock,
                 op, on, todo, base, known, token>>

-----------------------------------------------------------------------------
(* The Publisher *)

(* publish_review_decision: a source that main contains, or has diverged
   from, only settles its reservation. *)
BeginSettle(j) ==
  \E r \in passed :
    Grounded(r) /\ (Contained(r) \/ Divergent(r)) /\ Begin(j, "publish", r, "settle", "none")

(* An eligible source needs the reservation free or its own, and no other
   eligible PASS that the move would strand. *)
BeginPublish(j) ==
  \E r \in passed :
    /\ Grounded(r) /\ Eligible(r) /\ ~Competing(r, candidate[r])
    /\ tip = NoToken \/ (Fresh(tip) /\ tip.subject = r /\ tip.source = candidate[r]
                         /\ tip.main = main /\ tip.decision = decision[r])
    /\ Begin(j, "publish", r, "reserve", "push")

(* main moves with a lease on the main that was read.  When the answer is
   lost the job fails and leaves its reservation. *)
Push(j) ==
  /\ pc[j] = "push"
  /\ main = base[j]
  /\ main' = Goal(j)
  /\ Goto(j, "release") \/ Goto(j, "done")
  /\ UNCHANGED <<candidate, decision, passed, admitted, source, tip, recovery, clock,
                 op, on, todo, base, known, token>>

-----------------------------------------------------------------------------
(* AUTHOR_TASK: a commit on top of main that holds the TASK *)

BeginAuthor(j) ==
  \E t \in Tasks :
    ~TaskIn(main, t) /\ ~Competing(NoJob, main \cup {j}) /\ Begin(j, "author", t, "reserve", "push")

(* The identical TASK is on main already: complete its owner's release. *)
BeginReauthor(j) ==
  \E t \in Tasks : TaskIn(main, t) /\ Begin(j, "author", t, "settle", "none")

-----------------------------------------------------------------------------
(* Recovery of a PASS that main has diverged from *)

Recoverable(r) ==
  /\ Divergent(r) /\ ~Competing(r, candidate[r])
  /\ \A o \in Runs : ~RecoveredFrom(r, o)

BeginRecover(j) ==
  \E r \in passed :
    Recoverable(r) /\ admitted[r] = NoPlan /\ Begin(j, "recover", r, "reserve", "admit")

(* Slip: what was admitted is taken up where its refs leave off, under the
   reservation of the delivery before it, wherever the RESULT is. *)
MutBeginResume(j) ==
  \E r \in passed :
    /\ Recoverable(r) /\ admitted[r] # NoPlan
    /\ candidate[admitted[r].run] = Missing /\ admitted[r].main = main
    /\ Begin(j, "recover", r, IF source[r] = Missing THEN "source" ELSE "verify", "none")

(* An admitted recovery is resumed only where its RESULT is, by a later
   invocation of the same checkout. *)
BeginResume(j) ==
  \E r \in passed \cap result :
    /\ Recoverable(r) /\ admitted[r] # NoPlan
    /\ candidate[admitted[r].run] = Missing /\ admitted[r].main = main
    /\ \A k \in executed[r] : pc[k] = "done"
    /\ Begin(j, "recover", r, "reserve", "source")

(* The recovered RESULT is on the remote: what is left is the reservation. *)
BeginRecovered(j) ==
  \E r \in passed :
    /\ admitted[r] # NoPlan /\ RecoveredFrom(admitted[r].run, r) /\ Grounded(admitted[r].run)
    /\ Begin(j, "recover", r, "settle", "none")

(* check_currentness comes before every step that writes. *)
ThenCheck(j, then) == Proceed(j, "recheck", then)

Doing(j, step) ==
  /\ pc[j] = step
  /\ UNCHANGED <<main, decision, passed, tip, clock, op, on, base, known, token>>

(* The admission is pushed create-only and names the RUN of the recovery. *)
Admit(j) ==
  /\ Doing(j, "admit")
  /\ admitted[on[j]] = NoPlan
  /\ \E q \in Runs :
       /\ candidate[q] = Missing /\ \A o \in Runs : admitted[o] # NoPlan => admitted[o].run # q
       /\ admitted' = [admitted EXCEPT ![on[j]] = [run |-> q, main |-> base[j]]]
  /\ ThenCheck(j, "source")
  /\ UNCHANGED <<candidate, source, recovery>>

(* materialize_publication_source: one commit per identity, which merges main
   and the reviewed source. *)
Source(j) ==
  /\ Doing(j, "source")
  /\ source' = [source EXCEPT ![on[j]] = base[j] \cup candidate[on[j]] \cup {Merge(on[j])}]
  /\ ThenCheck(j, IF on[j] \in result THEN "transport" ELSE "verify")
  /\ UNCHANGED <<candidate, admitted, recovery>>

Verify(j) ==
  /\ Doing(j, "verify")
  /\ executed' = [executed EXCEPT ![on[j]] = @ \cup {j}]
  /\ ThenCheck(j, "record")
  /\ UNCHANGED <<candidate, admitted, source, result>>

Record(j) ==
  /\ Doing(j, "record")
  /\ result' = result \cup {on[j]}
  /\ ThenCheck(j, "transport")
  /\ UNCHANGED <<candidate, admitted, source, executed>>

(* transport_post_pass: the candidate of the recovered RUN, create-only. *)
Transport(j) ==
  /\ Doing(j, "transport")
  /\ candidate[admitted[on[j]].run] \in {Missing, source[on[j]]}
  /\ candidate' = [candidate EXCEPT ![admitted[on[j]].run] = source[on[j]]]
  /\ Goto(j, "release")
  /\ UNCHANGED <<admitted, source, recovery, todo>>

-----------------------------------------------------------------------------
(* Failures, time and the human *)

(* A check refuses, a command fails or the job dies, anywhere: what is on the
   remote stays, its reservation too. *)
Stop(j) ==
  /\ pc[j] \notin {"new", "done"}
  /\ Goto(j, "done")
  /\ UNCHANGED <<refs, tip, recovery, clock, op, on, todo, base, known, token>>

Tick ==
  /\ clock < MaxClock /\ clock' = clock + 1
  /\ UNCHANGED <<refs, tip, recovery, job>>

(* The program takes no reservation over; a human deletes a stale one once
   nobody works under it. *)
Clear ==
  /\ tip # NoToken /\ ~Fresh(tip)
  /\ \A j \in Jobs : token[j] = tip => pc[j] = "done"
  /\ tip' = NoToken
  /\ UNCHANGED <<refs, recovery, clock, job>>

-----------------------------------------------------------------------------
(* Specification *)

Reviewing(j) == SubmitOther(j) \/ BeginSubmit(j) \/ BeginReplay(j) \/ Confirm(j) \/ Decide(j)
Publishing(j) == BeginSettle(j) \/ BeginPublish(j) \/ Push(j)
Authoring(j) == BeginAuthor(j) \/ BeginReauthor(j)
Recovering(j) ==
  \/ BeginRecover(j) \/ BeginResume(j) \/ BeginRecovered(j)
  \/ Admit(j) \/ Source(j) \/ Verify(j) \/ Record(j) \/ Transport(j)
Reserving(j) == Reserve(j) \/ Recheck(j) \/ Check(j) \/ Release(j) \/ Settle(j)

Step(j) == Reviewing(j) \/ Publishing(j) \/ Authoring(j) \/ Recovering(j) \/ Reserving(j) \/ Stop(j)

Next == (\E j \in Jobs : Step(j)) \/ (\E r \in Runs : Produce(r)) \/ Tick \/ Clear

Spec == Init /\ [][Next]_vars

-----------------------------------------------------------------------------
(* Properties *)

(* Every variable has its type. *)
TypeOK ==
  /\ main \in Commits
  /\ candidate \in [Runs -> Commits] /\ source \in [Runs -> Commits]
  /\ decision \in [Runs -> Writers] /\ passed \subseteq Runs
  /\ tip \in Token \cup {NoToken}
  /\ admitted \in [Runs -> Plan \cup {NoPlan}]
  /\ executed \in [Runs -> SUBSET Jobs] /\ result \subseteq Runs
  /\ clock \in 0..MaxClock
  /\ pc \in [Jobs -> {"new", "reserve", "recheck", "check", "confirm", "decide", "push",
                       "admit", "source", "verify", "record", "transport", "release",
                       "settle", "done"}]
  /\ op \in [Jobs -> {"none", "submit", "replay", "publish", "author", "recover"}]
  /\ on \in [Jobs -> Subjects \cup {NoJob}]
  /\ todo \in [Jobs -> {"none", "confirm", "push", "admit", "source", "verify", "record", "transport"}]
  /\ base \in [Jobs -> Commits]
  /\ known \in [Jobs -> [Runs -> Writers]]
  /\ token \in [Jobs -> Token \cup {NoToken}]

(* "Hold a mutation that would strand an observed eligible exact PASS
   source": a PASS that could be published stays publishable, or is
   published, whoever moves main meanwhile. *)
NoPassStranded ==
  [][\A r \in Runs : Eligible(r) => Eligible(r)' \/ Contained(r)']_vars

(* main only moves forward, and only under a reservation for exactly this
   move that nobody has taken away. *)
MoveIsOwned ==
  [][main' # main => /\ main \subseteq main'
                     /\ tip # NoToken /\ tip.main = main /\ tip.source = main']_vars

(* A PASS becomes durable under its own reservation and while main still is
   what the reservation was taken for. *)
PassIsOwned ==
  [][\A r \in passed' \ passed :
       /\ tip # NoToken /\ tip.subject = r /\ tip.source = candidate[r]
       /\ tip.main = main /\ tip.decision = decision'[r]]_vars

(* One TASK revision is on main at most once, however many deliveries of it
   raced. *)
TaskOnce == \A j, k \in main \cap Jobs : on[j] = on[k] => j = k

(* A recovery runs its verification at most once over all deliveries and
   resumptions, and its RUN has one source. *)
RecoveryOnce ==
  \A r \in Runs :
    /\ \A j, k \in executed[r] : j = k
    /\ source[r] # Missing => source[r] = admitted[r].main \cup candidate[r] \cup {Merge(r)}

-----------------------------------------------------------------------------
(* The abstract promise *)

Line == INSTANCE MainLine WITH Authors <- Jobs

(* All jobs together keep main the line of published commits that MainLine
   describes. *)
ImplementsLine == Line!Spec
=============================================================================
