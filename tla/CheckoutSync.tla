---------------------------- MODULE CheckoutSync ----------------------------
(***************************************************************************)
(* The control checkout of a repository (operator.py): a PRIMARY RUN works  *)
(* on its branch main, so its HEAD is at times the only copy of a RUN's     *)
(* commits, and the next PRIMARY first brings it to the published main: by  *)
(* a fast-forward, or by a reset when the remote is proven to keep          *)
(* everything the reset would drop.  operator.lock keeps the processes of   *)
(* the program apart; the remote moves meanwhile, and humans edit.          *)
(***************************************************************************)
EXTENDS FiniteSets, Naturals

CONSTANTS Operators,      \* operator processes
          Runs,       \* RUN ids of one TASK
          Posts,      \* TASKs authored on the published main
          Strays,     \* commits a human makes in the checkout
          Heavy,      \* changes to kernel source or TASK state
          MaxFaults,  \* bound on deaths of processes
          Root, Nobody, Unset

(* Names are told apart. *)
Setting ==
  /\ MaxFaults \in Nat
  /\ Nobody \notin Operators /\ Unset \notin Runs
  /\ Root \notin Runs \cup Posts \cup Strays
  /\ Runs \cap Posts = {} /\ Runs \cap Strays = {} /\ Posts \cap Strays = {}
ASSUME SettingAssumption == Setting

VARIABLES main,      \* the published main
          terminal,  \* the RUNs, and how each ended
          decided,   \* RESULTs with a review decision
          passed,    \* those with a PASS
          repaired,  \* FAILUREs whose REPAIR this checkout accepted
          head,      \* HEAD of the checkout
          dirty,     \* its status is not clean
          lock,      \* holder of operator.lock
          at, job,   \* place and work of each process
          faults

remote == <<main, decided, passed>>
checkout == <<head, dirty>>
checkoutVars == <<remote, terminal, repaired, checkout, lock, at, job, faults>>

(* A commit is the set of the changes in its history.  Each is made by one
   commit, so a commit is an ancestor of another when it is a subset. *)
Merge(r) == <<r>>
Changes == {Root} \cup Runs \cup Posts \cup Strays \cup {Merge(r) : r \in Runs}
Commits == SUBSET Changes
Missing == {}

Diverged(a, b) == ~(a \subseteq b) /\ ~(b \subseteq a)
Touches(a, b) == ((a \ b) \cup (b \ a)) \cap Heavy # {}

(* A FAILURE that cannot be transported is "unclean"; fix is a REMEDIATION. *)
Run == [kind : {"none", "open", "RESULT", "FAILURE", "unclean"}, base : Commits,
        head : Commits, from : Runs \cup {Unset}, fix : BOOLEAN, sent : BOOLEAN]
NoTerminal == [kind |-> "none", base |-> Missing, head |-> Missing, from |-> Unset,
               fix |-> FALSE, sent |-> FALSE]
Opened(b, s, f) == [NoTerminal EXCEPT !.kind = "open", !.base = b, !.head = b,
                                      !.from = s, !.fix = f]

Places == {"idle", "child", "sync", "fetch", "forward", "prove", "first", "second", "last",
           "reset", "synced", "admit", "work", "failing"}
Ops == {"none", "run", "continue", "reconcile", "correct"}
Job == [op : Ops, restarted : BOOLEAN, restart : BOOLEAN, local : Commits, target : Commits,
        found : SUBSET Runs, known : SUBSET Runs, seen : SUBSET Runs, run : Runs \cup {Unset}]
Work(o) == [op |-> o, restarted |-> FALSE, restart |-> FALSE, local |-> Missing,
            target |-> Missing, found |-> {}, known |-> {}, seen |-> {}, run |-> Unset]

CheckoutInit ==
  /\ main = {Root} /\ terminal = [r \in Runs |-> NoTerminal]
  /\ decided = {} /\ passed = {} /\ repaired = {}
  /\ head = {Root} /\ dirty = FALSE /\ lock = Nobody
  /\ at = [p \in Operators |-> "idle"] /\ job = [p \in Operators |-> Work("none")]
  /\ faults = 0

-----------------------------------------------------------------------------
(* What the remote says. *)

Sent == {r \in Runs : terminal[r].sent}
Failures == {r \in Sent : terminal[r].kind = "FAILURE"}
Results == Sent \ Failures

(* The candidates at a commit, in both families of refs. *)
Found(h) == {r \in Sent : terminal[r].head = h}

(* A RUN and those it corrects, the first one last. *)
Line[r \in Runs] ==
  {r} \cup (IF terminal[r].from = Unset THEN {} ELSE Line[terminal[r].from])
LineBase(r) == terminal[CHOOSE s \in Line[r] : terminal[s].from = Unset].base

(* _prove_primary_reviewed_result: the one candidate, of whatever verdict. *)
ProvenResult(found) == \E r \in Results : found = {r} /\ r \in decided /\ Line[r] \subseteq Sent

Continues(r, s) == terminal[r].from = s /\ ~terminal[r].fix
Closure(found) == {s \in Runs : \E r \in found : s \in Line[r]}

(* _prove_primary_failure_group: FAILUREs of one identity, *)
Group(found) ==
  /\ found \subseteq Failures
  /\ \A r, s \in found : /\ terminal[r].base = terminal[s].base
                          /\ terminal[r].from = terminal[s].from
  /\ \A r \in found : terminal[r].from = Unset \/ terminal[r].fix

(* or one closed chain of REPAIRs, that nothing local is outside of. *)
Chain(found, local, target) ==
  LET members == Closure(found)
      last(r) == ~\E s \in members : Continues(s, r)
  IN /\ members \subseteq Failures
     /\ \A r \in members : ~terminal[r].fix /\ terminal[r].head \subseteq local
     /\ \A r \in members : Cardinality({s \in members : Continues(s, r)}) <= 1
     /\ \E r \in members : last(r) /\ terminal[r].head = local
     /\ \A r, s \in members : last(r) /\ last(s) => r = s
     /\ \A r, s \in members : terminal[r].from = Unset /\ terminal[s].from = Unset => r = s
     /\ \A r \in Failures :
          terminal[r].head \subseteq local /\ ~(terminal[r].head \subseteq target) => r \in members

FailureBase(found) ==
  LET r == CHOOSE s \in found : TRUE
  IN IF Group(found) THEN terminal[r].base ELSE LineBase(r)

(* What must be so for a reset from local to target. *)
Preserved(found, local, target) ==
  /\ found # {}
  /\ \/ /\ ProvenResult(found)
        /\ \A r \in found : LineBase(r) \subseteq local \cap target
     \/ /\ found \subseteq Failures
        /\ Group(found) \/ Chain(found, local, target)
        /\ FailureBase(found) \subseteq local \cap target

(* reconcile_control_main names one FAILURE; the group does not matter. *)
Named(r, local, target) ==
  r \in Failures /\ terminal[r].head = local /\ terminal[r].base \subseteq local \cap target

-----------------------------------------------------------------------------
(* Processes.  A process that finds the lock held gives up. *)

Rest(p) == at' = [at EXCEPT ![p] = "idle"] /\ job' = [job EXCEPT ![p] = Work("none")]
Go(p, place, j) == at' = [at EXCEPT ![p] = place] /\ job' = [job EXCEPT ![p] = j]
Give(p) == lock' = Nobody /\ Rest(p)
Keep(p, place, j) == UNCHANGED lock /\ Go(p, place, j)

(* run and continue synchronise first, under the lock. *)
Enter(p) ==
  /\ at[p] = "idle" /\ lock = Nobody /\ lock' = p
  /\ \E o \in {"run", "continue"} : Go(p, "sync", Work(o))
  /\ UNCHANGED <<remote, terminal, repaired, checkout, faults>>

(* The child of a restart, or what a continue delegates: it is refused when
   the lock is held. *)
Reenter(p) ==
  /\ at[p] = "child"
  /\ IF lock = Nobody THEN lock' = p /\ Go(p, "sync", job[p]) ELSE UNCHANGED lock /\ Rest(p)
  /\ UNCHANGED <<remote, terminal, repaired, checkout, faults>>

(* _synchronize_primary_branch up to the look at the remote: a continue does
   nothing to a checkout that is not clean, and never reconciles. *)
Observe(p) ==
  LET j == [job[p] EXCEPT !.local = head, !.target = main]
  IN /\ at[p] = "sync"
     /\ CASE dirty -> IF j.op = "continue" THEN Keep(p, "synced", job[p]) ELSE Give(p)
          [] ~dirty /\ j.op = "run" /\ Diverged(head, main) ->
               IF j.restarted THEN Give(p) ELSE Keep(p, "prove", j)
          [] OTHER -> Keep(p, "fetch", job[p])
     /\ UNCHANGED <<remote, terminal, repaired, checkout, faults>>

(* The fetch of the tracking ref, and what it shows. *)
Fetch(p) ==
  LET stop == IF job[p].op = "continue" THEN Keep(p, "synced", job[p]) ELSE Give(p)
  IN /\ at[p] = "fetch"
     /\ CASE head = main -> Keep(p, "synced", job[p])
          [] head # main /\ job[p].restarted -> Give(p)
          [] head # main /\ ~job[p].restarted /\ ~(head \subseteq main) -> stop
          [] OTHER -> Keep(p, "forward", [job[p] EXCEPT !.target = main,
                                                        !.restart = Touches(head, main)])
     /\ UNCHANGED <<remote, terminal, repaired, checkout, faults>>

(* merge --ff-only, and the look at what it left. *)
Forward(p) ==
  /\ at[p] = "forward"
  /\ IF head \subseteq job[p].target
     THEN /\ head' = job[p].target
          /\ IF dirty THEN Give(p) ELSE Keep(p, "synced", job[p])
     ELSE UNCHANGED head /\ Give(p)
  /\ UNCHANGED <<remote, terminal, repaired, dirty, faults>>

(* The proof that the remote keeps the local history. *)
Prove(p) ==
  LET found == Found(job[p].local)
  IN /\ at[p] = "prove"
     /\ IF Preserved(found, job[p].local, job[p].target)
        THEN Keep(p, "first", [job[p] EXCEPT !.found = found, !.seen = decided,
                                 !.known = IF found \subseteq Failures THEN Failures ELSE Sent,
                                 !.restart = Touches(job[p].local, job[p].target)])
        ELSE Give(p)
     /\ UNCHANGED <<remote, terminal, repaired, checkout, faults>>

(* require_proof: no ref of the proof moved, and main did not. *)
Unmoved(p) ==
  LET j == job[p]
  IN /\ main = j.target
     /\ j.op = "run" =>
          /\ Found(j.local) = j.found
          /\ IF j.found \subseteq Failures
             THEN Failures = j.known ELSE Sent = j.known /\ decided = j.seen

MutBound(p) == job[p].local \subseteq head
Bound(p) == head = job[p].local

(* The proof, the binding and the worktree, before and after the objects of
   the target are imported. *)
Recheck(p) ==
  /\ at[p] \in {"first", "second"}
  /\ IF Unmoved(p) /\ Bound(p) /\ ~dirty
     THEN Keep(p, IF at[p] = "first" THEN "second" ELSE "last", job[p])
     ELSE Give(p)
  /\ UNCHANGED <<remote, terminal, repaired, checkout, faults>>

(* The last look; the Human's command has its look at the status here. *)
Last(p) ==
  /\ at[p] = "last"
  /\ IF Unmoved(p) /\ Bound(p) /\ (job[p].op = "reconcile" => ~dirty)
     THEN Keep(p, "reset", job[p])
     ELSE Give(p)
  /\ UNCHANGED <<remote, terminal, repaired, checkout, faults>>

(* git reset --hard *)
Reset(p) ==
  /\ at[p] = "reset"
  /\ head' = job[p].target /\ dirty' = FALSE
  /\ IF job[p].op = "reconcile" THEN Give(p) ELSE Keep(p, "synced", job[p])
  /\ UNCHANGED <<remote, terminal, repaired, faults>>

(* The lock is given back; HEAD as it now is goes with a PRIMARY.  A restart
   runs the same command again; a continue looks, and may start a PRIMARY. *)
Synced(p) ==
  LET j == job[p]
      next == [Work("run") EXCEPT !.restarted = j.restarted \/ j.restart]
  IN /\ at[p] = "synced" /\ lock' = Nobody
     /\ CASE j.restart \/ j.op = "continue" -> Go(p, "child", next) \/ Rest(p)
          [] OTHER -> Go(p, "admit", [next EXCEPT !.local = head])
     /\ UNCHANGED <<remote, terminal, repaired, checkout, faults>>

(* reconcile-control-main, up to its proof: exact RUN, HEAD and target. *)
ReconcileMain(p, r) ==
  /\ at[p] = "idle" /\ lock = Nobody /\ lock' = p
  /\ ~dirty /\ Diverged(head, main) /\ Named(r, head, main)
  /\ Go(p, "last", [Work("reconcile") EXCEPT !.local = head, !.target = main, !.found = {r}])
  /\ UNCHANGED <<remote, terminal, repaired, checkout, faults>>

-----------------------------------------------------------------------------
(* RUNs *)

MutPreflightStands(p) == job[p].local \subseteq head
PreflightStands(p) == head = job[p].local

(* _run_task_impl takes the lock again: the preflight must still stand. *)
Admit(p) ==
  /\ at[p] = "admit"
  /\ IF lock = Nobody /\ ~dirty /\ PreflightStands(p)
     THEN \E r \in Runs :
            /\ terminal[r].kind = "none"
            /\ terminal' = [terminal EXCEPT ![r] = Opened(head, Unset, FALSE)]
            /\ lock' = p /\ Go(p, "work", [Work("run") EXCEPT !.run = r])
     ELSE UNCHANGED <<terminal, lock>> /\ Rest(p)
  /\ UNCHANGED <<remote, repaired, checkout, faults>>

(* A REPAIR of a FAILURE, once, or a REMEDIATION of a reviewed RESULT works
   in the checkout when HEAD is at its source, and elsewhere otherwise. *)
Correct(p, r, s) ==
  LET fix == terminal[s].kind = "RESULT"
  IN /\ at[p] = "idle" /\ lock = Nobody /\ ~dirty
     /\ terminal[r].kind = "none" /\ s \in Sent /\ head = terminal[s].head
     /\ IF fix THEN s \in decided \ passed ELSE s \notin repaired
     /\ terminal' = [terminal EXCEPT ![r] = Opened(head, s, fix)]
     /\ repaired' = IF fix THEN repaired ELSE repaired \cup {s}
     /\ lock' = p /\ Go(p, "work", [Work("correct") EXCEPT !.run = r])
     /\ UNCHANGED <<remote, checkout, faults>>

Commit(p) ==
  /\ at[p] = "work" /\ job[p].run \notin head
  /\ head' = head \cup {job[p].run}
  /\ UNCHANGED <<remote, terminal, repaired, dirty, lock, at, job, faults>>

(* A RESULT is of a clean HEAD. *)
Complete(p) ==
  /\ at[p] = "work" /\ ~dirty /\ terminal[job[p].run].base \subseteq head
  /\ terminal' = [terminal EXCEPT ![job[p].run].kind = "RESULT", ![job[p].run].head = head]
  /\ Give(p)
  /\ UNCHANGED <<remote, repaired, checkout, faults>>

(* A RUN that fails gives the lock back first.  A failed verification names
   the candidate that was verified; any other failure is looked up. *)
Fail(p) ==
  /\ at[p] = "work" /\ lock' = Nobody
  /\ \/ Go(p, "failing", job[p])
     \/ ~dirty /\ Go(p, "failing", [job[p] EXCEPT !.local = head])
  /\ UNCHANGED <<remote, terminal, repaired, checkout, faults>>

(* _persist_failure, beside whoever holds the lock now: a FAILURE that is
   dirty, or has changes outside the scope of the TASK, is not transported. *)
RecordFailure(p) ==
  LET r == job[p].run
      exact == job[p].local # Missing
      at_ == IF exact THEN job[p].local ELSE head
      scoped == terminal[r].base \subseteq at_ /\ (at_ \ terminal[r].base) \cap Posts = {}
  IN /\ at[p] = "failing"
     /\ terminal' = [terminal EXCEPT ![r].head = at_,
                       ![r].kind = IF scoped /\ (exact \/ ~dirty) THEN "FAILURE" ELSE "unclean"]
     /\ Rest(p)
     /\ UNCHANGED <<remote, repaired, checkout, lock, faults>>

(* The process dies; the lock is free, its RUN stays open. *)
Die(p) ==
  /\ at[p] # "idle" /\ faults < MaxFaults /\ faults' = faults + 1
  /\ lock' = (IF lock = p THEN Nobody ELSE lock) /\ Rest(p)
  /\ UNCHANGED <<remote, terminal, repaired, checkout>>

-----------------------------------------------------------------------------
(* The remote and the humans. *)

(* The transport of a terminal, by its process or a retry. *)
DeliverTerminal(r) ==
  /\ terminal[r].kind \in {"RESULT", "FAILURE"} /\ ~terminal[r].sent
  /\ terminal' = [terminal EXCEPT ![r].sent = TRUE]
  /\ UNCHANGED <<remote, repaired, checkout, lock, at, job, faults>>

Review(r) ==
  /\ r \in Results \ decided
  /\ decided' = decided \cup {r} /\ passed' \in {passed, passed \cup {r}}
  /\ UNCHANGED <<main, terminal, repaired, checkout, lock, at, job, faults>>

(* A candidate with a PASS is published, or recovered from a diverged main. *)
Publish(r) ==
  /\ r \in passed /\ ~(terminal[r].head \subseteq main)
  /\ main' = IF main \subseteq terminal[r].head
             THEN terminal[r].head ELSE main \cup terminal[r].head \cup {Merge(r)}
  /\ UNCHANGED <<decided, passed, terminal, repaired, checkout, lock, at, job, faults>>

Post(t) ==
  /\ t \notin main /\ main' = main \cup {t}
  /\ UNCHANGED <<decided, passed, terminal, repaired, checkout, lock, at, job, faults>>

(* A RUN of another checkout, or of a workspace of its own, from a main or a
   terminal of the remote to its delivery. *)
Elsewhere(r) ==
  /\ terminal[r].kind = "none"
  /\ \E s \in Sent \cup {Unset}, k \in {"RESULT", "FAILURE"}, work \in {{}, {r}} :
       LET fix == s # Unset /\ terminal[s].kind = "RESULT"
           base == IF s = Unset THEN main ELSE terminal[s].head
       IN /\ fix => s \in decided \ passed
          /\ terminal' = [terminal EXCEPT ![r] = [kind |-> k, base |-> base, from |-> s,
                             head |-> base \cup work, fix |-> fix, sent |-> TRUE]]
  /\ UNCHANGED <<remote, repaired, checkout, lock, at, job, faults>>

(* A human works in the checkout, but not within the last instants of a
   reset: between the last look at what the work changes and the reset. *)
Stray(x) ==
  /\ x \notin head /\ \A p \in Operators : at[p] # "reset"
  /\ head' = head \cup {x}
  /\ UNCHANGED <<remote, terminal, repaired, dirty, lock, at, job, faults>>

Edit ==
  /\ ~dirty /\ \A p \in Operators : at[p] # "reset" /\ (at[p] = "last" => job[p].op = "reconcile")
  /\ dirty' = TRUE
  /\ UNCHANGED <<remote, terminal, repaired, head, lock, at, job, faults>>

Tidy ==
  /\ dirty /\ dirty' = FALSE
  /\ UNCHANGED <<remote, terminal, repaired, head, lock, at, job, faults>>

-----------------------------------------------------------------------------
Synchronise(p) ==
  \/ Enter(p) \/ Reenter(p) \/ Observe(p) \/ Fetch(p) \/ Forward(p) \/ Prove(p)
  \/ Recheck(p) \/ Last(p) \/ Reset(p) \/ Synced(p) \/ \E r \in Runs : ReconcileMain(p, r)

Execute(p) ==
  \/ Admit(p) \/ Commit(p) \/ Complete(p) \/ Fail(p) \/ RecordFailure(p)
  \/ \E r, s \in Runs : Correct(p, r, s)

Around ==
  \/ \E r \in Runs : DeliverTerminal(r) \/ Review(r) \/ Publish(r) \/ Elsewhere(r)
  \/ \E t \in Posts : Post(t)
  \/ \E x \in Strays : Stray(x)
  \/ Edit \/ Tidy

CheckoutNext == Around \/ \E p \in Operators : Synchronise(p) \/ Execute(p) \/ Die(p)

CheckoutSpec == CheckoutInit /\ [][CheckoutNext]_checkoutVars

-----------------------------------------------------------------------------
CheckoutTypes ==
  /\ main \in Commits /\ head \in Commits /\ dirty \in BOOLEAN
  /\ terminal \in [Runs -> Run]
  /\ passed \subseteq decided /\ decided \subseteq Runs /\ repaired \subseteq Runs
  /\ lock \in Operators \cup {Nobody} /\ faults \in 0 .. MaxFaults
  /\ at \in [Operators -> Places] /\ job \in [Operators -> Job]

(* No step drops a commit of the checkout unless the remote keeps it: what
   leaves HEAD is in the history of a delivered terminal, whatever was
   authored, delivered or published since the proof was made (the checks of
   _reconcile_primary_divergence and reconcile_control_main). *)
LocalWorkIsKept ==
  [][\/ head \subseteq head'
     \/ ~dirty /\ \E r \in Sent : head \subseteq terminal[r].head]_checkoutVars

(* A PRIMARY RUN is never built on the commits of another RUN that are not
   published, however its preflight, those of others, restarts and resets
   interleave (preflight_sha in _run_task_impl). *)
PrimaryBuildsOnPublished ==
  \A r \in Runs : terminal[r].from = Unset => terminal[r].base \cap Runs \subseteq main
=============================================================================
