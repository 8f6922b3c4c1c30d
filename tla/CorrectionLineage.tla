-------------------------- MODULE CorrectionLineage --------------------------
(***************************************************************************)
(* How the findings of a review are corrected, one RUN after the other,    *)
(* until nothing is outstanding (src/src/aios_renew/correction_frontier.py,*)
(* unified_state.py, operator.py, authoring_ingress.py, publication.py).   *)
(*                                                                         *)
(* A reviewed RUN leaves findings.  The Brain authors an authority over    *)
(* one of them, or over a batch of them; a checkout executes it as a new   *)
(* RUN on the tip of the lineage; the RUN is reviewed in turn.  A failed   *)
(* RUN is continued by a REPAIR.  What is outstanding is written nowhere:  *)
(* the reducer and the Publisher each derive it from the reviews along the *)
(* lineage.  Authors, checkouts, reviewers and the Publisher share only    *)
(* the create-only refs of the remote.                                     *)
(***************************************************************************)
EXTENDS Naturals, FiniteSets

CONSTANTS
  Last,        \* bound: the last RUN number
  Ids,         \* finding ids
  Reports,     \* the sets of findings that a review reports
  Checkouts,   \* where RUNs are executed
  MaxProposed, \* bound: authorings between their last proof and their push
  MaxFaults,   \* bound: pushes that are lost
  NoRun, NoReview, NoPlan

ASSUME BoundAssumption == Last \in Nat \ {0} /\ MaxProposed \in Nat /\ MaxFaults \in Nat
ASSUME ReportAssumption == Reports \subseteq (SUBSET Ids) \ {{}}

VARIABLES
  run,         \* the delivered terminal RUNs: aios/artifacts, aios/failure-artifacts
  review,      \* aios/review-decision/<run>
  proposed,    \* authorities whose author passed the last recheck
  granted,     \* aios/remediation/<source>-<finding or batch>
  repairs,     \* aios/repair/<run>
  plan,        \* what a checkout has resolved to execute
  number,      \* the RUN number it reserved for it, 0 before
  kept,        \* its terminal RUNs whose push was lost
  accepted,    \* the failed RUNs it has repaired: .runtime/repairs
  main,        \* the RUN whose candidate main is at, 0 before
  faults

remote == <<run, review, granted, repairs, main>>
vars == <<run, review, proposed, granted, repairs, plan, number, kept, accepted, main, faults>>

-----------------------------------------------------------------------------
(* State.  A definition named Mut... is a plausible slip in the definition
   that follows it; no behaviour uses it, and each one breaks a property. *)

Runs == 1..Last
Families == {"PRIMARY", "REMEDIATION", "REPAIR"}
Verdicts == {"PASS", "CHANGES_REQUIRED", "BLOCKED"}

(* A terminal RUN: the RUN it continues operationally, the source RUN and the
   findings it corrects, and the RUNs whose changes its candidate contains. *)
Record ==
  [at: Runs, family: Families, ok: BOOLEAN, base: 0..Last, source: 0..Last,
   ids: SUBSET Ids, line: SUBSET Runs]
Plan == [family: Families, base: Runs, source: 0..Last, ids: SUBSET Ids]
Authority == [source: Runs, ids: (SUBSET Ids) \ {{}}]

(* The findings a review accepts as resolved are recorded for a batch, whose
   review gives an outcome to each of them. *)
Review == [verdict: Verdicts, passed: SUBSET Ids, findings: SUBSET Ids]
ASSUME NullAssumption == NoRun \notin Record /\ NoReview \notin Review /\ NoPlan \notin Plan

(* The PRIMARY RUN has ended, with a candidate in either case. *)
Primary(ok) ==
  [at |-> 1, family |-> "PRIMARY", ok |-> ok, base |-> 0, source |-> 0, ids |-> {}, line |-> {1}]

Init ==
  /\ \E ok \in BOOLEAN : run = [n \in Runs |-> IF n = 1 THEN Primary(ok) ELSE NoRun]
  /\ review = [n \in Runs |-> NoReview]
  /\ proposed = {} /\ granted = {} /\ repairs = {}
  /\ plan = [c \in Checkouts |-> NoPlan]
  /\ number = [c \in Checkouts |-> 0]
  /\ kept = [c \in Checkouts |-> {}]
  /\ accepted = [c \in Checkouts |-> {}]
  /\ main = 0 /\ faults = 0

Delivered == {n \in Runs : run[n] # NoRun}
Succeeded == {n \in Delivered : run[n].ok}
Reviewed == {n \in Runs : review[n] # NoReview}
IsBatch(a) == Cardinality(a.ids) > 1

(* A finding is identified by the RUN whose review raised it. *)
Keys(n, ids) == {n} \X ids
Targets(a) == Keys(a.source, a.ids)

Children(n) == {k \in Delivered : run[k].base = n}
Competing == \E n \in Runs : Cardinality(Children(n)) > 1
Tips == {n \in Delivered : Children(n) = {}}
IsTip(t) == ~Competing /\ Tips = {t}

(* The candidate of RUN n contains what is published. *)
ContainsMain(n) == main = 0 \/ main \in run[n].line

-----------------------------------------------------------------------------
(* The frontier: what the reviews along a lineage leave outstanding *)

Frontier(open) == [valid |-> TRUE, open |-> open]
Invalid == [valid |-> FALSE, open |-> {}]
Clean == Frontier({})

(* A REPAIR carries on what the failed RUN was about. *)
Origin[n \in Runs] ==
  IF n \in Delivered /\ run[n].family = "REPAIR" THEN Origin[run[n].base] ELSE n
Subject(n) == run[Origin[n]]

FromPrimary(n) ==
  IF review[n].verdict = "BLOCKED" THEN Invalid ELSE Frontier(Keys(n, review[n].findings))

MutAdvance(before, n) ==
  IF ~(before.valid /\ Targets(Subject(n)) \subseteq before.open) THEN Invalid
  ELSE IF review[n].verdict = "BLOCKED" THEN before
  ELSE Frontier((before.open \ Targets(Subject(n))) \cup Keys(n, review[n].findings))

(* One DELTA review: of a single finding, PASS closes it and CHANGES_REQUIRED
   replaces it; of a batch, each finding has its own outcome and stays as it
   is unless that is PASS. *)
Advance(before, n) ==
  LET subject == Subject(n)
      new == Keys(n, review[n].findings)
      closed ==
        IF IsBatch(subject) THEN Keys(subject.source, review[n].passed) ELSE Targets(subject)
  IN  IF ~(before.valid /\ Targets(subject) \subseteq before.open) THEN Invalid
      ELSE IF ~IsBatch(subject) /\ review[n].verdict = "BLOCKED" THEN before
      ELSE Frontier((before.open \ closed) \cup new)

(* _derive_tip_frontier: along the operational parents; a RUN without a review
   is passed over, unless it is a batch that succeeded. *)
FrontierAt[n \in Runs] ==
  IF n \notin Delivered THEN Invalid
  ELSE IF n \notin Reviewed
       THEN IF run[n].base = 0 \/ (IsBatch(run[n]) /\ run[n].ok)
            THEN Invalid ELSE FrontierAt[run[n].base]
  ELSE IF Subject(n).family = "PRIMARY" THEN FromPrimary(n)
  ELSE Advance(FrontierAt[run[n].base], n)

(* _derive_publication_frontier: along the execution bases; every one of them
   must be reviewed. *)
WalkAt[n \in Runs] ==
  IF n \notin Delivered \cap Reviewed THEN Invalid
  ELSE IF Subject(n).family = "PRIMARY" THEN FromPrimary(n)
  ELSE Advance(WalkAt[Subject(n).base], n)

MeetsBatch[n \in Runs] ==
  /\ n \in Delivered \cap Reviewed
  /\ Subject(n).family # "PRIMARY"
  /\ IsBatch(Subject(n)) \/ MeetsBatch[Subject(n).base]

MutPublisherFrontier(n) == Clean
(* A walk that meets a batch is left to the reducer, and then nothing may
   compete and nothing may follow. *)
PublisherFrontier(n) ==
  IF ~MeetsBatch[n] THEN WalkAt[n]
  ELSE IF IsTip(n) THEN FrontierAt[n] ELSE Invalid

-----------------------------------------------------------------------------
(* Authoring *)

(* A delivered RUN names the authority it executed. *)
Consumed(a) ==
  \E n \in Delivered :
    run[n].family = "REMEDIATION" /\ run[n].source = a.source /\ run[n].ids = a.ids

(* reject_overlapping_remediations *)
Overlapped(a) ==
  \E b \in granted \ {a} :
    /\ ~Consumed(b)
    /\ b.source = a.source /\ b.ids \cap a.ids # {}
    /\ IsBatch(a) \/ IsBatch(b)

MutResolves(a, t) ==
  /\ IsTip(t) /\ t \in Succeeded
  /\ FrontierAt[t].valid /\ Targets(a) \subseteq FrontierAt[t].open
  /\ IsBatch(a) => t \in Reviewed
  /\ ~Overlapped(a)
  /\ a.source \in run[t].line
  /\ ContainsMain(t)

(* _resolve_cumulative_execution_base: authority a is to be executed on t. *)
Resolves(a, t) ==
  /\ IsTip(t) /\ t \in Succeeded
  /\ FrontierAt[t].valid /\ Targets(a) \subseteq FrontierAt[t].open
  /\ IsBatch(a) => t \in Reviewed /\ ~Consumed(a)
  /\ ~Overlapped(a)
  /\ a.source \in run[t].line
  /\ ContainsMain(t)

(* What the unified state finds selected among the open findings. *)
Selected(open) ==
  {a \in granted : Targets(a) \cap open # {} /\ (IsBatch(a) => ~Consumed(a))}

(* The unified state has these findings to correct on t. *)
Correctable(t, frontier) ==
  /\ review[t].verdict # "BLOCKED"
  /\ frontier.valid /\ frontier.open # {}
  /\ ContainsMain(t)
  /\ \A a \in Selected(frontier.open) : Targets(a) \subseteq frontier.open

(* A single finding is authored when nothing is selected, a batch also beside
   one authority that is ready to be executed. *)
Authorable(a) ==
  /\ a \notin granted
  /\ a.source \in Succeeded \cap Reviewed
  /\ review[a.source].verdict = "CHANGES_REQUIRED" /\ a.ids \subseteq review[a.source].findings
  /\ ~Overlapped(a)
  /\ \E t \in Succeeded \cap Reviewed :
       /\ IsTip(t)
       /\ LET frontier == FrontierAt[t]
               selected == Selected(frontier.open)
           IN  /\ Correctable(t, frontier)
               /\ Targets(a) \subseteq frontier.open
               /\ \/ selected = {}
                  \/ IsBatch(a) /\ \E b \in granted : selected = {b} /\ Resolves(b, t)

(* _execute_author_remediation: the last recheck, and then the push of a ref
   that must be missing. *)
Propose(a) ==
  /\ Cardinality(proposed) < MaxProposed /\ Authorable(a)
  /\ proposed' = proposed \cup {a}
  /\ UNCHANGED <<remote, plan, number, kept, accepted, faults>>

Grant(a) ==
  /\ a \in proposed
  /\ proposed' = proposed \ {a}
  /\ granted' = granted \cup {a}
  /\ UNCHANGED <<run, review, repairs, main, plan, number, kept, accepted, faults>>

(* _execute_author_repair: the tip has failed; nothing but a REPAIR under this
   authority can follow it. *)
GrantRepair(n) ==
  /\ IsTip(n) /\ n \notin Succeeded /\ ~IsBatch(Subject(n))
  /\ n \notin repairs
  /\ repairs' = repairs \cup {n}
  /\ UNCHANGED <<run, review, granted, main, proposed, plan, number, kept, accepted, faults>>

-----------------------------------------------------------------------------
(* Execution *)

Idle(c) == plan[c] = NoPlan

(* next_run_id: past the RUNs of the checkout and of the remote.  A RUN of the
   checkout is delivered, or kept, or lost its number to a delivered one. *)
Taken(c) == Delivered \cup {r.at : r \in kept[c]}
NextNumber(c) == CHOOSE n \in 1..(Last + 1) : n - 1 \in Taken(c) /\ \A m \in Taken(c) : m < n

(* _resolve_remediation_admission, before the lock of the checkout. *)
Resolve(c, a, t) ==
  /\ Idle(c) /\ a \in granted
  /\ Resolves(a, t)
  /\ plan' = [plan EXCEPT ![c] =
                [family |-> "REMEDIATION", base |-> t, source |-> a.source, ids |-> a.ids]]
  /\ UNCHANGED <<remote, proposed, number, kept, accepted, faults>>

AuthorityOf(p) == [source |-> p.source, ids |-> p.ids]
Moved(c) == IsBatch(plan[c]) /\ ~Resolves(AuthorityOf(plan[c]), plan[c].base)

(* _run_remediation_impl: a batch is resolved again under the lock and must
   not have moved; a single finding is executed on the base it had. *)
Reserve(c) ==
  /\ ~Idle(c) /\ number[c] = 0 /\ ~Moved(c)
  /\ NextNumber(c) \in Runs
  /\ number' = [number EXCEPT ![c] = NextNumber(c)]
  /\ UNCHANGED <<remote, proposed, plan, kept, accepted, faults>>

Refuse(c) ==
  /\ ~Idle(c) /\ number[c] = 0 /\ Moved(c)
  /\ plan' = [plan EXCEPT ![c] = NoPlan]
  /\ UNCHANGED <<remote, proposed, number, kept, accepted, faults>>

(* _run_repair_impl: a checkout repairs a failed RUN once, whatever others do. *)
Repair(c, n) ==
  /\ Idle(c)
  /\ n \in repairs \ accepted[c]
  /\ NextNumber(c) \in Runs
  /\ plan' = [plan EXCEPT ![c] = [family |-> "REPAIR", base |-> n, source |-> 0, ids |-> {}]]
  /\ number' = [number EXCEPT ![c] = NextNumber(c)]
  /\ accepted' = [accepted EXCEPT ![c] = @ \cup {n}]
  /\ UNCHANGED <<remote, proposed, kept, faults>>

Terminal(c, ok) ==
  [at |-> number[c], family |-> plan[c].family, ok |-> ok, base |-> plan[c].base,
   source |-> plan[c].source, ids |-> plan[c].ids,
   line |-> run[plan[c].base].line \cup {number[c]}]

(* The terminal ref is create-only: who comes second keeps a RUN that can
   never be delivered. *)
Deliver(r) == run' = [run EXCEPT ![r.at] = IF @ = NoRun THEN r ELSE @]
Release(c) ==
  /\ plan' = [plan EXCEPT ![c] = NoPlan]
  /\ number' = [number EXCEPT ![c] = 0]

Finish(c, ok) ==
  /\ number[c] # 0
  /\ Deliver(Terminal(c, ok))
  /\ Release(c)
  /\ UNCHANGED <<review, granted, repairs, main, proposed, kept, accepted, faults>>

(* The RUN ends and its push is lost. *)
FinishUndelivered(c, ok) ==
  /\ number[c] # 0 /\ faults < MaxFaults
  /\ kept' = [kept EXCEPT ![c] = @ \cup {Terminal(c, ok)}]
  /\ faults' = faults + 1
  /\ Release(c)
  /\ UNCHANGED <<remote, proposed, accepted>>

RetryTransport(c, r) ==
  /\ r \in kept[c] /\ number[c] = 0
  /\ Deliver(r)
  /\ kept' = [kept EXCEPT ![c] = @ \ {r}]
  /\ UNCHANGED <<review, granted, repairs, main, proposed, plan, number, accepted, faults>>

-----------------------------------------------------------------------------
(* Review and publication *)

(* A PASS has no findings, CHANGES_REQUIRED has some; those of a BLOCKED review
   of one RUN count for nothing. *)
Ordinary ==
  {[verdict |-> "PASS", passed |-> {}, findings |-> {}],
   [verdict |-> "BLOCKED", passed |-> {}, findings |-> {}]}
  \cup {[verdict |-> "CHANGES_REQUIRED", passed |-> {}, findings |-> f] : f \in Reports}

(* validate_batch_review: the verdict follows from the outcomes, and new
   findings have ids of their own. *)
OfBatch(s) ==
  {r \in [verdict: Verdicts, passed: SUBSET Ids, findings: Reports \cup {{}}] :
     /\ r.passed \subseteq s.ids
     /\ r.findings \cap review[s.source].findings = {}
     /\ (r.verdict = "PASS") <=> (r.passed = s.ids /\ r.findings = {})
     /\ (r.verdict = "BLOCKED") => r.passed # s.ids}

SubmitReview(n) ==
  /\ n \in Succeeded \ Reviewed
  /\ \E r \in (IF IsBatch(Subject(n)) THEN OfBatch(Subject(n)) ELSE Ordinary) :
       review' = [review EXCEPT ![n] = r]
  /\ UNCHANGED <<run, granted, repairs, main, proposed, plan, number, kept, accepted, faults>>

(* publish_review_decision: a PASS whose candidate fast-forwards main.  The
   frontier is derived for a REMEDIATION, and not for the REPAIR of one.  The
   publication reservation keeps main from the proof to the push. *)
Publish(n) ==
  /\ n \in Succeeded \cap Reviewed /\ review[n].verdict = "PASS"
  /\ n # main /\ ContainsMain(n)
  /\ run[n].family = "REMEDIATION" => ContainsMain(run[n].base) /\ PublisherFrontier(n) = Clean
  /\ main' = n
  /\ UNCHANGED <<run, review, granted, repairs, proposed, plan, number, kept, accepted, faults>>

-----------------------------------------------------------------------------
Correct == \E a \in Authority : Propose(a) \/ Grant(a)
Work(c) ==
  \/ \E a \in granted, t \in Runs : Resolve(c, a, t)
  \/ Reserve(c) \/ Refuse(c)
  \/ \E n \in Runs : Repair(c, n)
  \/ \E ok \in BOOLEAN : Finish(c, ok) \/ FinishUndelivered(c, ok)
  \/ \E r \in kept[c] : RetryTransport(c, r)
Next ==
  \/ Correct
  \/ \E n \in Runs : GrantRepair(n)
  \/ \E c \in Checkouts : Work(c)
  \/ \E n \in Runs : SubmitReview(n) \/ Publish(n)

Spec == Init /\ [][Next]_vars

-----------------------------------------------------------------------------
(* Properties *)

(* Types. *)
TypeOK ==
  /\ run \in [Runs -> Record \cup {NoRun}]
  /\ review \in [Runs -> Review \cup {NoReview}]
  /\ proposed \subseteq Authority /\ granted \subseteq Authority
  /\ repairs \subseteq Runs
  /\ plan \in [Checkouts -> Plan \cup {NoPlan}]
  /\ number \in [Checkouts -> 0..Last]
  /\ kept \in [Checkouts -> SUBSET Record]
  /\ accepted \in [Checkouts -> SUBSET Runs]
  /\ main \in 0..Last
  /\ faults \in 0..MaxFaults

(* What the reviews of a candidate's history raised and closed, in no order. *)
Judged(n) == run[n].line \cap Reviewed
Raised(n) ==
  UNION {Keys(k, review[k].findings) : k \in Judged(n)}
Closed(n) ==
  UNION {LET s == Subject(k) IN
         IF IsBatch(s) THEN Keys(s.source, review[k].passed)
         ELSE IF review[k].verdict = "BLOCKED" THEN {} ELSE Targets(s) :
           k \in {m \in Judged(n) : Subject(m).family = "REMEDIATION"}}
Left(n) == Raised(n) \ Closed(n)

(* However RUNs, batches and REPAIRs followed one another, the frontier that is
   derived for a lineage holds the findings its reviews raised and did not
   close, and no other: no sibling is lost and none comes back. *)
FrontierIsWhatReviewsLeave ==
  \A n \in Delivered : FrontierAt[n].valid => FrontierAt[n].open = Left(n)

(* A correction the Publisher lets through leaves no finding of its lineage
   open, and the reducer agrees, although they read the lineage differently and
   others extend it meanwhile. *)
PublishedIsClean ==
  [][main' # main /\ run[main'].family = "REMEDIATION"
       => Left(main') = {} /\ FrontierAt[main'] = Clean]_vars

(* A batch authority may be executed twice, by checkouts that did not see each
   other or when a push was lost; it is never executed on top of its own
   result. *)
BatchNeverBuildsOnItself ==
  \A n, m \in Delivered :
    /\ n # m /\ IsBatch(run[n]) /\ IsBatch(run[m])
    /\ run[n].source = run[m].source /\ run[n].ids = run[m].ids
    => n \notin run[m].line

=============================================================================
