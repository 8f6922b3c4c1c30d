-------------------------- MODULE CorrectionProofs --------------------------
(***************************************************************************)
(* Proofs about CorrectionLineage, for every number of RUNs, findings and  *)
(* checkouts.  First a lineage is shown to be one: every RUN builds on an  *)
(* earlier one.  Then the recursions along a lineage are unfolded, by      *)
(* induction on the number of the RUN, and the frontier they derive is     *)
(* what the reviews leave.                                                 *)
(***************************************************************************)
EXTENDS CorrectionLineage, FiniteSetTheorems, WellFoundedInduction, TLAPS

(* Among the RUNs of L nothing executed what the batch r executes. *)
Unbuilt(r, L) ==
  IsBatch(r) => \A n \in L : ~(run[n].source = r.source /\ run[n].ids = r.ids)

OnlyRemediationsHaveIds(r) == r.family # "REMEDIATION" => r.ids = {}

(* A correction is of what its base contains, a REPAIR is of a failed RUN. *)
Built(p) ==
  /\ p.base \in Delivered
  /\ p.family \in {"REMEDIATION", "REPAIR"}
  /\ p.family = "REMEDIATION" => p.source \in run[p.base].line
  /\ p.family = "REPAIR" => ~run[p.base].ok

Rooted(r) == r.family = "PRIMARY" /\ r.base = 0 /\ r.line = {r.at}
Grown(r) == Built(r) /\ r.base < r.at /\ r.line = run[r.base].line \cup {r.at}

(* A terminal RUN builds on delivered RUNs of smaller numbers, and not on its
   own result. *)
Whole(r) ==
  /\ r \in Record
  /\ r.line \ {r.at} \subseteq Delivered
  /\ r.at \in r.line /\ r.line \subseteq 1..r.at
  /\ OnlyRemediationsHaveIds(r)
  /\ Unbuilt(r, r.line \ {r.at})
  /\ Rooted(r) \/ Grown(r)

Recorded == \A n \in Delivered : run[n].at = n /\ Whole(run[n])
Keeping == \A c \in Checkouts : \A r \in kept[c] : Whole(r)
Intended(p) == p # NoPlan => Built(p) /\ OnlyRemediationsHaveIds(p)
Ready(p, k) == k # 0 => p # NoPlan /\ p.base < k /\ Unbuilt(p, run[p.base].line)
Planned == \A c \in Checkouts : Intended(plan[c]) /\ Ready(plan[c], number[c])

(* Only what succeeded is reviewed, and a blocked review of it has findings
   only where each finding of a batch has its own outcome. *)
Judging ==
  \A n \in Reviewed :
    /\ n \in Succeeded
    /\ review[n].verdict = "BLOCKED" /\ ~IsBatch(Subject(n)) => review[n].findings = {}

LInv == TypeOK /\ Recorded /\ Keeping /\ Planned /\ repairs \subseteq Delivered \ Succeeded
IInv == LInv /\ Judging

-----------------------------------------------------------------------------
(* Delivered RUNs stay. *)
Stable == \A n \in Delivered : n \in Delivered' /\ run'[n] = run[n]

(* An authority that corrects nothing is no batch. *)
LEMMA NoBatch == ASSUME NEW r, r.ids = {} PROVE ~IsBatch(r)
  BY FS_EmptySet DEF IsBatch

(* What is whole stays whole while delivered RUNs stay. *)
LEMMA WholeStays ==
  ASSUME NEW r, Whole(r), Stable
  PROVE  Whole(r)'
<1>1. (r.line \ {r.at} \subseteq Delivered)'
  BY DEF Whole, Stable
<1>2. Unbuilt(r, r.line \ {r.at})'
  BY DEF Whole, Stable, Unbuilt, IsBatch
<1>3. (Rooted(r) \/ Grown(r))'
  BY DEF Whole, Stable, Rooted, Grown, Built
<1> QED
  BY <1>1, <1>2, <1>3 DEF Whole, OnlyRemediationsHaveIds

(* The line of a delivered RUN consists of delivered RUNs. *)
LEMMA LineDelivered ==
  ASSUME LInv, NEW n \in Delivered
  PROVE  run[n] \in Record /\ run[n].line \subseteq Delivered /\ n \in Runs
  BY DEF LInv, Recorded, Whole, Delivered

(* What a correction builds on stays. *)
LEMMA BuiltStays ==
  ASSUME NEW p, Built(p), Stable
  PROVE  Built(p)'
  BY DEF Built, Stable

(* A plan stays sound while delivered RUNs stay. *)
LEMMA PlansStay ==
  ASSUME LInv, Stable, NEW c \in Checkouts, plan'[c] = plan[c], number'[c] = number[c]
  PROVE  Intended(plan[c])' /\ Ready(plan[c], number[c])'
<1>1. Intended(plan[c]) /\ Ready(plan[c], number[c])
  BY DEF LInv, Planned
<1>2. Intended(plan[c])'
  BY <1>1, BuiltStays DEF Intended, OnlyRemediationsHaveIds
<1>3. ASSUME number[c] # 0
      PROVE  plan'[c] # NoPlan /\ plan[c].base < number[c] /\ Unbuilt(plan[c], run[plan[c].base].line)'
  <2>1. plan[c].base \in Delivered /\ run'[plan[c].base] = run[plan[c].base]
    BY <1>1, <1>3 DEF Stable, Intended, Ready, Built
  <2>2. \A n \in run[plan[c].base].line : run'[n] = run[n]
    BY <2>1, LineDelivered DEF Stable
  <2> QED
    BY <1>1, <1>3, <2>1, <2>2 DEF Unbuilt, IsBatch, Ready
<1> QED
  BY <1>2, <1>3 DEF Ready

(* The RUN that a checkout ends is whole. *)
LEMMA TerminalWhole ==
  ASSUME LInv, NEW c \in Checkouts, NEW ok \in BOOLEAN, number[c] # 0
  PROVE  Whole(Terminal(c, ok))
<1> DEFINE base == plan[c].base
           r == Terminal(c, ok)
<1>1. /\ plan[c] \in Plan /\ number[c] \in Runs
      /\ Built(plan[c]) /\ OnlyRemediationsHaveIds(plan[c]) /\ base < number[c]
      /\ Unbuilt(plan[c], run[base].line)
  BY BoundAssumption DEF LInv, TypeOK, Planned, Intended, Ready, Runs
<1>2. base \in Delivered
  BY <1>1 DEF Built
<1>3. /\ run[base] \in Record /\ run[base].line \subseteq Delivered
      /\ run[base].line \subseteq 1..base /\ base \in Runs
  BY <1>2, LineDelivered DEF LInv, Recorded, Whole
<1>4. run[base].line \cup {number[c]} \subseteq Runs
  BY <1>1, <1>3 DEF Record
<1>5. r \in Record
  <2>1. base \in 0..Last
    BY <1>3, BoundAssumption DEF Runs
  <2> QED
    BY <1>1, <1>4, <2>1 DEF Terminal, Record, Plan
<1>6. /\ r.source = plan[c].source /\ r.ids = plan[c].ids /\ r.family = plan[c].family
      /\ r.base = base /\ r.at = number[c] /\ r.line = run[base].line \cup {number[c]}
  BY DEF Terminal
<1> HIDE DEF r
<1>7. Unbuilt(r, r.line \ {r.at})
  BY <1>1, <1>6 DEF Unbuilt, IsBatch
<1>8. Grown(r)
  BY <1>1, <1>6 DEF Grown, Built
<1>9. r.line \subseteq 1..r.at /\ r.at \in r.line
  <2>1. 1..base \subseteq 1..number[c] /\ number[c] \in 1..number[c]
    BY <1>1, <1>3 DEF Runs
  <2> QED
    BY <1>3, <1>6, <2>1
<1>10. r.line \ {r.at} \subseteq Delivered /\ OnlyRemediationsHaveIds(r)
  BY <1>1, <1>3, <1>6 DEF OnlyRemediationsHaveIds
<1>11. Whole(r)
  BY <1>5, <1>7, <1>8, <1>9, <1>10 DEF Whole
<1> QED
  BY <1>11 DEF r

(* Whatever whole RUN is delivered, the record stays whole and nothing that was
   delivered changes. *)
LEMMA Delivery ==
  ASSUME LInv, NEW r, Whole(r), Deliver(r)
  PROVE  Stable /\ Recorded' /\ run' \in [Runs -> Record \cup {NoRun}]
<1>1. r \in Record /\ r.at \in Runs /\ r # NoRun /\ NoRun \notin Record
  BY NullAssumption DEF Whole, Record
<1>2. run \in [Runs -> Record \cup {NoRun}]
  BY DEF LInv, TypeOK
<1>3. \A n \in Runs : run'[n] = IF n = r.at /\ run[n] = NoRun THEN r ELSE run[n]
  BY <1>1, <1>2 DEF Deliver
<1>4. run' \in [Runs -> Record \cup {NoRun}]
  BY <1>1, <1>2, <1>3 DEF Deliver
<1>5. Stable
  BY <1>3 DEF Stable, Delivered
<1>6. Recorded'
  <2> SUFFICES ASSUME NEW n \in Delivered' PROVE run'[n].at = n /\ Whole(run[n])'
    BY DEF Recorded
  <2>1. CASE n \in Delivered
    BY <2>1, <1>5, WholeStays DEF LInv, Recorded, Stable
  <2>2. CASE n \notin Delivered
    <3>1. n = r.at /\ run'[n] = r
      BY <2>2, <1>3 DEF Delivered
    <3>2. Whole(r)'
      BY <1>5, WholeStays
    <3> QED
      BY <3>1, <3>2
  <2> QED
    BY <2>1, <2>2
<1> QED
  BY <1>4, <1>5, <1>6

(* What was kept, and repaired, stays sound while delivered RUNs stay. *)
LEMMA KeptStay ==
  ASSUME LInv, Stable
  PROVE  /\ \A c \in Checkouts : \A r \in kept[c] : Whole(r)'
         /\ repairs \subseteq Delivered' \ Succeeded'
  BY WholeStays DEF LInv, Keeping, Stable, Succeeded

-----------------------------------------------------------------------------
(* The first RUN is whole. *)
LEMMA Initially == Init => LInv
<1> SUFFICES ASSUME Init PROVE LInv
  OBVIOUS
<1>1. PICK ok \in BOOLEAN : run = [n \in Runs |-> IF n = 1 THEN Primary(ok) ELSE NoRun]
  BY DEF Init
<1>2. 1 \in Runs
  BY BoundAssumption DEF Runs
<1>3. Primary(ok) \in Record
  BY <1>2, BoundAssumption DEF Primary, Record, Families
<1>4. Delivered = {1} /\ run[1] = Primary(ok)
  BY <1>1, <1>2, <1>3, NullAssumption DEF Delivered
<1>5. TypeOK
  <2>1. run \in [Runs -> Record \cup {NoRun}]
    BY <1>1, <1>3
  <2> QED
    BY <2>1, BoundAssumption DEF Init, TypeOK
<1>6. /\ Primary(ok).line = {1} /\ Primary(ok).at = 1 /\ Primary(ok).ids = {}
      /\ Rooted(Primary(ok)) /\ {1} \subseteq 1..1
  BY DEF Primary, Rooted
<1>7. Recorded
  BY <1>3, <1>4, <1>6 DEF Recorded, Whole, OnlyRemediationsHaveIds, Unbuilt
<1>8. Planned
  BY DEF Init, Planned, Intended, Ready
<1> QED
  BY <1>5, <1>7, <1>8 DEF LInv, Keeping, Init

-----------------------------------------------------------------------------
(* One step per action. *)

(* Authors, reviewers and the Publisher touch no RUN, no plan and nothing kept. *)
LEMMA RunsUntouched ==
  ASSUME LInv, UNCHANGED <<run, plan, number, kept>>
  PROVE  Recorded' /\ Keeping' /\ Planned' /\ Delivered' = Delivered /\ Succeeded' = Succeeded
<1>1. Stable /\ Delivered' = Delivered /\ Succeeded' = Succeeded
  BY DEF Stable, Delivered, Succeeded
<1>2. Recorded'
  BY <1>1, WholeStays DEF LInv, Recorded, Stable
<1>3. Keeping'
  BY <1>1, KeptStay DEF Keeping
<1>4. Planned'
  BY <1>1, PlansStay DEF Planned
<1> QED
  BY <1>1, <1>2, <1>3, <1>4

(* Authoring. *)
LEMMA AuthoringStep == LInv /\ Correct => LInv'
<1> SUFFICES ASSUME LInv, NEW a \in Authority, Propose(a) \/ Grant(a) PROVE LInv'
  BY DEF Correct
<1>1. UNCHANGED <<run, review, repairs, main, plan, number, kept, accepted, faults>>
  BY DEF Propose, Grant, remote
<1>2. TypeOK'
  <2>1. proposed' \subseteq Authority /\ granted' \subseteq Authority
    BY DEF Propose, Grant, remote, LInv, TypeOK
  <2> QED
    BY <1>1, <2>1 DEF LInv, TypeOK
<1> QED
  BY <1>1, <1>2, RunsUntouched DEF LInv

(* The tip of a lineage was delivered. *)
LEMMA TipDelivered == ASSUME NEW t, IsTip(t) PROVE t \in Delivered
  BY DEF IsTip, Tips

(* The authority of a REPAIR. *)
LEMMA GrantRepairStep == ASSUME LInv, NEW n \in Runs, GrantRepair(n) PROVE LInv'
<1>1. n \in Delivered \ Succeeded
  BY TipDelivered DEF GrantRepair
<1>2. repairs' \subseteq Delivered \ Succeeded /\ repairs' \subseteq Runs
  BY <1>1 DEF GrantRepair, LInv, TypeOK
<1>3. TypeOK'
  BY <1>2 DEF GrantRepair, LInv, TypeOK
<1> QED
  BY <1>2, <1>3, RunsUntouched DEF GrantRepair, LInv

(* Every review that can be submitted is a review. *)
LEMMA ReviewStep == ASSUME LInv, NEW n \in Runs, SubmitReview(n) PROVE LInv'
<1>1. PICK r \in (IF IsBatch(Subject(n)) THEN OfBatch(Subject(n)) ELSE Ordinary) :
        review' = [review EXCEPT ![n] = r]
  BY DEF SubmitReview
<1>2. Reports \subseteq SUBSET Ids
  BY ReportAssumption
<1>3. Ordinary \subseteq Review
  BY <1>2 DEF Ordinary, Review, Verdicts
<1>4. OfBatch(Subject(n)) \subseteq Review
  BY <1>2 DEF OfBatch, Review
<1>5. r \in Review
  BY <1>1, <1>3, <1>4
<1>6. TypeOK'
  BY <1>1, <1>5 DEF SubmitReview, LInv, TypeOK
<1> QED
  BY <1>6, RunsUntouched DEF SubmitReview, LInv

(* Publication. *)
LEMMA PublishStep == ASSUME LInv, NEW n \in Runs, Publish(n) PROVE LInv'
<1>1. main' \in 0..Last
  BY BoundAssumption DEF Publish, Runs
<1>2. TypeOK'
  BY <1>1 DEF Publish, LInv, TypeOK
<1> QED
  BY <1>2, RunsUntouched DEF Publish, LInv

(* Planning changes nothing but what one checkout has resolved. *)
LEMMA PlanningStep ==
  ASSUME LInv, NEW c \in Checkouts, NEW p \in Plan \cup {NoPlan}, NEW k \in 0..Last,
         UNCHANGED <<run, review, proposed, granted, repairs, main, kept, faults>>,
         accepted' \in [Checkouts -> SUBSET Runs],
         plan' = [plan EXCEPT ![c] = p], number' = [number EXCEPT ![c] = k],
         Intended(p), Ready(p, k)
  PROVE  LInv'
<1>1. Stable /\ Delivered' = Delivered /\ Succeeded' = Succeeded
  BY DEF Stable, Delivered, Succeeded
<1>2. TypeOK'
  BY DEF LInv, TypeOK
<1>3. Recorded'
  BY <1>1, WholeStays DEF LInv, Recorded, Stable
<1>4. Keeping'
  BY <1>1, KeptStay DEF Keeping
<1>5. Planned'
  <2> SUFFICES ASSUME NEW d \in Checkouts
               PROVE  Intended(plan[d])' /\ Ready(plan[d], number[d])'
    BY DEF Planned
  <2>1. CASE d # c
    <3>1. plan'[d] = plan[d] /\ number'[d] = number[d]
      BY <2>1 DEF LInv, TypeOK
    <3> QED
      BY <3>1, <1>1, PlansStay
  <2>2. CASE d = c
    <3>1. plan'[d] = p /\ number'[d] = k
      BY <2>2 DEF LInv, TypeOK
    <3> QED
      BY <3>1, <1>1 DEF Unbuilt, IsBatch, Intended, Ready, Built, OnlyRemediationsHaveIds
  <2> QED
    BY <2>1, <2>2
<1> QED
  BY <1>1, <1>2, <1>3, <1>4, <1>5 DEF LInv

(* The admission of a remediation. *)
LEMMA ResolveStep ==
  ASSUME LInv, NEW c \in Checkouts, NEW a \in granted, NEW t \in Runs, Resolve(c, a, t)
  PROVE  LInv'
<1> DEFINE p == [family |-> "REMEDIATION", base |-> t, source |-> a.source, ids |-> a.ids]
<1>1. a \in Authority
  BY DEF LInv, TypeOK
<1>2. p \in Plan
  BY <1>1, BoundAssumption DEF Plan, Authority, Families, Runs
<1>3. t \in Delivered
  BY TipDelivered DEF Resolve, Resolves
<1>4. Intended(p)
  BY <1>3 DEF OnlyRemediationsHaveIds, Intended, Built, Resolve, Resolves
<1>5. number[c] \in 0..Last /\ number' = [number EXCEPT ![c] = number[c]]
  BY DEF Resolve, LInv, TypeOK
<1>6. number[c] = 0 /\ Ready(p, 0)
  BY DEF Resolve, Idle, LInv, Planned, Ready
<1>7. plan' = [plan EXCEPT ![c] = p]
  BY DEF Resolve
<1>8. UNCHANGED <<run, review, proposed, granted, repairs, main, kept, faults>>
      /\ accepted' \in [Checkouts -> SUBSET Runs]
  BY DEF Resolve, remote, LInv, TypeOK
<1> HIDE DEF p
<1> QED
  BY <1>2, <1>3, <1>4, <1>5, <1>6, <1>7, <1>8, PlanningStep

(* A set of numbers has a least element. *)
LEMMA NatLeast ==
  ASSUME NEW S \in SUBSET Nat, S # {}
  PROVE  \E m \in S : \A n \in S : m <= n
<1>1. IsWellFoundedOn(OpToRel(<, Nat), Nat)
  BY NatLessThanWellFounded, Zenon
<1>2. PICK m \in S : \A n \in S : ~(<<n, m>> \in OpToRel(<, Nat))
  <2> HIDE DEF OpToRel
  <2> QED
    BY <1>1, WFMin, Zenon
<1>3. \A n \in S : ~(n < m)
  BY <1>2 DEF OpToRel
<1> QED
  BY <1>3

(* The number of a new RUN is above that of every delivered RUN. *)
LEMMA NumberIsNext ==
  ASSUME LInv, NEW c \in Checkouts, NEW b \in Delivered
  PROVE  b < NextNumber(c)
<1> DEFINE T == Taken(c)
           Bounds == {k \in Nat : \A m \in T : m <= k}
<1>1. T \subseteq Runs /\ b \in T
  BY DEF Taken, Delivered, LInv, TypeOK, Record
<1>2. Last \in Bounds
  BY <1>1, BoundAssumption DEF Runs
<1> HIDE DEF T
<1>3. PICK k \in Bounds : \A j \in Bounds : k <= j
  <2>1. Bounds \in SUBSET Nat
    OBVIOUS
  <2> HIDE DEF Bounds
  <2> QED
    BY <1>2, <2>1, NatLeast
<1>4. k \in Nat /\ k <= Last /\ \A m \in T : m \in Nat /\ m <= k
  BY <1>1, <1>2, <1>3 DEF Runs
<1>5. k \in T
  <2> SUFFICES ASSUME k \notin T PROVE FALSE
    OBVIOUS
  <2>1. \A m \in T : m <= k - 1
    BY <1>4
  <2>2. k - 1 \in Nat
    BY <1>1, <1>4, <2>1 DEF Runs
  <2>3. k - 1 \in Bounds
    BY <2>1, <2>2
  <2> QED
    BY <1>3, <1>4, <2>3
<1>6. k + 1 \in 1..(Last + 1) /\ (k + 1) - 1 \in T /\ \A m \in T : m < k + 1
  BY <1>4, <1>5, BoundAssumption
<1>7. \A m \in T : m < NextNumber(c)
  <2>1. \E n \in 1..(Last + 1) : n - 1 \in T /\ \A m \in T : m < n
    BY <1>6
  <2> QED
    BY <2>1 DEF NextNumber, T
<1> QED
  BY <1>1, <1>7

(* A batch that is reserved was executed by no delivered RUN. *)
LEMMA ReservedIsUnbuilt ==
  ASSUME LInv, NEW c \in Checkouts, plan[c] # NoPlan, ~Moved(c)
  PROVE  Unbuilt(plan[c], run[plan[c].base].line)
<1> DEFINE a == AuthorityOf(plan[c])
<1> SUFFICES ASSUME IsBatch(plan[c]), NEW n \in run[plan[c].base].line,
                    run[n].source = plan[c].source, run[n].ids = plan[c].ids
             PROVE  FALSE
  BY DEF Unbuilt
<1>1. a.ids = plan[c].ids /\ a.source = plan[c].source
  BY DEF AuthorityOf
<1>2. IsBatch(a)
  BY <1>1 DEF IsBatch
<1>3. ~Consumed(a)
  BY <1>2 DEF Moved, Resolves
<1>4. plan[c].base \in Delivered
  BY DEF LInv, Planned, Intended, Built
<1>5. n \in Delivered
  BY <1>4, LineDelivered
<1>6. run[n].family # "REMEDIATION"
  BY <1>1, <1>3, <1>5 DEF Consumed
<1>7. run[n].ids = {}
  BY <1>5, <1>6 DEF LInv, Recorded, Whole, OnlyRemediationsHaveIds
<1> QED
  BY <1>7, NoBatch

(* The reservation of a RUN number. *)
LEMMA ReserveStep == ASSUME LInv, NEW c \in Checkouts, Reserve(c) PROVE LInv'
<1>1. plan[c] # NoPlan /\ ~Moved(c) /\ NextNumber(c) \in 0..Last
  BY BoundAssumption DEF Reserve, Idle, Runs
<1>2. plan[c] \in Plan \cup {NoPlan} /\ plan' = [plan EXCEPT ![c] = plan[c]]
  BY DEF Reserve, LInv, TypeOK
<1>3. Intended(plan[c]) /\ plan[c].base \in Delivered
  BY <1>1 DEF LInv, Planned, Intended, Built
<1>4. Ready(plan[c], NextNumber(c))
  BY <1>1, <1>3, ReservedIsUnbuilt, NumberIsNext DEF Ready
<1>5. number' = [number EXCEPT ![c] = NextNumber(c)]
  BY DEF Reserve
<1>6. UNCHANGED <<run, review, proposed, granted, repairs, main, kept, faults>>
      /\ accepted' \in [Checkouts -> SUBSET Runs]
  BY DEF Reserve, remote, LInv, TypeOK
<1> QED
  BY <1>1, <1>2, <1>3, <1>4, <1>5, <1>6, PlanningStep

(* A batch that has moved is refused. *)
LEMMA RefuseStep == ASSUME LInv, NEW c \in Checkouts, Refuse(c) PROVE LInv'
<1>1. number[c] \in 0..Last /\ number' = [number EXCEPT ![c] = number[c]] /\ number[c] = 0
  BY DEF Refuse, LInv, TypeOK
<1>2. UNCHANGED <<run, review, proposed, granted, repairs, main, kept, faults>>
      /\ accepted' \in [Checkouts -> SUBSET Runs]
  BY DEF Refuse, remote, LInv, TypeOK
<1>3. plan' = [plan EXCEPT ![c] = NoPlan]
  BY DEF Refuse
<1>4. Intended(NoPlan) /\ Ready(NoPlan, number[c])
  BY <1>1 DEF Intended, Ready
<1> QED
  BY <1>1, <1>2, <1>3, <1>4, PlanningStep

(* The start of a REPAIR. *)
LEMMA RepairStep ==
  ASSUME LInv, NEW c \in Checkouts, NEW n \in Runs, Repair(c, n)
  PROVE  LInv'
<1> DEFINE p == [family |-> "REPAIR", base |-> n, source |-> 0, ids |-> {}]
<1>1. p \in Plan /\ p \in Plan \cup {NoPlan} /\ p # NoPlan
  BY BoundAssumption, NullAssumption DEF Plan, Families
<1>2. n \in Delivered \ Succeeded /\ n \in repairs
  BY DEF Repair, LInv
<1>3. p.ids = {} /\ p.base = n /\ Intended(p)
  BY <1>2 DEF OnlyRemediationsHaveIds, Intended, Built, Succeeded
<1>4. NextNumber(c) \in 0..Last
  BY BoundAssumption DEF Repair, Runs
<1>5. plan' = [plan EXCEPT ![c] = p] /\ number' = [number EXCEPT ![c] = NextNumber(c)]
  BY DEF Repair
<1>6. UNCHANGED <<run, review, proposed, granted, repairs, main, kept, faults>>
  BY DEF Repair, remote
<1>7. accepted' \in [Checkouts -> SUBSET Runs]
  BY DEF Repair, LInv, TypeOK
<1> HIDE DEF p
<1>8. Ready(p, NextNumber(c))
  BY <1>1, <1>2, <1>3, NoBatch, NumberIsNext DEF Unbuilt, Ready
<1> QED
  BY <1>1, <1>2, <1>3, <1>4, <1>5, <1>6, <1>7, <1>8, PlanningStep

(* A RUN that is delivered, or fails to be, leaves the other plans alone. *)
LEMMA ReleaseStep ==
  ASSUME LInv, Stable, NEW c \in Checkouts, Release(c)
  PROVE  Planned'
<1> SUFFICES ASSUME NEW d \in Checkouts
             PROVE  Intended(plan[d])' /\ Ready(plan[d], number[d])'
  BY DEF Planned
<1>1. CASE d # c
  <2>1. plan'[d] = plan[d] /\ number'[d] = number[d]
    BY <1>1 DEF Release, LInv, TypeOK
  <2> QED
    BY <2>1, PlansStay
<1>2. CASE d = c
  BY <1>2 DEF Release, LInv, TypeOK, Intended, Ready
<1> QED
  BY <1>1, <1>2

(* Types after a release. *)
LEMMA ReleaseTypes ==
  ASSUME LInv, NEW c \in Checkouts, Release(c)
  PROVE  plan' \in [Checkouts -> Plan \cup {NoPlan}] /\ number' \in [Checkouts -> 0..Last]
  BY BoundAssumption DEF Release, LInv, TypeOK

(* A RUN ends and is delivered, if its number is free. *)
LEMMA FinishStep ==
  ASSUME LInv, NEW c \in Checkouts, NEW ok \in BOOLEAN, Finish(c, ok)
  PROVE  LInv'
<1>1. Whole(Terminal(c, ok)) /\ Deliver(Terminal(c, ok)) /\ Release(c)
  BY TerminalWhole DEF Finish
<1>2. Stable /\ Recorded' /\ run' \in [Runs -> Record \cup {NoRun}]
  BY <1>1, Delivery
<1>3. UNCHANGED <<review, granted, repairs, main, proposed, kept, accepted, faults>>
  BY DEF Finish
<1>4. TypeOK'
  BY <1>1, <1>2, <1>3, ReleaseTypes DEF LInv, TypeOK
<1>5. Keeping' /\ repairs' \subseteq Delivered' \ Succeeded'
  BY <1>2, <1>3, KeptStay DEF Keeping
<1> QED
  BY <1>1, <1>2, <1>4, <1>5, ReleaseStep DEF LInv

(* A RUN ends and is kept. *)
LEMMA FinishUndeliveredStep ==
  ASSUME LInv, NEW c \in Checkouts, NEW ok \in BOOLEAN, FinishUndelivered(c, ok)
  PROVE  LInv'
<1>0. Whole(Terminal(c, ok))
  BY TerminalWhole DEF FinishUndelivered
<1> PICK r \in Record : r = Terminal(c, ok)
  BY <1>0 DEF Whole
<1>1. Whole(r) /\ Release(c)
  BY <1>0 DEF FinishUndelivered
<1>2. UNCHANGED <<run, review, granted, repairs, main, proposed, accepted>>
  BY DEF FinishUndelivered, remote
<1>3. Stable /\ Delivered' = Delivered /\ Succeeded' = Succeeded
  BY <1>2 DEF Stable, Delivered, Succeeded
<1>5. kept' = [kept EXCEPT ![c] = kept[c] \cup {r}] /\ faults' \in 0..MaxFaults
  BY BoundAssumption DEF FinishUndelivered, LInv, TypeOK
<1>6. kept' \in [Checkouts -> SUBSET Record]
  BY <1>5 DEF LInv, TypeOK
<1>7. TypeOK'
  BY <1>1, <1>2, <1>5, <1>6, ReleaseTypes DEF LInv, TypeOK
<1>8. Recorded'
  BY <1>2, <1>3, WholeStays DEF LInv, Recorded, Stable
<1>9. Keeping'
  <2>1. Whole(r)'
    BY <1>1, <1>3, WholeStays
  <2>2. \A d \in Checkouts : kept'[d] \subseteq kept[d] \cup {r}
    BY <1>5 DEF LInv, TypeOK
  <2> QED
    BY <1>3, <2>1, <2>2, KeptStay DEF Keeping
<1> QED
  BY <1>1, <1>2, <1>3, <1>7, <1>8, <1>9, ReleaseStep DEF LInv

(* A kept RUN is delivered later. *)
LEMMA RetryStep ==
  ASSUME LInv, NEW c \in Checkouts, NEW r \in kept[c], RetryTransport(c, r)
  PROVE  LInv'
<1>1. Whole(r) /\ Deliver(r)
  BY DEF RetryTransport, LInv, Keeping
<1>2. Stable /\ Recorded' /\ run' \in [Runs -> Record \cup {NoRun}]
  BY <1>1, Delivery
<1>3. UNCHANGED <<review, granted, repairs, main, proposed, plan, number, accepted, faults>>
  BY DEF RetryTransport
<1>4. kept' \in [Checkouts -> SUBSET Record] /\ \A d \in Checkouts : kept'[d] \subseteq kept[d]
  BY DEF RetryTransport, LInv, TypeOK
<1>5. TypeOK'
  BY <1>2, <1>3, <1>4 DEF LInv, TypeOK
<1>6. Keeping' /\ repairs' \subseteq Delivered' \ Succeeded'
  BY <1>2, <1>3, <1>4, KeptStay DEF Keeping
<1>7. Planned'
  BY <1>2, <1>3, PlansStay DEF Planned
<1> QED
  BY <1>2, <1>5, <1>6, <1>7 DEF LInv

(* Every step keeps the invariant. *)
LEMMA Step == LInv /\ [Next]_vars => LInv'
<1> SUFFICES ASSUME LInv, [Next]_vars PROVE LInv'
  OBVIOUS
<1>1. CASE Correct
  BY <1>1, AuthoringStep
<1>2. CASE \E n \in Runs : GrantRepair(n)
  BY <1>2, GrantRepairStep
<1>3. ASSUME NEW c \in Checkouts, Work(c) PROVE LInv'
  <2>1. CASE \E a \in granted, t \in Runs : Resolve(c, a, t)
    BY <2>1, ResolveStep
  <2>2. CASE Reserve(c)
    BY <2>2, ReserveStep
  <2>3. CASE Refuse(c)
    BY <2>3, RefuseStep
  <2>4. CASE \E n \in Runs : Repair(c, n)
    BY <2>4, RepairStep
  <2>5. CASE \E ok \in BOOLEAN : Finish(c, ok) \/ FinishUndelivered(c, ok)
    BY <2>5, FinishStep, FinishUndeliveredStep
  <2>6. CASE \E r \in kept[c] : RetryTransport(c, r)
    BY <2>6, RetryStep
  <2> QED
    BY <1>3, <2>1, <2>2, <2>3, <2>4, <2>5, <2>6 DEF Work
<1>4. CASE \E n \in Runs : SubmitReview(n) \/ Publish(n)
  BY <1>4, ReviewStep, PublishStep
<1>5. CASE UNCHANGED vars
  <2>1. TypeOK' /\ UNCHANGED <<run, plan, number, kept, repairs>>
    BY <1>5 DEF vars, LInv, TypeOK
  <2> QED
    BY <2>1, RunsUntouched DEF LInv
<1> QED
  BY <1>1, <1>2, <1>3, <1>4, <1>5 DEF Next

-----------------------------------------------------------------------------
(* Recursion along a lineage *)

(* What holds of a RUN when it holds of the earlier ones holds of every RUN. *)
LEMMA LineInduction ==
  ASSUME NEW Good, \A n \in Delivered : (\A k \in Delivered : k < n => k \in Good) => n \in Good
  PROVE  Delivered \subseteq Good
<1> DEFINE Bad == Delivered \ Good
<1> SUFFICES ASSUME Bad # {} PROVE FALSE
  OBVIOUS
<1>1. Bad \in SUBSET Nat
  BY DEF Delivered, Runs
<1>2. PICK m \in Bad : \A n \in Bad : m <= n
  <2> HIDE DEF Bad
  <2> QED
    BY <1>1, NatLeast
<1>3. \A k \in Delivered : k < m => k \in Good
  BY <1>1, <1>2
<1> QED
  BY <1>2, <1>3

(* A function of the RUNs up to k, each value from that of the RUN before. *)
Partial(g, k, V, first, step, prev) ==
  /\ g \in [1..k -> V]
  /\ \A n \in 1..k : g[n] = IF prev[n] = 0 THEN first[n] ELSE step[n][g[prev[n]]]

(* A recursion that goes back to a smaller number defines a function. *)
LEMMA Recursion ==
  ASSUME NEW V, NEW first \in [Runs -> V], NEW step \in [Runs -> [V -> V]],
         NEW prev \in [Runs -> Nat], \A n \in Runs : prev[n] < n
  PROVE  \E g : Partial(g, Last, V, first, step, prev)
<1> DEFINE Lacks == {k \in 0..Last : ~\E g : Partial(g, k, V, first, step, prev)}
<1> SUFFICES ASSUME ~\E g : Partial(g, Last, V, first, step, prev) PROVE FALSE
  OBVIOUS
<1>0. Last \in Lacks
  BY BoundAssumption
<1>1. PICK k \in Lacks : \A j \in Lacks : k <= j
  <2> Lacks \in SUBSET Nat
    OBVIOUS
  <2> HIDE DEF Lacks
  <2> QED
    BY <1>0, NatLeast
<1>2. k # 0
  <2> DEFINE none == [n \in {} |-> first[n]]
  <2>1. 1..0 = {}
    OBVIOUS
  <2>2. none \in [1..0 -> V] /\ \A n \in 1..0 : FALSE
    BY <2>1
  <2> HIDE DEF none
  <2>3. Partial(none, 0, V, first, step, prev)
    BY <2>2 DEF Partial
  <2> QED
    BY <2>3
<1>3. PICK g : Partial(g, k - 1, V, first, step, prev)
  <2>1. k \in 0..Last
    OBVIOUS
  <2>2. k - 1 \in 0..Last /\ ~(k <= k - 1)
    BY <1>2, <2>1, BoundAssumption
  <2>3. k - 1 \notin Lacks
    BY <1>1, <2>2
  <2> QED
    BY <2>2, <2>3
<1>4. k \in Runs /\ prev[k] \in Nat /\ prev[k] < k /\ k \in Nat
  BY <1>2, BoundAssumption DEF Runs
<1>5. \A n \in 1..k : n \in Runs /\ (n # k => n \in 1..(k - 1))
  BY <1>4, BoundAssumption DEF Runs
<1> DEFINE value == IF prev[k] = 0 THEN first[k] ELSE step[k][g[prev[k]]]
           h == [n \in 1..k |-> IF n = k THEN value ELSE g[n]]
<1>6. value \in V
  <2>1. CASE prev[k] = 0
    BY <2>1, <1>4
  <2>2. CASE prev[k] # 0
    <3>1. prev[k] \in 1..(k - 1)
      BY <1>4, <2>2
    <3>2. g[prev[k]] \in V
      BY <3>1, <1>3 DEF Partial
    <3> QED
      BY <2>2, <3>2, <1>4
  <2> QED
    BY <2>1, <2>2
<1>7. h \in [1..k -> V]
  <2>1. \A n \in 1..k : n # k => g[n] \in V
    BY <1>3, <1>5 DEF Partial
  <2> HIDE DEF value
  <2> QED
    BY <2>1, <1>6
<1>8. ASSUME NEW n \in 1..k
      PROVE  h[n] = IF prev[n] = 0 THEN first[n] ELSE step[n][h[prev[n]]]
  <2>1. n \in Runs /\ prev[n] \in Nat /\ prev[n] < n
    BY <1>5
  <2>2. h[n] = IF n = k THEN value ELSE g[n]
    OBVIOUS
  <2>3. prev[n] # 0 => h[prev[n]] = g[prev[n]]
    BY <2>1, <1>4
  <2> HIDE DEF h, value
  <2>4. CASE n = k
    BY <2>2, <2>3, <2>4 DEF value
  <2>5. CASE n # k
    <3>1. g[n] = IF prev[n] = 0 THEN first[n] ELSE step[n][g[prev[n]]]
      BY <1>3, <1>5, <2>5 DEF Partial
    <3> QED
      BY <2>2, <2>3, <2>5, <3>1
  <2> QED
    BY <2>4, <2>5
<1> HIDE DEF h
<1>9. Partial(h, k, V, first, step, prev)
  BY <1>7, <1>8 DEF Partial
<1> QED
  BY <1>9

(* A correction builds on an earlier RUN and extends its line. *)
LEMMA Earlier ==
  ASSUME LInv, NEW n \in Delivered, run[n].family # "PRIMARY" \/ run[n].base # 0
  PROVE  /\ Built(run[n]) /\ run[n].base \in Delivered /\ run[n].base \in Runs
         /\ run[n].base \in 1..(n - 1) /\ run[n].base < n
         /\ run[n].line = run[run[n].base].line \cup {n}
         /\ n \notin run[run[n].base].line
<1>1. Grown(run[n]) /\ run[n].at = n /\ n \in Runs
  BY DEF LInv, Recorded, Whole, Rooted, Delivered
<1>2. Built(run[n]) /\ run[n].base \in Delivered /\ run[n].base \in Runs
  BY <1>1 DEF Grown, Built, Delivered
<1>3. run[n].base < n /\ run[n].base \in 1..(n - 1)
  BY <1>1, <1>2 DEF Grown, Runs
<1>4. run[run[n].base].line \subseteq 1..run[n].base
  BY <1>2 DEF LInv, Recorded, Whole
<1>5. n \notin 1..run[n].base
  BY <1>3
<1> QED
  BY <1>1, <1>2, <1>3, <1>4, <1>5 DEF Grown

(* The recursion of Origin. *)
OriginUnfolds ==
  Origin = [n \in Runs |->
              IF n \in Delivered /\ run[n].family = "REPAIR" THEN Origin[run[n].base] ELSE n]

(* Origin is what its recursion says. *)
LEMMA OriginRecursion == LInv => OriginUnfolds
<1> SUFFICES ASSUME LInv PROVE OriginUnfolds
  OBVIOUS
<1> DEFINE Back(n) == n \in Delivered /\ run[n].family = "REPAIR"
           prev == [n \in Runs |-> IF Back(n) THEN run[n].base ELSE 0]
           first == [n \in Runs |-> n]
           step == [n \in Runs |-> [v \in Runs |-> v]]
<1>1. \A n \in Runs : Back(n) => run[n].base \in Runs /\ run[n].base < n
  BY Earlier
<1>2. prev \in [Runs -> Nat] /\ \A n \in Runs : prev[n] < n
  BY <1>1, BoundAssumption DEF Runs
<1>3. first \in [Runs -> Runs] /\ step \in [Runs -> [Runs -> Runs]]
  OBVIOUS
<1>4. PICK g : Partial(g, Last, Runs, first, step, prev)
  <2> HIDE DEF first, step, prev
  <2> QED
    BY <1>2, <1>3, Recursion
<1>5. ASSUME NEW n \in Runs PROVE g[n] = IF Back(n) THEN g[run[n].base] ELSE n
  <2>1. g[n] = IF prev[n] = 0 THEN first[n] ELSE step[n][g[prev[n]]]
    BY <1>4 DEF Partial, Runs
  <2>2. CASE Back(n)
    <3>1. prev[n] = run[n].base /\ prev[n] # 0 /\ run[n].base \in Runs
      BY <1>1, <2>2 DEF Runs
    <3>2. g[run[n].base] \in Runs
      BY <3>1, <1>4 DEF Partial, Runs
    <3> QED
      BY <2>1, <2>2, <3>1, <3>2
  <2>3. CASE ~Back(n)
    BY <2>1, <2>3
  <2> QED
    BY <2>2, <2>3
<1>6. g = [n \in Runs |-> IF n \in Delivered /\ run[n].family = "REPAIR" THEN g[run[n].base] ELSE n]
  BY <1>4, <1>5 DEF Partial, Runs
<1> QED
  BY <1>6, Zenon DEF Origin, OriginUnfolds

(* So it is after a step. *)
LEMMA OriginRecursionNext == LInv' => OriginUnfolds'
  BY OriginRecursion, PTL

(* What a RUN is about is an earlier RUN of its line, and no REPAIR. *)
LEMMA OriginEarlier ==
  ASSUME LInv, NEW n \in Delivered
  PROVE  /\ Origin[n] \in Delivered /\ Origin[n] <= n /\ Origin[n] \in Runs
         /\ Subject(n) \in Record /\ Subject(n).family \in {"PRIMARY", "REMEDIATION"}
<1> DEFINE Good == {k \in Delivered : /\ Origin[k] \in Delivered /\ Origin[k] <= k
                                      /\ run[Origin[k]].family # "REPAIR"}
<1>1. ASSUME NEW m \in Delivered, \A k \in Delivered : k < m => k \in Good
      PROVE  m \in Good
  <2>1. m \in Runs /\ m \in Nat
    BY DEF Delivered, Runs
  <2>2. Origin[m] = IF run[m].family = "REPAIR" THEN Origin[run[m].base] ELSE m
    BY <2>1, OriginRecursion DEF OriginUnfolds
  <2>3. CASE run[m].family = "REPAIR"
    <3>1. run[m].base \in Delivered /\ run[m].base < m /\ run[m].base \in Runs
      BY <2>3, Earlier
    <3>2. /\ Origin[m] \in Delivered /\ Origin[m] <= run[m].base
          /\ run[Origin[m]].family # "REPAIR"
      BY <1>1, <2>2, <2>3, <3>1
    <3> QED
      BY <2>1, <3>1, <3>2 DEF Delivered, Runs
  <2>4. CASE run[m].family # "REPAIR"
    BY <2>1, <2>2, <2>4
  <2> QED
    BY <2>3, <2>4
<1>2. n \in Good
  <2> HIDE DEF Good
  <2> QED
    BY <1>1, LineInduction
<1>3. run[Origin[n]] \in Record
  BY <1>2 DEF LInv, Recorded, Whole
<1> QED
  BY <1>2, <1>3 DEF Subject, Record, Families, Delivered

(* What a delivered RUN is about never changes. *)
LEMMA SubjectStays ==
  ASSUME LInv, LInv', Stable, NEW n \in Delivered
  PROVE  Subject(n)' = Subject(n)
<1> DEFINE Good == {k \in Delivered : Origin'[k] = Origin[k]}
<1>1. ASSUME NEW m \in Delivered, \A k \in Delivered : k < m => k \in Good
      PROVE  m \in Good
  <2>1. m \in Runs /\ m \in Delivered' /\ run'[m] = run[m]
    BY DEF Delivered, Stable
  <2>2. Origin[m] = IF run[m].family = "REPAIR" THEN Origin[run[m].base] ELSE m
    BY <2>1, OriginRecursion DEF OriginUnfolds
  <2>3. Origin'[m] = IF run[m].family = "REPAIR" THEN Origin'[run[m].base] ELSE m
    BY <2>1, OriginRecursionNext DEF OriginUnfolds
  <2>4. run[m].family = "REPAIR" => run[m].base \in Delivered /\ run[m].base < m
    BY Earlier
  <2> QED
    BY <1>1, <2>2, <2>3, <2>4
<1>2. n \in Good
  <2> HIDE DEF Good
  <2> QED
    BY <1>1, LineInduction
<1>3. run'[Origin[n]] = run[Origin[n]]
  BY OriginEarlier DEF Stable
<1> QED
  BY <1>2, <1>3 DEF Subject

-----------------------------------------------------------------------------
(* What is reviewed *)

(* No step changes or removes a delivered RUN. *)
LEMMA DeliveredStays == ASSUME LInv, [Next]_vars PROVE Stable
<1>1. CASE UNCHANGED run
  BY <1>1 DEF Stable, Delivered
<1>2. ASSUME NEW c \in Checkouts, NEW ok \in BOOLEAN, Finish(c, ok) PROVE Stable
  BY <1>2, TerminalWhole, Delivery DEF Finish
<1>3. ASSUME NEW c \in Checkouts, NEW r \in kept[c], RetryTransport(c, r) PROVE Stable
  BY <1>3, Delivery DEF RetryTransport, LInv, Keeping
<1>4. CASE Correct \/ UNCHANGED vars
  BY <1>1, <1>4 DEF Correct, Propose, Grant, remote, vars
<1>5. CASE \E n \in Runs : GrantRepair(n) \/ SubmitReview(n) \/ Publish(n)
  BY <1>1, <1>5 DEF GrantRepair, SubmitReview, Publish
<1>6. ASSUME NEW c \in Checkouts, Work(c) PROVE Stable
  <2>1. CASE \E a \in granted, t \in Runs : Resolve(c, a, t)
    BY <1>1, <2>1 DEF Resolve, remote
  <2>2. CASE Reserve(c) \/ Refuse(c) \/ \E n \in Runs : Repair(c, n)
    BY <1>1, <2>2 DEF Reserve, Refuse, Repair, remote
  <2>3. CASE \E ok \in BOOLEAN : FinishUndelivered(c, ok)
    BY <1>1, <2>3 DEF FinishUndelivered, remote
  <2> QED
    BY <1>2, <1>3, <1>6, <2>1, <2>2, <2>3 DEF Work
<1> QED
  BY <1>4, <1>5, <1>6 DEF Next

(* A step reviews nothing, or one RUN. *)
Reviewing(n) ==
  /\ n \in Succeeded \ Reviewed
  /\ \E r \in (IF IsBatch(Subject(n)) THEN OfBatch(Subject(n)) ELSE Ordinary) :
       review' = [review EXCEPT ![n] = r]

LEMMA ReviewsOne == ASSUME [Next]_vars PROVE review' = review \/ \E n \in Runs : Reviewing(n)
<1>1. CASE Correct \/ UNCHANGED vars
  BY <1>1 DEF Correct, Propose, Grant, remote, vars
<1>2. CASE \E n \in Runs : GrantRepair(n) \/ Publish(n)
  BY <1>2 DEF GrantRepair, Publish
<1>3. CASE \E n \in Runs : SubmitReview(n)
  BY <1>3 DEF SubmitReview, Reviewing
<1>4. ASSUME NEW c \in Checkouts, Work(c) PROVE review' = review
  <2>1. CASE \E a \in granted, t \in Runs : Resolve(c, a, t)
    BY <2>1 DEF Resolve, remote
  <2>2. CASE Reserve(c) \/ Refuse(c) \/ \E n \in Runs : Repair(c, n)
    BY <2>2 DEF Reserve, Refuse, Repair, remote
  <2>3. CASE \E ok \in BOOLEAN : Finish(c, ok) \/ FinishUndelivered(c, ok)
    BY <2>3 DEF Finish, FinishUndelivered, remote
  <2>4. CASE \E r \in kept[c] : RetryTransport(c, r)
    BY <2>4 DEF RetryTransport
  <2> QED
    BY <1>4, <2>1, <2>2, <2>3, <2>4 DEF Work
<1> QED
  BY <1>1, <1>2, <1>3, <1>4 DEF Next

(* Nothing that succeeded is forgotten. *)
LEMMA SucceededStay == ASSUME Stable PROVE Succeeded \subseteq Succeeded'
  BY DEF Stable, Succeeded

(* What is reviewed stays a success, and a blocked review raises nothing but in
   a batch, whose subject does not change. *)
LEMMA JudgingStays == ASSUME LInv, LInv', Judging, [Next]_vars PROVE Judging'
<1>1. Stable
  BY DeliveredStays
<1>2. ASSUME NEW n \in Succeeded PROVE n \in Succeeded' /\ Subject(n)' = Subject(n)
  BY <1>1, SucceededStay, SubjectStays DEF Succeeded
<1>3. CASE review' = review
  <2> SUFFICES ASSUME NEW n \in Reviewed'
               PROVE  /\ n \in Succeeded'
                      /\ review'[n].verdict = "BLOCKED" /\ ~IsBatch(Subject(n)') => review'[n].findings = {}
    BY DEF Judging, IsBatch
  <2>1. n \in Reviewed
    BY <1>3 DEF Reviewed
  <2> QED
    BY <1>2, <1>3, <2>1 DEF Judging
<1>4. CASE \E n \in Runs : Reviewing(n)
  <2> PICK n \in Runs : Reviewing(n)
    BY <1>4
  <2> PICK r \in (IF IsBatch(Subject(n)) THEN OfBatch(Subject(n)) ELSE Ordinary) :
             review' = [review EXCEPT ![n] = r]
    BY DEF Reviewing
  <2>1. n \in Succeeded /\ review \in [Runs -> Review \cup {NoReview}]
    BY DEF Reviewing, LInv, TypeOK
  <2>2. r.verdict = "BLOCKED" /\ ~IsBatch(Subject(n)) => r.findings = {}
    BY DEF Ordinary
  <2> SUFFICES ASSUME NEW m \in Reviewed'
               PROVE  /\ m \in Succeeded'
                      /\ review'[m].verdict = "BLOCKED" /\ ~IsBatch(Subject(m)') => review'[m].findings = {}
    BY DEF Judging, IsBatch
  <2>3. CASE m = n
    BY <1>2, <2>1, <2>2, <2>3
  <2>4. CASE m # n
    <3>1. review'[m] = review[m] /\ m \in Reviewed
      BY <2>1, <2>4 DEF Reviewed
    <3> QED
      BY <1>2, <3>1 DEF Judging
  <2> QED
    BY <2>3, <2>4
<1> QED
  BY <1>3, <1>4, ReviewsOne

-----------------------------------------------------------------------------
(* The recursions of the frontier *)

Frontiers == [valid: BOOLEAN, open: SUBSET (Runs \X Ids)]

(* The findings of reviewed RUNs are keys of the frontier. *)
LEMMA FrontiersTyped ==
  /\ Invalid \in Frontiers
  /\ \A open \in SUBSET (Runs \X Ids) : Frontier(open) \in Frontiers
  /\ \A n \in Runs, ids \in SUBSET Ids : Keys(n, ids) \in SUBSET (Runs \X Ids)
  BY DEF Invalid, Frontier, Frontiers, Keys

LEMMA FromPrimaryTyped ==
  ASSUME LInv, NEW n \in Reviewed
  PROVE  FromPrimary(n) \in Frontiers
<1>1. n \in Runs /\ review[n].findings \in SUBSET Ids
  BY DEF LInv, TypeOK, Reviewed, Review
<1> QED
  BY <1>1, FrontiersTyped DEF FromPrimary

(* An advanced frontier is one. *)
LEMMA AdvanceTyped ==
  ASSUME LInv, NEW n \in Reviewed, NEW before \in Frontiers
  PROVE  Advance(before, n) \in Frontiers
<1>1. n \in Runs /\ review[n].findings \in SUBSET Ids
  BY DEF LInv, TypeOK, Reviewed, Review
<1>2. Keys(n, review[n].findings) \in SUBSET (Runs \X Ids)
  BY <1>1, FrontiersTyped
<1>3. before.open \in SUBSET (Runs \X Ids)
  BY DEF Frontiers
<1>4. \A closed : (before.open \ closed) \cup Keys(n, review[n].findings) \in SUBSET (Runs \X Ids)
  BY <1>2, <1>3
<1>5. \A closed : Frontier((before.open \ closed) \cup Keys(n, review[n].findings)) \in Frontiers
  BY <1>4, FrontiersTyped
<1> QED
  BY <1>5, FrontiersTyped DEF Advance

(* What a RUN that is no PRIMARY builds on, directly and as a correction. *)
LEMMA CorrectionEarlier ==
  ASSUME LInv, NEW n \in Delivered, Subject(n).family # "PRIMARY"
  PROVE  /\ run[n].family # "PRIMARY"
         /\ run[n].base \in Delivered /\ run[n].base \in Runs /\ run[n].base < n
         /\ run[n].base # 0
         /\ Subject(n).family = "REMEDIATION"
         /\ Subject(n).base \in Delivered /\ Subject(n).base \in Runs /\ Subject(n).base < n
         /\ Subject(n).source \in Nat /\ Subject(n).source < n
<1>1. n \in Runs /\ n \in Nat /\ Runs \subseteq Nat
  BY DEF Delivered, Runs
<1>2. Origin[n] = IF run[n].family = "REPAIR" THEN Origin[run[n].base] ELSE n
  BY <1>1, OriginRecursion DEF OriginUnfolds
<1>3. run[n].family # "PRIMARY"
  BY <1>2 DEF Subject
<1>4. run[n].base \in Delivered /\ run[n].base \in Runs /\ run[n].base < n /\ run[n].base # 0
  <2>1. run[n].base \in Delivered /\ run[n].base \in Runs /\ run[n].base < n
    BY <1>3, Earlier
  <2> QED
    BY <2>1 DEF Runs
<1>5. Origin[n] \in Delivered /\ Origin[n] <= n /\ Origin[n] \in Runs
      /\ Subject(n).family = "REMEDIATION"
  BY OriginEarlier
<1> DEFINE o == Origin[n]
<1> HIDE DEF o
<1>6. o \in Delivered /\ o <= n /\ o \in Nat /\ run[o].family = "REMEDIATION" /\ Subject(n) = run[o]
  BY <1>1, <1>5 DEF Subject, o
<1>7. Built(run[o]) /\ run[o].base \in Delivered /\ run[o].base \in Runs /\ run[o].base < o
  BY <1>6, Earlier
<1>8. run[o].source \in 1..run[o].base
  <2>1. run[o].source \in run[run[o].base].line
    BY <1>6, <1>7 DEF Built
  <2>2. run[run[o].base].line \subseteq 1..run[run[o].base].at /\ run[run[o].base].at = run[o].base
    BY <1>7 DEF LInv, Recorded, Whole
  <2> QED
    BY <2>1, <2>2
<1>9. run[o].base \in Nat
  BY <1>1, <1>7
<1>10. run[o].source \in Nat /\ run[o].source < o
  BY <1>6, <1>7, <1>8, <1>9
<1>11. run[o].base < n /\ run[o].source < n
  BY <1>1, <1>6, <1>7, <1>9, <1>10
<1> QED
  BY <1>3, <1>4, <1>5, <1>6, <1>7, <1>10, <1>11

(* How the frontier at RUN n follows from that at the RUN it builds on. *)
Passes(n) ==
  /\ n \in Delivered \ Reviewed
  /\ ~(run[n].base = 0 \/ (IsBatch(run[n]) /\ run[n].ok))
Advances(n) == n \in Delivered \cap Reviewed /\ Subject(n).family # "PRIMARY"
Starts(n) == n \in Delivered \cap Reviewed /\ Subject(n).family = "PRIMARY"

(* The recursion of FrontierAt. *)
FrontierUnfolds ==
  \A n \in Runs :
    FrontierAt[n] = IF Passes(n) THEN FrontierAt[run[n].base]
                    ELSE IF Advances(n) THEN Advance(FrontierAt[run[n].base], n)
                    ELSE IF Starts(n) THEN FromPrimary(n)
                    ELSE Invalid

(* FrontierAt is what its recursion says. *)
LEMMA FrontierRecursion == LInv => FrontierUnfolds
<1> SUFFICES ASSUME LInv PROVE FrontierUnfolds
  OBVIOUS
<1> DEFINE prev == [n \in Runs |-> IF Passes(n) \/ Advances(n) THEN run[n].base ELSE 0]
           first == [n \in Runs |-> IF Starts(n) THEN FromPrimary(n) ELSE Invalid]
           step == [n \in Runs |-> [v \in Frontiers |-> IF Advances(n) THEN Advance(v, n) ELSE v]]
<1>1. \A n \in Runs : Passes(n) \/ Advances(n) =>
        run[n].base \in Runs /\ run[n].base < n /\ run[n].base # 0
  <2> SUFFICES ASSUME NEW n \in Runs, Passes(n) \/ Advances(n)
               PROVE  run[n].base \in Runs /\ run[n].base < n /\ run[n].base # 0
    OBVIOUS
  <2>1. CASE Passes(n)
    BY <2>1, Earlier DEF Passes, Runs
  <2>2. CASE Advances(n)
    BY <2>2, CorrectionEarlier DEF Advances
  <2> QED
    BY <2>1, <2>2
<1>2. prev \in [Runs -> Nat] /\ \A n \in Runs : prev[n] < n
  BY <1>1, BoundAssumption DEF Runs
<1>3. first \in [Runs -> Frontiers]
  <2>1. \A n \in Runs : Starts(n) => FromPrimary(n) \in Frontiers
    BY FromPrimaryTyped DEF Starts
  <2> QED
    BY <2>1, FrontiersTyped
<1>4. step \in [Runs -> [Frontiers -> Frontiers]]
  <2>1. \A n \in Runs, v \in Frontiers : Advances(n) => Advance(v, n) \in Frontiers
    BY AdvanceTyped DEF Advances
  <2>2. \A n \in Runs : [v \in Frontiers |-> IF Advances(n) THEN Advance(v, n) ELSE v]
                           \in [Frontiers -> Frontiers]
    BY <2>1
  <2> QED
    BY <2>2
<1>5. PICK g : Partial(g, Last, Frontiers, first, step, prev)
  <2> HIDE DEF first, step, prev
  <2> QED
    BY <1>2, <1>3, <1>4, Recursion
<1>6. g \in [Runs -> Frontiers]
  BY <1>5 DEF Partial, Runs
<1>7. ASSUME NEW n \in Runs
      PROVE  g[n] = IF Passes(n) THEN g[run[n].base]
                    ELSE IF Advances(n) THEN Advance(g[run[n].base], n)
                    ELSE IF Starts(n) THEN FromPrimary(n)
                    ELSE Invalid
  <2>1. g[n] = IF prev[n] = 0 THEN first[n] ELSE step[n][g[prev[n]]]
    <3> HIDE DEF first, step, prev
    <3> QED
      BY <1>5 DEF Partial, Runs
  <2>2. CASE Passes(n) \/ Advances(n)
    <3>1. prev[n] = run[n].base /\ prev[n] # 0 /\ run[n].base \in Runs
      BY <1>1, <2>2
    <3>2. g[run[n].base] \in Frontiers
      BY <1>6, <3>1
    <3>3. step[n][g[run[n].base]] =
            IF Advances(n) THEN Advance(g[run[n].base], n) ELSE g[run[n].base]
      BY <3>2
    <3>4. Passes(n) => ~Advances(n)
      BY DEF Passes, Advances
    <3> HIDE DEF first, step, prev
    <3> QED
      BY <2>1, <2>2, <3>1, <3>3, <3>4
  <2>3. CASE ~(Passes(n) \/ Advances(n))
    <3>1. prev[n] = 0 /\ first[n] = IF Starts(n) THEN FromPrimary(n) ELSE Invalid
      BY <2>3
    <3> HIDE DEF first, step, prev
    <3> QED
      BY <2>1, <2>3, <3>1
  <2> QED
    BY <2>2, <2>3
<1>8. ASSUME NEW n \in Runs
      PROVE  g[n] = IF n \notin Delivered THEN Invalid
                    ELSE IF n \notin Reviewed
                         THEN IF run[n].base = 0 \/ (IsBatch(run[n]) /\ run[n].ok)
                              THEN Invalid ELSE g[run[n].base]
                    ELSE IF Subject(n).family = "PRIMARY" THEN FromPrimary(n)
                    ELSE Advance(g[run[n].base], n)
  BY <1>7 DEF Passes, Advances, Starts
<1>9. g = [n \in Runs |->
             IF n \notin Delivered THEN Invalid
             ELSE IF n \notin Reviewed
                  THEN IF run[n].base = 0 \/ (IsBatch(run[n]) /\ run[n].ok)
                       THEN Invalid ELSE g[run[n].base]
             ELSE IF Subject(n).family = "PRIMARY" THEN FromPrimary(n)
             ELSE Advance(g[run[n].base], n)]
  BY <1>6, <1>8
<1>10. FrontierAt = [n \in Runs |->
             IF n \notin Delivered THEN Invalid
             ELSE IF n \notin Reviewed
                  THEN IF run[n].base = 0 \/ (IsBatch(run[n]) /\ run[n].ok)
                       THEN Invalid ELSE FrontierAt[run[n].base]
             ELSE IF Subject(n).family = "PRIMARY" THEN FromPrimary(n)
             ELSE Advance(FrontierAt[run[n].base], n)]
  BY <1>9, Zenon DEF FrontierAt
<1> QED
  BY <1>10 DEF Passes, Advances, Starts, FrontierUnfolds

(* The recursion of WalkAt. *)
WalkUnfolds ==
  \A n \in Runs :
    WalkAt[n] = IF Advances(n) THEN Advance(WalkAt[Subject(n).base], n)
                ELSE IF Starts(n) THEN FromPrimary(n)
                ELSE Invalid

(* WalkAt is what its recursion says. *)
LEMMA WalkRecursion == LInv => WalkUnfolds
<1> SUFFICES ASSUME LInv PROVE WalkUnfolds
  OBVIOUS
<1> DEFINE prev == [n \in Runs |-> IF Advances(n) THEN Subject(n).base ELSE 0]
           first == [n \in Runs |-> IF Starts(n) THEN FromPrimary(n) ELSE Invalid]
           step == [n \in Runs |-> [v \in Frontiers |-> IF Advances(n) THEN Advance(v, n) ELSE v]]
<1>1. \A n \in Runs : Advances(n) =>
        Subject(n).base \in Runs /\ Subject(n).base < n /\ Subject(n).base # 0
  BY CorrectionEarlier DEF Advances, Runs
<1>2. prev \in [Runs -> Nat] /\ \A n \in Runs : prev[n] < n
  BY <1>1, BoundAssumption DEF Runs
<1>3. first \in [Runs -> Frontiers]
  <2>1. \A n \in Runs : Starts(n) => FromPrimary(n) \in Frontiers
    BY FromPrimaryTyped DEF Starts
  <2> QED
    BY <2>1, FrontiersTyped
<1>4. step \in [Runs -> [Frontiers -> Frontiers]]
  <2>1. \A n \in Runs, v \in Frontiers : Advances(n) => Advance(v, n) \in Frontiers
    BY AdvanceTyped DEF Advances
  <2>2. \A n \in Runs : [v \in Frontiers |-> IF Advances(n) THEN Advance(v, n) ELSE v]
                           \in [Frontiers -> Frontiers]
    BY <2>1
  <2> QED
    BY <2>2
<1>5. PICK g : Partial(g, Last, Frontiers, first, step, prev)
  <2> HIDE DEF first, step, prev
  <2> QED
    BY <1>2, <1>3, <1>4, Recursion
<1>6. g \in [Runs -> Frontiers]
  BY <1>5 DEF Partial, Runs
<1>7. ASSUME NEW n \in Runs
      PROVE  g[n] = IF Advances(n) THEN Advance(g[Subject(n).base], n)
                    ELSE IF Starts(n) THEN FromPrimary(n)
                    ELSE Invalid
  <2>1. g[n] = IF prev[n] = 0 THEN first[n] ELSE step[n][g[prev[n]]]
    <3> HIDE DEF first, step, prev
    <3> QED
      BY <1>5 DEF Partial, Runs
  <2>2. CASE Advances(n)
    <3>1. prev[n] = Subject(n).base /\ prev[n] # 0 /\ Subject(n).base \in Runs
      BY <1>1, <2>2
    <3>2. g[Subject(n).base] \in Frontiers
      BY <1>6, <3>1
    <3>3. step[n][g[Subject(n).base]] = Advance(g[Subject(n).base], n)
      BY <2>2, <3>2
    <3> HIDE DEF first, step, prev
    <3> QED
      BY <2>1, <2>2, <3>1, <3>3
  <2>3. CASE ~Advances(n)
    <3>1. prev[n] = 0 /\ first[n] = IF Starts(n) THEN FromPrimary(n) ELSE Invalid
      BY <2>3
    <3> HIDE DEF first, step, prev
    <3> QED
      BY <2>1, <2>3, <3>1
  <2> QED
    BY <2>2, <2>3
<1>8. ASSUME NEW n \in Runs
      PROVE  g[n] = IF n \notin Delivered \cap Reviewed THEN Invalid
                    ELSE IF Subject(n).family = "PRIMARY" THEN FromPrimary(n)
                    ELSE Advance(g[Subject(n).base], n)
  BY <1>7 DEF Advances, Starts
<1>9. g = [n \in Runs |->
             IF n \notin Delivered \cap Reviewed THEN Invalid
             ELSE IF Subject(n).family = "PRIMARY" THEN FromPrimary(n)
             ELSE Advance(g[Subject(n).base], n)]
  BY <1>6, <1>8
<1>10. WalkAt = [n \in Runs |->
             IF n \notin Delivered \cap Reviewed THEN Invalid
             ELSE IF Subject(n).family = "PRIMARY" THEN FromPrimary(n)
             ELSE Advance(WalkAt[Subject(n).base], n)]
  BY <1>9, Zenon DEF WalkAt
<1> QED
  BY <1>10 DEF Advances, Starts, WalkUnfolds

-----------------------------------------------------------------------------
(* What the reviews of a line raise and close *)

(* What the review of RUN m closes. *)
Closing(m) ==
  IF IsBatch(Subject(m)) THEN Keys(Subject(m).source, review[m].passed)
  ELSE IF review[m].verdict = "BLOCKED" THEN {} ELSE Targets(Subject(m))

LEMMA RaisedIs ==
  ASSUME NEW n, NEW x
  PROVE  x \in Raised(n) <=> \E m \in Judged(n) : x \in Keys(m, review[m].findings)
  BY DEF Raised

LEMMA ClosedIs ==
  ASSUME NEW n, NEW x
  PROVE  x \in Closed(n) <=>
           \E m \in Judged(n) : Subject(m).family = "REMEDIATION" /\ x \in Closing(m)
  BY DEF Closed, Closing

(* A review raises keys of its own RUN, and closes keys of earlier ones. *)
LEMMA KeysOf ==
  ASSUME NEW n, NEW ids, NEW x \in Keys(n, ids)
  PROVE  x[1] = n
  BY DEF Keys

LEMMA ClosingEarlier ==
  ASSUME LInv, NEW m \in Delivered, Subject(m).family = "REMEDIATION", NEW x \in Closing(m)
  PROVE  x[1] = Subject(m).source /\ x[1] \in Nat /\ x[1] < m
<1>1. Subject(m).source \in Nat /\ Subject(m).source < m
  BY CorrectionEarlier
<1>2. x[1] = Subject(m).source
  BY KeysOf DEF Closing, Targets
<1> QED
  BY <1>1, <1>2

(* The line of a correction: a REPAIR, or a RUN without a review, adds nothing
   to what its base was judged by. *)
LEMMA JudgedGrows ==
  ASSUME LInv, NEW n \in Delivered, run[n].family # "PRIMARY" \/ run[n].base # 0
  PROVE  /\ n \notin Judged(run[n].base)
         /\ n \in Reviewed => Judged(n) = Judged(run[n].base) \cup {n}
         /\ n \notin Reviewed => Judged(n) = Judged(run[n].base)
         /\ \A m \in Judged(run[n].base) : m \in Delivered /\ m < n
<1>1. /\ run[n].base \in Delivered /\ run[n].base < n /\ n \notin run[run[n].base].line
      /\ run[n].line = run[run[n].base].line \cup {n} /\ run[n].base \in Runs
  BY Earlier
<1>2. run[run[n].base].line \subseteq Delivered /\ run[run[n].base].line \subseteq 1..run[n].base
  BY <1>1, LineDelivered DEF LInv, Recorded, Whole
<1>3. \A m \in 1..run[n].base : m < n
  BY <1>1 DEF Runs, Delivered
<1> QED
  BY <1>1, <1>2, <1>3 DEF Judged

(* Nothing before a RUN about the PRIMARY succeeded: it is that, or a REPAIR of
   RUNs that failed. *)
LEMMA PrimaryLine ==
  ASSUME LInv, NEW n \in Delivered, Subject(n).family = "PRIMARY"
  PROVE  run[n].line \cap Succeeded \subseteq {n}
<1> DEFINE Good == {k \in Delivered : Subject(k).family = "PRIMARY" => run[k].line \cap Succeeded \subseteq {k}}
<1>1. ASSUME NEW m \in Delivered, \A k \in Delivered : k < m => k \in Good
      PROVE  m \in Good
  <2>1. m \in Runs
    BY DEF Delivered
  <2>2. Origin[m] = IF run[m].family = "REPAIR" THEN Origin[run[m].base] ELSE m
    BY <2>1, OriginRecursion DEF OriginUnfolds
  <2>3. CASE run[m].family = "REPAIR"
    <3>1. /\ run[m].base \in Delivered /\ run[m].base < m
          /\ run[m].line = run[run[m].base].line \cup {m} /\ ~run[run[m].base].ok
      BY <2>3, Earlier DEF Built
    <3>2. run[m].base \notin Succeeded /\ Subject(run[m].base) = Subject(m)
      BY <2>2, <2>3, <3>1 DEF Succeeded, Subject
    <3> QED
      BY <1>1, <3>1, <3>2
  <2>4. CASE run[m].family # "REPAIR"
    <3>1. Subject(m) = run[m]
      BY <2>2, <2>4 DEF Subject
    <3>2. run[m].family = "PRIMARY" => run[m].line = {m}
      BY DEF LInv, Recorded, Whole, Rooted, Grown, Built
    <3> QED
      BY <3>1, <3>2
  <2> QED
    BY <2>3, <2>4
<1>2. n \in Good
  <2> HIDE DEF Good
  <2> QED
    BY <1>1, LineInduction
<1> QED
  BY <1>2

-----------------------------------------------------------------------------
(* The frontier is what the reviews leave. *)

FrontierLeaves(n) == FrontierAt[n].valid => FrontierAt[n].open = Left(n)

(* A RUN about the PRIMARY: its findings are the only ones. *)
LEMMA StartsLeave ==
  ASSUME LInv, Judging, NEW n \in Delivered, Starts(n)
  PROVE  FrontierLeaves(n)
<1>1. n \in Runs /\ n \in Reviewed /\ Subject(n).family = "PRIMARY"
  BY DEF Starts, Delivered
<1>2. Judged(n) = {n}
  <2>1. Judged(n) \subseteq {n}
    BY <1>1, PrimaryLine DEF Judging, Judged
  <2>2. n \in run[n].line
    BY DEF LInv, Recorded, Whole
  <2> QED
    BY <1>1, <2>1, <2>2 DEF Judged
<1>3. \A x : x \in Raised(n) <=> x \in Keys(n, review[n].findings)
  BY <1>2, RaisedIs
<1>4. \A x : x \notin Closed(n)
  BY <1>1, <1>2, ClosedIs
<1>5. Left(n) = Keys(n, review[n].findings)
  BY <1>3, <1>4 DEF Left
<1>6. FrontierAt[n] = FromPrimary(n)
  BY <1>1, FrontierRecursion DEF FrontierUnfolds, Starts, Passes, Advances
<1> QED
  BY <1>5, <1>6 DEF FrontierLeaves, FromPrimary, Invalid, Frontier

(* A RUN without a review: nothing is raised or closed. *)
LEMMA PassesLeave ==
  ASSUME LInv, NEW n \in Delivered, Passes(n), FrontierLeaves(run[n].base)
  PROVE  FrontierLeaves(n)
<1>1. n \in Runs /\ n \notin Reviewed /\ run[n].base # 0
  BY DEF Passes, Delivered
<1>2. Judged(n) = Judged(run[n].base)
  BY <1>1, JudgedGrows
<1>3. Left(n) = Left(run[n].base)
  BY <1>2 DEF Left, Raised, Closed
<1>4. FrontierAt[n] = FrontierAt[run[n].base]
  BY <1>1, FrontierRecursion DEF FrontierUnfolds
<1> QED
  BY <1>3, <1>4 DEF FrontierLeaves

(* A reviewed correction: what its review closes was open, and what it raises
   was never closed. *)
LEMMA AdvancesLeave ==
  ASSUME LInv, Judging, NEW n \in Delivered, Advances(n), FrontierLeaves(run[n].base)
  PROVE  FrontierLeaves(n)
<1> DEFINE b == run[n].base
           new == Keys(n, review[n].findings)
           before == FrontierAt[b]
<1>1. n \in Runs /\ n \in Reviewed /\ Subject(n).family = "REMEDIATION" /\ run[n].family # "PRIMARY"
  BY CorrectionEarlier DEF Advances, Delivered
<1>2. /\ Judged(n) = Judged(b) \cup {n}
      /\ \A m \in Judged(b) : m \in Delivered /\ m < n
  BY <1>1, JudgedGrows
<1>3. FrontierAt[n] = Advance(before, n)
  BY <1>1, FrontierRecursion DEF FrontierUnfolds, Passes, Advances
<1>4. before.valid => before.open = Left(b)
  BY DEF FrontierLeaves
<1> HIDE DEF b, before
<1>5. \A x : x \in Raised(n) <=> x \in Raised(b) \/ x \in new
  BY <1>2, RaisedIs
<1> HIDE DEF new
<1>6. \A x : x \in Closed(n) <=> x \in Closed(b) \/ x \in Closing(n)
  BY <1>1, <1>2, ClosedIs
<1>7. \A x \in new : x \notin Closed(b) /\ x \notin Closing(n)
  <2> SUFFICES ASSUME NEW x \in new PROVE x \notin Closed(b) /\ x \notin Closing(n)
    OBVIOUS
  <2>1. x[1] = n /\ n \in Nat
    BY <1>1, KeysOf DEF new, Runs
  <2>2. x \notin Closing(n)
    BY <1>1, <2>1, ClosingEarlier
  <2>3. ASSUME NEW m \in Judged(b), Subject(m).family = "REMEDIATION", x \in Closing(m)
        PROVE  FALSE
    <3>1. m \in Delivered /\ m < n /\ m \in Nat
      BY <1>2 DEF Delivered, Runs
    <3>2. x[1] < m
      BY <2>3, <3>1, ClosingEarlier
    <3> QED
      BY <2>1, <3>1, <3>2
  <2> QED
    BY <2>2, <2>3, ClosedIs
<1>8. Left(n) = (Left(b) \ Closing(n)) \cup new
  BY <1>5, <1>6, <1>7 DEF Left
<1>9. CASE ~IsBatch(Subject(n)) /\ review[n].verdict = "BLOCKED"
  <2>1. review[n].findings = {} /\ Closing(n) = {}
    BY <1>1, <1>9 DEF Judging, Closing
  <2>2. Left(n) = Left(b)
    BY <1>8, <2>1 DEF new, Keys
  <2>3. FrontierAt[n].valid => FrontierAt[n] = before /\ before.valid
    BY <1>3, <1>9 DEF Advance, Invalid
  <2> QED
    BY <1>4, <2>2, <2>3 DEF FrontierLeaves
<1>10. CASE ~(~IsBatch(Subject(n)) /\ review[n].verdict = "BLOCKED")
  <2>1. FrontierAt[n].valid =>
          before.valid /\ FrontierAt[n] = Frontier((before.open \ Closing(n)) \cup new)
    BY <1>3, <1>10 DEF Advance, Closing, Invalid, new
  <2>2. ASSUME NEW open PROVE Frontier(open).open = open
    BY DEF Frontier
  <2> QED
    BY <1>4, <1>8, <2>1, <2>2 DEF FrontierLeaves
<1> QED
  BY <1>9, <1>10

(* By induction, it is so along every lineage. *)
LEMMA FrontierLeft == IInv => FrontierIsWhatReviewsLeave
<1> SUFFICES ASSUME IInv PROVE \A n \in Delivered : FrontierLeaves(n)
  BY DEF FrontierIsWhatReviewsLeave, FrontierLeaves
<1> DEFINE Good == {k \in Delivered : FrontierLeaves(k)}
<1>1. ASSUME NEW n \in Delivered, \A k \in Delivered : k < n => k \in Good
      PROVE  n \in Good
  <2>0. LInv /\ Judging /\ n \in Runs
    BY DEF IInv, Delivered
  <2>1. CASE Starts(n)
    BY <2>0, <2>1, StartsLeave
  <2>2. CASE Advances(n)
    <3>1. run[n].base \in Delivered /\ run[n].base < n
      BY <2>0, <2>2, CorrectionEarlier DEF Advances
    <3> QED
      BY <1>1, <2>0, <2>2, <3>1, AdvancesLeave
  <2>3. CASE Passes(n)
    <3>1. run[n].base \in Delivered /\ run[n].base < n
      BY <2>0, <2>3, Earlier DEF Passes
    <3> QED
      BY <1>1, <2>0, <2>3, <3>1, PassesLeave
  <2>4. CASE ~Starts(n) /\ ~Advances(n) /\ ~Passes(n)
    BY <2>0, <2>4, FrontierRecursion DEF FrontierUnfolds, Invalid, FrontierLeaves
  <2> QED
    BY <2>1, <2>2, <2>3, <2>4
<1>2. Delivered \subseteq Good
  <2> HIDE DEF Good
  <2> QED
    BY <1>1, LineInduction
<1> QED
  BY <1>2

-----------------------------------------------------------------------------
(* The Publisher reads what the reducer reads. *)

(* Between a correction and the RUN it corrects on, REPAIRs of failed RUNs
   leave the frontier as it was. *)
LEMMA BaseFrontier ==
  ASSUME LInv, Judging, NEW n \in Delivered, Subject(n).family # "PRIMARY"
  PROVE  FrontierAt[run[n].base] = FrontierAt[Subject(n).base]
<1> DEFINE Good == {k \in Delivered : Subject(k).family # "PRIMARY" =>
                                        FrontierAt[run[k].base] = FrontierAt[Subject(k).base]}
<1>1. ASSUME NEW m \in Delivered, \A k \in Delivered : k < m => k \in Good
      PROVE  m \in Good
  <2> SUFFICES ASSUME Subject(m).family # "PRIMARY"
               PROVE  FrontierAt[run[m].base] = FrontierAt[Subject(m).base]
    OBVIOUS
  <2>1. m \in Runs
    BY DEF Delivered
  <2>2. Origin[m] = IF run[m].family = "REPAIR" THEN Origin[run[m].base] ELSE m
    BY <2>1, OriginRecursion DEF OriginUnfolds
  <2>3. CASE run[m].family = "REPAIR"
    <3>1. /\ run[m].base \in Delivered /\ run[m].base < m /\ run[m].base \in Runs
          /\ ~run[run[m].base].ok
      BY <2>3, Earlier DEF Built
    <3>2. Subject(run[m].base) = Subject(m) /\ run[m].base \notin Reviewed
      BY <2>2, <2>3, <3>1 DEF Judging, Succeeded, Subject
    <3>3. run[run[m].base].base # 0
      BY <3>1, <3>2, CorrectionEarlier
    <3>4. FrontierAt[run[m].base] = FrontierAt[run[run[m].base].base]
      BY <3>1, <3>2, <3>3, FrontierRecursion DEF FrontierUnfolds, Passes
    <3>5. FrontierAt[run[run[m].base].base] = FrontierAt[Subject(run[m].base).base]
      BY <1>1, <3>1, <3>2
    <3> QED
      BY <3>2, <3>4, <3>5
  <2>4. CASE run[m].family # "REPAIR"
    BY <2>2, <2>4 DEF Subject
  <2> QED
    BY <2>3, <2>4
<1>2. n \in Good
  <2> HIDE DEF Good
  <2> QED
    BY <1>1, LineInduction
<1> QED
  BY <1>2

Agreed(n) == WalkAt[n].valid => WalkAt[n] = FrontierAt[n]

(* Where the Publisher's walk ends well, it ends at the reducer's frontier. *)
LEMMA WalksAgree == ASSUME LInv, Judging, NEW n \in Delivered PROVE Agreed(n)
<1> DEFINE Good == {k \in Delivered : Agreed(k)}
<1>1. ASSUME NEW m \in Delivered, \A k \in Delivered : k < m => k \in Good
      PROVE  m \in Good
  <2>1. m \in Runs
    BY DEF Delivered
  <2>2. CASE Starts(m)
    <3>1. ~Passes(m) /\ ~Advances(m)
      BY <2>2 DEF Starts, Passes, Advances
    <3>2. WalkAt[m] = FromPrimary(m) /\ FrontierAt[m] = FromPrimary(m)
      BY <2>1, <2>2, <3>1, WalkRecursion, FrontierRecursion DEF WalkUnfolds, FrontierUnfolds
    <3> QED
      BY <3>2 DEF Agreed
  <2>3. CASE Advances(m)
    <3>1. Subject(m).base \in Delivered /\ Subject(m).base < m
      BY <2>3, CorrectionEarlier DEF Advances
    <3>2. FrontierAt[run[m].base] = FrontierAt[Subject(m).base]
      BY <2>3, BaseFrontier DEF Advances
    <3>3. WalkAt[m] = Advance(WalkAt[Subject(m).base], m)
      BY <2>1, <2>3, WalkRecursion DEF WalkUnfolds
    <3>4. FrontierAt[m] = Advance(FrontierAt[run[m].base], m)
      BY <2>1, <2>3, FrontierRecursion DEF FrontierUnfolds, Passes, Advances
    <3>5. WalkAt[m].valid => WalkAt[Subject(m).base].valid
      BY <3>3 DEF Advance, Invalid
    <3> QED
      BY <1>1, <3>1, <3>2, <3>3, <3>4, <3>5 DEF Agreed
  <2>4. CASE ~Starts(m) /\ ~Advances(m)
    BY <2>1, <2>4, WalkRecursion DEF WalkUnfolds, Invalid, Agreed
  <2> QED
    BY <2>2, <2>3, <2>4
<1>2. n \in Good
  <2> HIDE DEF Good
  <2> QED
    BY <1>1, LineInduction
<1> QED
  BY <1>2

(* Only the Publisher moves main. *)
LEMMA OnlyPublishing == ASSUME [Next]_vars PROVE main' = main \/ \E n \in Runs : Publish(n)
<1>1. CASE Correct \/ UNCHANGED vars
  BY <1>1 DEF Correct, Propose, Grant, remote, vars
<1>2. CASE \E n \in Runs : GrantRepair(n) \/ SubmitReview(n)
  BY <1>2 DEF GrantRepair, SubmitReview
<1>3. ASSUME NEW c \in Checkouts, Work(c) PROVE main' = main
  <2>1. CASE \E a \in granted, t \in Runs : Resolve(c, a, t)
    BY <2>1 DEF Resolve, remote
  <2>2. CASE Reserve(c) \/ Refuse(c) \/ \E n \in Runs : Repair(c, n)
    BY <2>2 DEF Reserve, Refuse, Repair, remote
  <2>3. CASE \E ok \in BOOLEAN : Finish(c, ok) \/ FinishUndelivered(c, ok)
    BY <2>3 DEF Finish, FinishUndelivered, remote
  <2>4. CASE \E r \in kept[c] : RetryTransport(c, r)
    BY <2>4 DEF RetryTransport
  <2> QED
    BY <1>3, <2>1, <2>2, <2>3, <2>4 DEF Work
<1> QED
  BY <1>1, <1>2, <1>3 DEF Next

(* A correction that is published has a clean frontier by both readings. *)
LEMMA PublishesClean ==
  ASSUME IInv, NEW n \in Runs, Publish(n), run[n].family = "REMEDIATION"
  PROVE  FrontierAt[n] = Clean /\ Left(n) = {}
<1>1. n \in Delivered /\ PublisherFrontier(n) = Clean /\ LInv /\ Judging
  BY DEF Publish, Succeeded, IInv
<1>2. Clean.valid = TRUE /\ Clean.open = {} /\ Invalid # Clean
  BY DEF Clean, Frontier, Invalid
<1>3. WalkAt[n] = Clean \/ FrontierAt[n] = Clean
  BY <1>1, <1>2 DEF PublisherFrontier
<1>4. FrontierAt[n] = Clean
  BY <1>1, <1>2, <1>3, WalksAgree DEF Agreed
<1>5. Left(n) = {}
  BY <1>1, <1>2, <1>4, FrontierLeft DEF FrontierIsWhatReviewsLeave
<1> QED
  BY <1>4, <1>5

-----------------------------------------------------------------------------
(* Theorems *)

(* The inductive invariant: every terminal RUN, delivered or kept, builds on
   delivered RUNs only and not on its own result, and so does what is being
   executed. *)
THEOREM LineageInvariance == Spec => []LInv
<1>1. Init => LInv
  BY Initially
<1>2. LInv /\ [Next]_vars => LInv'
  BY Step
<1> QED
  BY <1>1, <1>2, PTL DEF Spec

(* Types: RUNs, reviews, authorities and plans are what they are said to be. *)
THEOREM TypeCorrect == Spec => []TypeOK
<1>1. LInv => TypeOK
  BY DEF LInv
<1> QED
  BY <1>1, LineageInvariance, PTL

(* No batch is ever executed on top of a RUN that executed it, however many
   checkouts resolve it at once and however their RUNs are delivered. *)
THEOREM BatchesDoNotStack == Spec => []BatchNeverBuildsOnItself
<1>1. LInv => BatchNeverBuildsOnItself
  <2> SUFFICES ASSUME LInv, NEW n \in Delivered, NEW m \in Delivered, n # m, IsBatch(run[m]),
                      run[n].source = run[m].source, run[n].ids = run[m].ids, n \in run[m].line
               PROVE  FALSE
    BY DEF BatchNeverBuildsOnItself
  <2>1. run[m].at = m /\ Unbuilt(run[m], run[m].line \ {run[m].at})
    BY DEF LInv, Recorded, Whole
  <2> QED
    BY <2>1 DEF Unbuilt
<1> QED
  BY <1>1, LineageInvariance, PTL

(* With it, only what succeeded is ever reviewed, and a blocked review of a
   single finding raises nothing. *)
THEOREM Invariance == Spec => []IInv
<1>1. Init => Judging
  BY DEF Init, Judging, Reviewed
<1>2. LInv /\ LInv' /\ Judging /\ [Next]_vars => Judging'
  BY JudgingStays
<1>3. IInv <=> LInv /\ Judging
  BY DEF IInv
<1> QED
  BY <1>1, <1>2, <1>3, LineageInvariance, PTL DEF Spec

(* The frontier the reducer derives is what the reviews of the lineage raised
   and did not close: no sibling finding of a batch is lost, none that was
   closed comes back, through any sequence of corrections, batches, failures
   and REPAIRs. *)
THEOREM FrontierHolds == Spec => []FrontierIsWhatReviewsLeave
  BY FrontierLeft, Invariance, PTL

(* Wherever the Publisher's own walk along the execution bases gives a frontier,
   the reducer's walk along the operational parents gives the same one. *)
WalksAreOne == \A n \in Delivered : Agreed(n)

THEOREM ReadersAgree == Spec => []WalksAreOne
<1>1. IInv => WalksAreOne
  BY WalksAgree DEF IInv, WalksAreOne
<1> QED
  BY <1>1, Invariance, PTL

(* A correction is published only when no finding of its lineage is left open,
   by the Publisher's reading and by the reducer's. *)
THEOREM PublicationIsClean == Spec => PublishedIsClean
<1>1. IInv /\ [Next]_vars =>
        [main' # main /\ run[main'].family = "REMEDIATION"
           => Left(main') = {} /\ FrontierAt[main'] = Clean]_vars
  <2> SUFFICES ASSUME IInv, [Next]_vars, main' # main, run[main'].family = "REMEDIATION"
               PROVE  Left(main') = {} /\ FrontierAt[main'] = Clean
    OBVIOUS
  <2> PICK n \in Runs : Publish(n)
    BY OnlyPublishing
  <2>1. main' = n
    BY DEF Publish
  <2> QED
    BY <2>1, PublishesClean
<1> QED
  BY <1>1, Invariance, PTL DEF Spec, PublishedIsClean

=============================================================================
