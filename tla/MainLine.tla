------------------------------ MODULE MainLine ------------------------------
(***************************************************************************)
(* What publication promises about the published main: it is one line of   *)
(* commits; candidates and their PASSes are write-once; main moves forward *)
(* to a candidate with a PASS, or by an authored change, and never past a  *)
(* PASS that could still have been published.                              *)
(***************************************************************************)
CONSTANTS Runs, Authors, Missing

VARIABLES main, candidate, passed

Init ==
  /\ passed \subseteq Runs
  /\ \A r \in passed : candidate[r] # Missing

(* A candidate is offered, and never replaced. *)
Offer(r, commit) ==
  /\ candidate[r] = Missing /\ commit # Missing
  /\ candidate' = [candidate EXCEPT ![r] = commit]
  /\ UNCHANGED <<main, passed>>

Pass(r) ==
  /\ candidate[r] # Missing /\ r \notin passed
  /\ passed' = passed \cup {r}
  /\ UNCHANGED <<main, candidate>>

(* Publishable: main can be fast-forwarded to it. *)
Publishable(r) == r \in passed /\ main \subseteq candidate[r] /\ candidate[r] # main

Advance(to) ==
  /\ main \subseteq to /\ to # main
  /\ \A r \in passed : Publishable(r) => to \subseteq candidate[r] \/ candidate[r] \subseteq to
  /\ main' = to
  /\ UNCHANGED <<candidate, passed>>

Next ==
  \/ \E r \in Runs : Offer(r, candidate'[r]) \/ Pass(r)
  \/ \E r \in passed : Advance(candidate[r])
  \/ \E a \in Authors : a \notin main /\ Advance(main \cup {a})

vars == <<main, candidate, passed>>
Spec == Init /\ [][Next]_vars
=============================================================================
