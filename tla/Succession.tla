----------------------------- MODULE Succession -----------------------------
(***************************************************************************)
(* What the migration handoffs promise: authority passes from generation   *)
(* to generation one handoff at a time; each is offered, taken by its      *)
(* target and finished, admits one RUN at most, and may be replaced, in a  *)
(* single step, only after it was taken and before it has a RUN.           *)
(***************************************************************************)
CONSTANT Edges

VARIABLES phase, ran

Open == {e \in Edges : phase[e] \in {"offered", "taken"}}

Init == phase = [e \in Edges |-> "none"] /\ ran = {}

Offer(e) == /\ phase[e] = "none" /\ Open = {}
            /\ phase' = [phase EXCEPT ![e] = "offered"]
            /\ UNCHANGED ran

Take(e) == /\ phase[e] = "offered"
           /\ phase' = [phase EXCEPT ![e] = "taken"]
           /\ UNCHANGED ran

Admit(e) == /\ phase[e] = "taken" /\ e \notin ran
            /\ ran' = ran \cup {e}
            /\ UNCHANGED phase

Finish(e) == /\ phase[e] = "taken"
             /\ phase' = [phase EXCEPT ![e] = "done"]
             /\ UNCHANGED ran

Replace(old, new) ==
  /\ phase[old] = "taken" /\ old \notin ran
  /\ phase[new] = "none"
  /\ phase' = [phase EXCEPT ![old] = "replaced", ![new] = "offered"]
  /\ UNCHANGED ran

Next == \/ \E e \in Edges : Offer(e) \/ Take(e) \/ Admit(e) \/ Finish(e)
        \/ \E old, new \in Edges : Replace(old, new)

vars == <<phase, ran>>
Spec == Init /\ [][Next]_vars
=============================================================================
